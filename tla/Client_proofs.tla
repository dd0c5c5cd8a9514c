---------------------------- MODULE Client_proofs ----------------------------
(***************************************************************************)
(* The database client, for any queries, writes, values and faults.  Its   *)
(* connection is never stranded, and the answers it holds back are let go; *)
(* the writes reach the server, and are told, as Replay promises; and the  *)
(* tree of pending writes and the view are what those writes make of the   *)
(* server's data, which the view reaches when nothing is under way.        *)
(***************************************************************************)
EXTENDS Client, View_proofs

-----------------------------------------------------------------------------
(* Wires and the listens in them.                                          *)

ListenAt(w) == {i \in DOMAIN w : w[i].type = "listen"}

LEMMA SeqIsWire == ASSUME NEW S, NEW w \in Seq(S) PROVE IsWire(w)
<1>1. w \in [1 .. Len(w) -> {w[i] : i \in DOMAIN w}] /\ Len(w) \in Nat
  OBVIOUS
<1>2. QED BY <1>1 DEF IsWire

LEMMA WireFacts ==
  ASSUME NEW w, IsWire(w)
  PROVE  /\ Len(w) \in Nat /\ DOMAIN w = 1 .. Len(w)
         /\ IsFiniteSet(ListenAt(w)) /\ ListensIn(w) \in Nat
<1>1. Len(w) \in Nat /\ DOMAIN w = 1 .. Len(w)
  BY DEF IsWire
<1>2. IsFiniteSet(1 .. Len(w))
  BY <1>1, FS_Interval
<1>3. IsFiniteSet(ListenAt(w))
  BY <1>1, <1>2, FS_Subset DEF ListenAt
<1>4. QED BY <1>1, <1>3, FS_CardinalityType DEF ListensIn, ListenAt

LEMMA EmptyWire == IsWire(<<>>) /\ ListensIn(<<>>) = 0
<1>1. IsWire(<<>>)
  BY DEF IsWire
<1>2. {i \in DOMAIN <<>> : <<>>[i].type = "listen"} = {}
  OBVIOUS
<1>3. QED BY <1>1, <1>2, FS_EmptySet DEF ListensIn

\* A request or push that is alone counts once if it is a listen.
LEMMA Single ==
  ASSUME NEW m
  PROVE  /\ IsWire(<<m>>)
         /\ m.type = "listen" => ListensIn(<<m>>) = 1
         /\ m.type # "listen" => ListensIn(<<m>>) = 0
<1>1. IsWire(<<m>>)
  BY SeqIsWire, <<m>> \in Seq({m})
<1>2. ASSUME m.type = "listen" PROVE ListensIn(<<m>>) = 1
  <2>1. {i \in DOMAIN <<m>> : <<m>>[i].type = "listen"} = {1}
    BY <1>2
  <2>2. QED BY <2>1, FS_Singleton DEF ListensIn
<1>3. ASSUME m.type # "listen" PROVE ListensIn(<<m>>) = 0
  <2>1. {i \in DOMAIN <<m>> : <<m>>[i].type = "listen"} = {}
    BY <1>3
  <2>2. QED BY <2>1, FS_EmptySet DEF ListensIn
<1>4. QED BY <1>1, <1>2, <1>3

LEMMA Joined ==
  ASSUME NEW v, NEW w, IsWire(v), IsWire(w)
  PROVE  /\ IsWire(v \o w)
         /\ ListensIn(v \o w) = ListensIn(v) + ListensIn(w)
<1> DEFINE n == Len(v)
           A == ListenAt(v)
           B == ListenAt(w)
           C == {j \in n + 1 .. n + Len(w) : j - n \in B}
<1>1. v \o w \in Seq({v[i] : i \in DOMAIN v} \cup {w[i] : i \in DOMAIN w})
  BY DEF IsWire
<1>2. IsWire(v \o w)
  BY <1>1, SeqIsWire
<1>3. /\ n \in Nat /\ DOMAIN v = 1 .. n /\ Len(w) \in Nat /\ DOMAIN w = 1 .. Len(w)
      /\ IsFiniteSet(A) /\ IsFiniteSet(B)
  BY WireFacts
<1>4. /\ DOMAIN (v \o w) = 1 .. n + Len(w)
      /\ \A i \in 1 .. n : (v \o w)[i] = v[i]
      /\ \A i \in n + 1 .. n + Len(w) : (v \o w)[i] = w[i - n]
  BY <1>3 DEF IsWire
<1>5. ListenAt(v \o w) = A \cup C
  BY <1>3, <1>4 DEF ListenAt
<1>6. A \cap C = {}
  BY <1>3 DEF ListenAt
<1>7. IsFiniteSet(C) /\ Cardinality(C) = Cardinality(B)
  <2> DEFINE f == [i \in B |-> n + i]
  <2>1. f \in Bijection(B, C)
    BY <1>3 DEF ListenAt, Bijection, Injection, Surjection, IsInjective
  <2>2. QED BY <1>3, <2>1, FS_Bijection DEF ExistsBijection
<1>8. Cardinality(A \cup C) = Cardinality(A) + Cardinality(B)
  <2> HIDE DEF A, B, C
  <2>1. Cardinality(A \cup C) = Cardinality(A) + Cardinality(C) - Cardinality(A \cap C)
    BY <1>3, <1>7, FS_Union
  <2>2. Cardinality(A \cap C) = 0
    BY <1>6, FS_EmptySet
  <2>3. Cardinality(A) \in Nat /\ Cardinality(B) \in Nat
    BY <1>3, FS_CardinalityType
  <2>4. QED BY <1>7, <2>1, <2>2, <2>3
<1>9. QED BY <1>2, <1>5, <1>8 DEF ListensIn, ListenAt

LEMMA Appended ==
  ASSUME NEW w, NEW m, IsWire(w)
  PROVE  /\ IsWire(Append(w, m)) /\ Append(w, m) # <<>>
         /\ w = <<>> => Head(Append(w, m)) = m
         /\ w # <<>> => Head(Append(w, m)) = Head(w)
         /\ m.type = "listen" => ListensIn(Append(w, m)) = ListensIn(w) + 1
         /\ m.type # "listen" => ListensIn(Append(w, m)) = ListensIn(w)
<1>1. Append(w, m) = w \o <<m>>
  BY DEF IsWire
<1>2. IsWire(<<m>>)
  BY Single
<1>3. /\ IsWire(w \o <<m>>)
      /\ ListensIn(w \o <<m>>) = ListensIn(w) + ListensIn(<<m>>)
  BY <1>2, Joined
<1>4. /\ Append(w, m) # <<>>
      /\ w = <<>> => Head(Append(w, m)) = m
      /\ w # <<>> => Head(Append(w, m)) = Head(w)
  BY DEF IsWire
<1>5. QED BY <1>1, <1>3, <1>4, Single, WireFacts

\* One message is taken out.
LEMMA Taken ==
  ASSUME NEW w, IsWire(w), NEW i \in DOMAIN w
  PROVE  /\ IsWire(RemoveAt(w, i))
         /\ w[i].type = "listen" => ListensIn(w) = ListensIn(RemoveAt(w, i)) + 1
         /\ w[i].type # "listen" => ListensIn(w) = ListensIn(RemoveAt(w, i))
<1> DEFINE u == SubSeq(w, 1, i - 1)
           v == SubSeq(w, i + 1, Len(w))
<1>1. Len(w) \in Nat /\ i \in 1 .. Len(w)
  BY WireFacts
<1>2. IsWire(u) /\ IsWire(v)
  <2> DEFINE S == {w[j] : j \in DOMAIN w}
  <2>1. u \in Seq(S) /\ v \in Seq(S)
    BY <1>1 DEF IsWire
  <2>2. QED BY <2>1, SeqIsWire
<1>3. w = (u \o <<w[i]>>) \o v
  <2> DEFINE S == {w[j] : j \in DOMAIN w}
  <2>1. w \in Seq(S)
    BY DEF IsWire
  <2> HIDE DEF S
  <2>2. u \in Seq(S) /\ Len(u) = i - 1 /\ \A j \in 1 .. i - 1 : u[j] = w[j]
    BY <1>1, <2>1
  <2>3. v \in Seq(S) /\ Len(v) = Len(w) - i /\ \A j \in 1 .. Len(w) - i : v[j] = w[i + j]
    BY <1>1, <2>1
  <2>4. w[i] \in S
    BY <1>1, <2>1
  <2> HIDE DEF u, v
  <2>5. /\ u \o <<w[i]>> \in Seq(S) /\ Len(u \o <<w[i]>>) = i
        /\ \A j \in 1 .. i : (u \o <<w[i]>>)[j] = w[j]
    BY <1>1, <2>2, <2>4
  <2> DEFINE y == u \o <<w[i]>>
  <2> HIDE DEF y
  <2>6. /\ y \o v \in Seq(S) /\ Len(y \o v) = Len(w)
        /\ \A j \in 1 .. i : (y \o v)[j] = y[j]
        /\ \A j \in i + 1 .. Len(w) : (y \o v)[j] = v[j - i]
    BY <1>1, <2>3, <2>5 DEF y
  <2>7. \A j \in 1 .. Len(w) : (y \o v)[j] = w[j]
    <3> SUFFICES ASSUME NEW j \in 1 .. Len(w) PROVE (y \o v)[j] = w[j]
      OBVIOUS
    <3>1. i \in Int /\ Len(w) \in Int /\ j \in Int /\ 1 <= j /\ j <= Len(w)
      BY <1>1
    <3>2. ASSUME j <= i PROVE (y \o v)[j] = w[j]
      <4>1. j \in 1 .. i
        BY <3>1, <3>2
      <4>2. y[j] = w[j]
        BY <2>5, <4>1 DEF y
      <4>3. QED BY <2>6, <4>1, <4>2
    <3>3. ASSUME j > i PROVE (y \o v)[j] = w[j]
      <4>1. j - i \in 1 .. Len(w) - i /\ i + (j - i) = j /\ j \in i + 1 .. Len(w)
        BY <3>1, <3>3
      <4>2. v[j - i] = w[j]
        BY <2>3, <4>1
      <4>3. QED BY <2>6, <4>1, <4>2
    <3>4. j <= i \/ j > i
      BY <3>1
    <3>5. QED BY <3>2, <3>3, <3>4
  <2> DEFINE z == y \o v
  <2>8. z \in Seq(S) /\ Len(z) = Len(w) /\ \A j \in 1 .. Len(w) : z[j] = w[j]
    BY <2>6, <2>7
  <2> HIDE DEF z
  <2>9. z = w
    BY <2>1, <2>8
  <2>10. QED BY <2>9 DEF z, y
<1>4. IsWire(<<w[i]>>)
  BY Single
<1>5. /\ IsWire(u \o v) /\ IsWire(u \o <<w[i]>>)
      /\ ListensIn(u \o v) = ListensIn(u) + ListensIn(v)
      /\ ListensIn(u \o <<w[i]>>) = ListensIn(u) + ListensIn(<<w[i]>>)
  BY <1>2, <1>4, Joined
<1>6. ListensIn((u \o <<w[i]>>) \o v) = ListensIn(u) + ListensIn(<<w[i]>>) + ListensIn(v)
  BY <1>2, <1>5, Joined
<1>7. ListensIn(u) \in Nat /\ ListensIn(v) \in Nat
  BY <1>2, WireFacts
<1>8. RemoveAt(w, i) = u \o v
  BY DEF RemoveAt
<1>9. ListensIn(w) = ListensIn(u) + ListensIn(<<w[i]>>) + ListensIn(v)
  BY <1>3, <1>6
<1>10. QED BY <1>5, <1>7, <1>8, <1>9, Single

LEMMA FirstTaken ==
  ASSUME NEW w, IsWire(w), w # <<>>
  PROVE  /\ Head(w) = w[1] /\ 1 \in DOMAIN w
         /\ IsWire(Tail(w)) /\ Tail(w) = RemoveAt(w, 1)
         /\ Head(w).type = "listen" => ListensIn(w) = ListensIn(Tail(w)) + 1
         /\ Head(w).type # "listen" => ListensIn(w) = ListensIn(Tail(w))
<1>1. Head(w) = w[1] /\ 1 \in DOMAIN w
  BY DEF IsWire
<1>2. Tail(w) = RemoveAt(w, 1)
  BY DEF IsWire, RemoveAt
<1>3. QED BY <1>1, <1>2, Taken

\* Nothing on the wire tells a permanent listen off.
Gentle(w) == \A i \in DOMAIN w : Bearable(w[i])

LEMMA GentleJoined ==
  ASSUME NEW v, NEW w, IsWire(v), IsWire(w), Gentle(v), Gentle(w)
  PROVE  Gentle(v \o w)
<1>1. Len(v) \in Nat /\ DOMAIN v = 1 .. Len(v) /\ Len(w) \in Nat /\ DOMAIN w = 1 .. Len(w)
  BY WireFacts
<1>2. /\ DOMAIN (v \o w) = 1 .. Len(v) + Len(w)
      /\ \A i \in 1 .. Len(v) : (v \o w)[i] = v[i]
      /\ \A i \in Len(v) + 1 .. Len(v) + Len(w) : (v \o w)[i] = w[i - Len(v)]
  BY <1>1 DEF IsWire
<1>3. SUFFICES ASSUME NEW i \in DOMAIN (v \o w) PROVE Bearable((v \o w)[i])
  BY DEF Gentle
<1>4. CASE i \in 1 .. Len(v)
  BY <1>1, <1>2, <1>4 DEF Gentle
<1>5. CASE i \in Len(v) + 1 .. Len(v) + Len(w)
  <2>1. i - Len(v) \in DOMAIN w
    BY <1>1, <1>5
  <2>2. QED BY <1>2, <1>5, <2>1 DEF Gentle
<1>6. QED BY <1>1, <1>2, <1>3, <1>4, <1>5

LEMMA GentleSingle == ASSUME NEW m, Bearable(m) PROVE Gentle(<<m>>)
<1>1. DOMAIN <<m>> = {1} /\ <<m>>[1] = m
  OBVIOUS
<1>2. QED BY <1>1 DEF Gentle

LEMMA GentleTail ==
  ASSUME NEW w, IsWire(w), w # <<>>, Gentle(w)
  PROVE  Gentle(Tail(w)) /\ Bearable(Head(w))
<1>1. /\ Head(w) = w[1] /\ 1 \in DOMAIN w
      /\ DOMAIN Tail(w) = 1 .. Len(w) - 1
      /\ \A i \in 1 .. Len(w) - 1 : Tail(w)[i] = w[i + 1] /\ i + 1 \in DOMAIN w
  BY WireFacts DEF IsWire
<1>2. QED BY <1>1 DEF Gentle

-----------------------------------------------------------------------------
(* The invariant in two parts: who is in charge, and the traffic.          *)

InCharge ==
  /\ conn \in Conn
  /\ NeverStranded
  /\ conn.state # "Disconnected" => conn.reasons = {}

Traffic ==
  /\ listens \in [Query -> Nat]
  /\ made \in Nat /\ unacked \in Nat /\ faults \in Nat
  /\ IsFiniteSet(outstanding)
  /\ IsWire(toServer) /\ IsWire(toClient)
  /\ AcksReleased
  /\ ~Connected => toServer = <<>> /\ toClient = <<>> /\ unacked = 0 /\ session = {}
  /\ RestoreNext
  /\ \A q \in Permanent : listens[q] # 0
  /\ Gentle(toClient)

LEMMA Parts == LinkInv <=> InCharge /\ Traffic
BY DEF LinkInv, LinkTypeOK, InCharge, Traffic, Gentle

LEMMA PartsPrimed == LinkInv' <=> InCharge' /\ Traffic'
BY DEF LinkInv, LinkTypeOK, InCharge, Traffic, Gentle

LEMMA InitHolds == ASSUME LinkInit PROVE LinkInv
<1>1. InCharge
  BY DEF LinkInit, InCharge, Conn, ConnectionState, Reason, NeverStranded, Realtime
<1>2. Traffic
  BY EmptyWire, FS_EmptySet, LinkAssumption
     DEF LinkInit, Traffic, AcksReleased, CanSendWrites, Connected, Gentle, RestoreNext
<1>3. QED BY <1>1, <1>2, Parts

-----------------------------------------------------------------------------
(* Connections.                                                            *)

LEMMA DisconnectedHolds ==
  ASSUME LinkInv, NEW c \in Conn, c.reasons # {} => ~c.retry,
         Disconnected(c), UNCHANGED <<listens, made, outstanding, putsToAck>>,
         faults' \in Nat
  PROVE  LinkInv'
<1> DEFINE d == [c EXCEPT !.state = "Disconnected"]
<1>1. /\ d \in Conn /\ d.state = "Disconnected"
      /\ d.reasons = c.reasons /\ d.retry = c.retry /\ d.fetch = c.fetch
  BY DEF Conn, ConnectionState
<1>2. conn' = IF d.reasons = {} THEN [d EXCEPT !.retry = TRUE] ELSE d
  BY DEF Disconnected, TryScheduleReconnect
<1> HIDE DEF d
<1>3. /\ conn' \in Conn /\ conn'.state = "Disconnected"
      /\ conn'.retry <=> conn'.reasons = {}
  BY <1>1, <1>2 DEF Conn
<1>4. InCharge'
  BY <1>3 DEF InCharge, NeverStranded, Realtime
<1>5. Traffic'
  BY <1>3, EmptyWire, Parts
     DEF Disconnected, Traffic, AcksReleased, CanSendWrites, Connected, Gentle, RestoreNext
<1>6. QED BY <1>4, <1>5, PartsPrimed

\* The connection's state changes from outside the traffic to outside it.
LEMMA StillApart ==
  ASSUME LinkInv, ~Connected, InCharge', ~Connected',
         UNCHANGED <<listens, made, unacked, outstanding, putsToAck, wires, server>>,
         faults' \in Nat
  PROVE  LinkInv'
<1>1. Traffic'
  BY Parts DEF Traffic, AcksReleased, CanSendWrites, Connected, Gentle, RestoreNext, wires, server
<1>2. QED BY <1>1, PartsPrimed

LEMMA RetryFiresHolds == ASSUME LinkInv, RetryFires PROVE LinkInv'
<1>1. /\ conn \in Conn /\ conn.state = "Disconnected" /\ conn.reasons = {}
  BY DEF LinkInv, LinkTypeOK, NeverStranded, RetryFires
<1>2. /\ conn' \in Conn /\ conn'.state = "GettingToken" /\ conn'.reasons = {}
      /\ ~conn'.retry /\ conn'.fetch # "none"
  BY <1>1 DEF RetryFires, Conn, ConnectionState
<1>3. InCharge'
  BY <1>2 DEF InCharge, NeverStranded, Realtime
<1>4. QED
  BY <1>1, <1>2, <1>3, StillApart DEF RetryFires, Connected, LinkInv, LinkTypeOK

LEMMA TokenFetchedHolds == ASSUME LinkInv, TokenFetched PROVE LinkInv'
<1>1. /\ conn \in Conn /\ conn.state \in {"Disconnected", "GettingToken"}
  BY DEF LinkInv, LinkTypeOK, NeverStranded, TokenFetched, Conn, ConnectionState, Realtime
<1>2. CASE conn.state = "GettingToken"
  <2>1. conn.reasons = {} /\ ~conn.retry
    BY <1>2 DEF LinkInv, NeverStranded
  <2>2. /\ conn' \in Conn /\ conn'.state = "Connecting" /\ conn'.reasons = {}
        /\ ~conn'.retry /\ conn'.fetch = "none"
    BY <1>1, <1>2, <2>1 DEF TokenFetched, Conn, ConnectionState
  <2>3. InCharge'
    BY <2>2 DEF InCharge, NeverStranded, Realtime
  <2>4. QED
    BY <1>2, <2>2, <2>3, StillApart DEF TokenFetched, Connected, LinkInv, LinkTypeOK
<1>3. CASE conn.state = "Disconnected"
  <2>1. /\ conn' \in Conn /\ conn'.state = "Disconnected" /\ conn'.reasons = conn.reasons
        /\ conn'.retry = conn.retry
    BY <1>1, <1>3 DEF TokenFetched, Conn
  <2>2. InCharge'
    BY <1>3, <2>1 DEF LinkInv, InCharge, NeverStranded, Realtime
  <2>3. QED
    BY <1>3, <2>1, <2>2, StillApart DEF TokenFetched, Connected, LinkInv, LinkTypeOK
<1>4. QED BY <1>1, <1>2, <1>3

LEMMA FaultCounted == ASSUME LinkInv, Fault PROVE faults' \in Nat
BY DEF LinkInv, LinkTypeOK, Fault

LEMMA TokenFailedHolds == ASSUME LinkInv, TokenFailed PROVE LinkInv'
<1> DEFINE d == [conn EXCEPT !.fetch = "none", !.state = "Disconnected"]
<1>1. conn \in Conn /\ conn.state \in {"Disconnected", "GettingToken"}
  BY DEF LinkInv, LinkTypeOK, NeverStranded, TokenFailed, Conn, ConnectionState, Realtime
<1>2. conn.retry => conn.reasons = {}
  BY DEF LinkInv, NeverStranded
<1>3. /\ d \in Conn /\ d.state = "Disconnected"
      /\ d.reasons = conn.reasons /\ d.retry = conn.retry
  BY <1>1 DEF Conn, ConnectionState
<1>4. conn' = IF d.reasons = {} THEN [d EXCEPT !.retry = TRUE] ELSE d
  BY DEF TokenFailed, TryScheduleReconnect
<1> HIDE DEF d
<1>5. /\ conn' \in Conn /\ conn'.state = "Disconnected"
      /\ conn'.retry <=> conn'.reasons = {}
  BY <1>2, <1>3, <1>4 DEF Conn
<1>6. InCharge'
  BY <1>5 DEF InCharge, NeverStranded, Realtime
<1>7. QED
  BY <1>1, <1>5, <1>6, StillApart, FaultCounted DEF TokenFailed, Connected

LEMMA ConnectionLostHolds == ASSUME LinkInv, ConnectionLost PROVE LinkInv'
<1>1. conn \in Conn /\ (conn.reasons # {} => ~conn.retry)
  BY DEF LinkInv, LinkTypeOK, NeverStranded
<1>2. QED BY <1>1, DisconnectedHolds, FaultCounted DEF ConnectionLost

LEMMA InterruptHolds == ASSUME LinkInv, NEW r \in Reason, Interrupt(r) PROVE LinkInv'
<1> DEFINE c == [conn EXCEPT !.reasons = conn.reasons \cup {r},
                             !.retry = conn.retry /\ Realtime(conn)]
<1>1. conn \in Conn /\ (conn.retry => ~Realtime(conn))
  BY DEF LinkInv, LinkTypeOK, NeverStranded, Realtime
<1>2. (conn.retry /\ Realtime(conn)) = FALSE
  BY <1>1
<1>3. c \in Conn /\ ~c.retry
  BY <1>1, <1>2 DEF Conn
<1>4. Disconnected(c) /\ Fault
  BY DEF Interrupt
<1>5. UNCHANGED <<listens, made, outstanding, putsToAck>>
  BY DEF Interrupt
<1> HIDE DEF c
<1>6. QED BY <1>3, <1>4, <1>5, DisconnectedHolds, FaultCounted

LEMMA ResumeHolds == ASSUME LinkInv, NEW r \in Reason, Resume(r) PROVE LinkInv'
<1> DEFINE c == [conn EXCEPT !.reasons = conn.reasons \ {r}]
<1>1. conn \in Conn /\ conn.state = "Disconnected"
  BY DEF LinkInv, LinkTypeOK, Resume
<1>2. /\ c \in Conn /\ c.state = "Disconnected" /\ c.retry = conn.retry
      /\ c.reasons = conn.reasons \ {r}
  BY <1>1 DEF Conn
<1>3. conn' = IF c.reasons = {} THEN [c EXCEPT !.retry = TRUE] ELSE c
  BY <1>2 DEF Resume, TryScheduleReconnect
<1>4. ~conn.retry
  BY DEF LinkInv, NeverStranded, Resume
<1> HIDE DEF c
<1>5. /\ conn' \in Conn /\ conn'.state = "Disconnected"
      /\ conn'.retry <=> conn'.reasons = {}
  BY <1>2, <1>3, <1>4 DEF Conn
<1>6. InCharge'
  BY <1>5 DEF InCharge, NeverStranded, Realtime
<1>7. QED
  BY <1>1, <1>5, <1>6, StillApart DEF Resume, Connected, LinkInv, LinkTypeOK

-----------------------------------------------------------------------------
(* Requests.                                                               *)

LEMMA InChargeKept == ASSUME LinkInv, conn' = conn PROVE InCharge'
BY DEF LinkInv, LinkTypeOK, InCharge, NeverStranded, Realtime

LEMMA Facts ==
  ASSUME LinkInv
  PROVE  /\ Traffic /\ conn \in Conn
         /\ unacked = ListensIn(toServer) + ListensIn(toClient)
         /\ ListensIn(toServer) \in Nat /\ ListensIn(toClient) \in Nat
         /\ toServer # <<>> \/ toClient # <<>> => Connected
BY Parts, WireFacts DEF Traffic, InCharge, AcksReleased

\* What holds when a request is added to those on their way, or one is taken,
\* while the client is connected and stays in the same state.
LEMMA RequestsChange ==
  ASSUME LinkInv, Connected, conn' = conn,
         listens' \in [Query -> Nat], \A q \in Permanent : listens'[q] # 0,
         made' \in Nat, faults' \in Nat, IsFiniteSet(outstanding'),
         IsWire(toServer'),
         toServer # <<>> => toServer' # <<>> /\ Head(toServer') = Head(toServer),
         unacked' = ListensIn(toServer') + ListensIn(toClient), unacked' >= unacked,
         UNCHANGED <<putsToAck, toClient>>, session' = session
  PROVE  LinkInv'
<1>1. InCharge'
  BY InChargeKept
<1>2. IsWire(toClient') /\ Gentle(toClient') /\ ListensIn(toClient') = ListensIn(toClient)
  BY Facts DEF Traffic
<1>3. ListensIn(toServer') \in Nat /\ unacked' \in Nat
  BY <1>2, WireFacts, Facts
<1>4. AcksReleased'
  BY <1>2, <1>3, Facts DEF Traffic, AcksReleased, CanSendWrites
<1>5. Connected'
  BY DEF Connected
<1>6. Gentle(toClient)'
  BY <1>2 DEF Gentle
<1>7. RestoreNext'
  BY Facts DEF Traffic, RestoreNext
<1>8. Traffic'
  BY <1>2, <1>3, <1>4, <1>5, <1>6, <1>7, Facts DEF Traffic
<1>9. QED BY <1>1, <1>8, PartsPrimed

LEMMA PermanentListened == ASSUME LinkInv PROVE IsFiniteSet(Listened) /\ Listened # {}
<1>1. IsFiniteSet(Listened)
  BY LinkAssumption, FS_Subset DEF Listened
<1>2. QED BY <1>1, LinkAssumption DEF LinkInv, Listened

LEMMA RestoredIsWire == ASSUME LinkInv PROVE IsWire(RestoredPuts)
<1> DEFINE p == Cardinality(outstanding)
<1>1. p \in Nat
  BY FS_CardinalityType DEF LinkInv, LinkTypeOK
<1>2. /\ DOMAIN RestoredPuts = 1 .. p
      /\ RestoredPuts = [i \in DOMAIN RestoredPuts |-> RestoredPuts[i]]
  <2> DEFINE put(i) == Put(CHOOSE q \in outstanding :
                              Cardinality({r \in outstanding : r < q}) = i - 1)
  <2>1. RestoredPuts = [i \in 1 .. p |-> put(i)]
    BY DEF RestoredPuts
  <2> HIDE DEF put, p
  <2>2. QED BY <2>1
<1>3. ASSUME NEW g, DOMAIN g = 1 .. p, g = [i \in DOMAIN g |-> g[i]]
      PROVE  g \in Seq({g[i] : i \in 1 .. p})
  BY <1>1, <1>3
<1>4. RestoredPuts \in Seq({RestoredPuts[i] : i \in 1 .. p})
  BY <1>2, <1>3
<1>5. QED BY <1>4, SeqIsWire

LEMMA RestoreHolds ==
  ASSUME LinkInv, NEW hash, RestoreState(hash)
  PROVE  /\ IsWire(toServer')
         /\ unacked' \in Nat /\ unacked' > unacked
         /\ ListensIn(toServer') - ListensIn(toServer) = unacked' - unacked
<1> DEFINE n == Cardinality(Listened)
<1>1. n \in Nat /\ n # 0
  <2>1. n \in Nat
    BY PermanentListened, FS_CardinalityType
  <2>2. n # 0
    BY PermanentListened, FS_EmptySet
  <2>3. QED BY <2>1, <2>2
<1>2. PICK order \in SetToSeqs(Listened) :
        /\ toServer' = toServer
             \o [i \in DOMAIN order |-> Listen(order[i], listens[order[i]], hash[order[i]])]
             \o RestoredPuts
        /\ unacked' = unacked + Len(order)
  BY DEF RestoreState
<1>3. DOMAIN order = 1 .. n /\ Len(order) = n
  <2>1. order \in [1 .. n -> Listened]
    BY <1>2 DEF SetToSeqs
  <2>2. QED BY <1>1, <2>1
<1> DEFINE f == [i \in DOMAIN order |-> Listen(order[i], listens[order[i]], hash[order[i]])]
<1>4. IsWire(f) /\ ListensIn(f) = n
  <2>1. f \in Seq({f[i] : i \in 1 .. n})
    BY <1>1, <1>3
  <2>2. {i \in DOMAIN f : f[i].type = "listen"} = 1 .. n
    BY <1>3 DEF Listen
  <2>3. Cardinality(1 .. n) = n
    BY <1>1, FS_Interval
  <2>4. QED BY <2>1, <2>2, <2>3, SeqIsWire DEF ListensIn
<1>5. IsWire(RestoredPuts) /\ ListensIn(RestoredPuts) = 0
  <2>1. {i \in DOMAIN RestoredPuts : RestoredPuts[i].type = "listen"} = {}
    BY DEF RestoredPuts, Put
  <2>2. QED BY <2>1, RestoredIsWire, FS_EmptySet DEF ListensIn
<1>6. IsWire(toServer) /\ ListensIn(toServer) \in Nat /\ unacked \in Nat
  BY Facts DEF Traffic
<1> HIDE DEF f, n
<1>7. IsWire(toServer \o f) /\ ListensIn(toServer \o f) = ListensIn(toServer) + n
  BY <1>4, <1>6, Joined
<1>8. /\ IsWire((toServer \o f) \o RestoredPuts)
      /\ ListensIn((toServer \o f) \o RestoredPuts) = ListensIn(toServer) + n + 0
  BY <1>5, <1>7, Joined
<1>9. toServer' = (toServer \o f) \o RestoredPuts /\ unacked' = unacked + n
  BY <1>2, <1>3 DEF f
<1>10. QED BY <1>1, <1>6, <1>8, <1>9

LEMMA ReadyHolds == ASSUME LinkInv, NEW hash, Ready(hash) PROVE LinkInv'
<1>1. /\ conn \in Conn /\ conn.state = "Connecting" /\ conn.reasons = {}
      /\ ~conn.retry /\ conn.fetch = "none" /\ ~Connected
  BY DEF LinkInv, LinkTypeOK, NeverStranded, Realtime, Ready, Connected
<1>2. /\ toServer = <<>> /\ toClient = <<>> /\ unacked = 0 /\ session = {}
  BY <1>1 DEF LinkInv
<1>3. UNCHANGED <<listens, made, outstanding, putsToAck, toClient, session, faults>>
  BY DEF Ready, server
<1>4. Traffic
  BY Facts
<1>5. CASE conn.token
  <2>1. /\ conn' = [conn EXCEPT !.state = "Authenticating"]
        /\ toServer' = Append(toServer, Auth(TRUE)) /\ unacked' = unacked
    BY <1>5 DEF Ready
  <2>2. /\ conn' \in Conn /\ conn'.state = "Authenticating" /\ conn'.reasons = {}
        /\ ~conn'.retry /\ conn'.fetch = "none"
    BY <1>1, <2>1 DEF Conn, ConnectionState
  <2>3. InCharge'
    BY <2>2 DEF InCharge, NeverStranded, Realtime
  <2>4. /\ IsWire(toServer') /\ ListensIn(toServer') = 0
        /\ toServer' # <<>> /\ Head(toServer').type = "auth" /\ Head(toServer').restore
    <3> DEFINE m == Auth(TRUE)
    <3>1. m.type = "auth"
      BY DEF Auth
    <3>2. m.restore
      BY DEF Auth
    <3> HIDE DEF m
    <3>3. toServer' = Append(<<>>, m)
      BY <1>2, <2>1 DEF m
    <3>4. /\ IsWire(Append(<<>>, m)) /\ Append(<<>>, m) # <<>>
          /\ Head(Append(<<>>, m)) = m /\ ListensIn(Append(<<>>, m)) = 0
      BY <3>1, EmptyWire, Appended
    <3>5. QED BY <3>1, <3>2, <3>3, <3>4
  <2>5. Traffic'
    BY <1>2, <1>3, <1>4, <2>1, <2>2, <2>4, EmptyWire
       DEF Traffic, AcksReleased, CanSendWrites, Connected, Gentle, RestoreNext
  <2>6. QED BY <2>3, <2>5, PartsPrimed
<1>6. CASE ~conn.token
  <2>1. conn' = [conn EXCEPT !.state = "Connected"] /\ RestoreState(hash)
    BY <1>6 DEF Ready
  <2>2. /\ conn' \in Conn /\ conn'.state = "Connected" /\ conn'.reasons = {}
        /\ ~conn'.retry /\ conn'.fetch = "none"
    BY <1>1, <2>1 DEF Conn, ConnectionState
  <2>3. InCharge'
    BY <2>2 DEF InCharge, NeverStranded, Realtime
  <2>4. /\ IsWire(toServer') /\ unacked' \in Nat /\ unacked' > 0
        /\ ListensIn(toServer') = unacked'
    BY <1>2, <2>1, RestoreHolds, EmptyWire, WireFacts
  <2>5. Traffic'
    BY <1>2, <1>3, <1>4, <2>2, <2>4, EmptyWire
       DEF Traffic, AcksReleased, CanSendWrites, Connected, Gentle, RestoreNext
  <2>6. QED BY <2>3, <2>5, PartsPrimed
<1>7. QED BY <1>5, <1>6

LEMMA RefreshAuthTokenHolds == ASSUME LinkInv, RefreshAuthToken PROVE LinkInv'
<1>1. conn \in Conn /\ faults' \in Nat /\ Traffic
  BY Facts, FaultCounted DEF RefreshAuthToken
<1>2. /\ conn' \in Conn /\ conn'.state = conn.state /\ conn'.reasons = conn.reasons
      /\ conn'.retry = conn.retry /\ conn'.fetch = conn.fetch
  <2>1. conn.user \in BOOLEAN /\ (~conn.user) \in BOOLEAN
    BY <1>1 DEF Conn
  <2>2. QED BY <1>1, <2>1 DEF RefreshAuthToken, Conn
<1>3. InCharge'
  BY <1>2 DEF LinkInv, InCharge, NeverStranded, Realtime
<1>4. UNCHANGED <<listens, made, unacked, outstanding, putsToAck, toClient, session>>
  BY DEF RefreshAuthToken, server
<1>5. /\ IsWire(toServer') /\ ListensIn(toServer') = ListensIn(toServer)
      /\ toServer # <<>> => toServer' # <<>> /\ Head(toServer') = Head(toServer)
      /\ ~Connected => toServer' = toServer
  <2>1. IsWire(toServer)
    BY <1>1 DEF Traffic
  <2>2. /\ IsWire(Append(toServer, [type |-> "unauth"]))
        /\ ListensIn(Append(toServer, [type |-> "unauth"])) = ListensIn(toServer)
        /\ Append(toServer, [type |-> "unauth"]) # <<>>
        /\ toServer # <<>> => Head(Append(toServer, [type |-> "unauth"])) = Head(toServer)
    BY <2>1, Appended
  <2>3. /\ IsWire(Append(toServer, Auth(FALSE)))
        /\ ListensIn(Append(toServer, Auth(FALSE))) = ListensIn(toServer)
        /\ Append(toServer, Auth(FALSE)) # <<>>
        /\ toServer # <<>> => Head(Append(toServer, Auth(FALSE))) = Head(toServer)
    BY <2>1, Appended DEF Auth
  <2>4. QED BY <2>1, <2>2, <2>3 DEF RefreshAuthToken
<1>6. Traffic'
  BY <1>1, <1>2, <1>4, <1>5 DEF Traffic, AcksReleased, CanSendWrites, Connected, Gentle, RestoreNext
<1>7. QED BY <1>3, <1>6, PartsPrimed

\* A call that leaves the wires alone while the client is not connected.
LEMMA OfflineCall ==
  ASSUME LinkInv, conn' = conn,
         listens' \in [Query -> Nat], \A q \in Permanent : listens'[q] # 0,
         made' \in Nat, faults' \in Nat, IsFiniteSet(outstanding'),
         UNCHANGED <<unacked, putsToAck, toServer, toClient, session>>
  PROVE  LinkInv'
<1>1. InCharge'
  BY InChargeKept
<1>2. Traffic'
  BY Facts DEF Traffic, AcksReleased, CanSendWrites, Connected, Gentle, RestoreNext
<1>3. QED BY <1>1, <1>2, PartsPrimed

LEMMA StartListenHolds ==
  ASSUME LinkInv, NEW q \in Query, NEW hash, StartListen(q, hash) PROVE LinkInv'
<1>1. /\ listens' \in [Query -> Nat] /\ made' \in Nat
      /\ \A k \in Permanent : listens'[k] # 0
  BY LinkAssumption DEF LinkInv, LinkTypeOK, StartListen
<1>2. UNCHANGED <<conn, outstanding, putsToAck, toClient, session, faults>>
  BY DEF StartListen, server
<1>3. Traffic
  BY Facts
<1>4. CASE Connected
  <2>1. /\ toServer' = Append(toServer, Listen(q, made + 1, hash[q]))
        /\ unacked' = unacked + 1
    BY <1>4 DEF StartListen
  <2>2. /\ IsWire(toServer') /\ ListensIn(toServer') = ListensIn(toServer) + 1
        /\ toServer # <<>> => toServer' # <<>> /\ Head(toServer') = Head(toServer)
    BY <1>3, <2>1, Appended DEF Listen, Traffic
  <2>3. unacked' = ListensIn(toServer') + ListensIn(toClient) /\ unacked' >= unacked
    BY <2>1, <2>2, Facts
  <2>4. QED
    BY <1>1, <1>2, <1>3, <1>4, <2>2, <2>3, RequestsChange DEF Traffic
<1>5. CASE ~Connected
  BY <1>1, <1>2, <1>3, <1>5, OfflineCall DEF StartListen, Traffic
<1>6. QED BY <1>4, <1>5

LEMMA UnlistenHolds ==
  ASSUME LinkInv, NEW q \in Query, Unlisten(q) PROVE LinkInv'
<1>1. listens' \in [Query -> Nat] /\ \A k \in Permanent : listens'[k] # 0
  BY LinkAssumption DEF LinkInv, LinkTypeOK, Unlisten
<1>2. UNCHANGED <<conn, made, unacked, outstanding, putsToAck, toClient, session, faults>>
  BY DEF Unlisten, server
<1>3. Traffic
  BY Facts
<1>4. CASE Connected
  <2>1. toServer' = Append(toServer, [type |-> "unlisten", query |-> q])
    BY <1>4 DEF Unlisten
  <2>2. /\ IsWire(toServer') /\ ListensIn(toServer') = ListensIn(toServer)
        /\ toServer # <<>> => toServer' # <<>> /\ Head(toServer') = Head(toServer)
    BY <1>3, <2>1, Appended DEF Traffic
  <2>3. unacked' = ListensIn(toServer') + ListensIn(toClient) /\ unacked' >= unacked
    BY <1>2, <2>2, Facts
  <2>4. QED
    BY <1>1, <1>2, <1>3, <1>4, <2>2, <2>3, RequestsChange DEF Traffic
<1>5. CASE ~Connected
  BY <1>1, <1>2, <1>3, <1>5, OfflineCall DEF Unlisten, Traffic
<1>6. QED BY <1>4, <1>5

LEMMA PutInternalHolds == ASSUME LinkInv, NEW w, PutInternal(w) PROVE LinkInv'
<1>1. IsFiniteSet(outstanding')
  BY FS_AddElement DEF LinkInv, LinkTypeOK, PutInternal
<1>2. UNCHANGED <<conn, listens, made, unacked, putsToAck, toClient, session, faults>>
  BY DEF PutInternal, server
<1>3. Traffic
  BY Facts
<1>4. CASE CanSendWrites
  <2>1. toServer' = Append(toServer, Put(w)) /\ Connected
    BY <1>4 DEF PutInternal, CanSendWrites, Connected
  <2>2. /\ IsWire(toServer') /\ ListensIn(toServer') = ListensIn(toServer)
        /\ toServer # <<>> => toServer' # <<>> /\ Head(toServer') = Head(toServer)
    BY <1>3, <2>1, Appended DEF Traffic, Put
  <2>3. unacked' = ListensIn(toServer') + ListensIn(toClient) /\ unacked' >= unacked
    BY <1>2, <2>2, Facts
  <2>4. QED
    BY <1>1, <1>2, <1>3, <2>1, <2>2, <2>3, RequestsChange DEF Traffic
<1>5. CASE ~CanSendWrites
  BY <1>1, <1>2, <1>3, <1>5, OfflineCall DEF PutInternal, Traffic
<1>6. QED BY <1>4, <1>5

LEMMA PurgePutsHolds == ASSUME LinkInv, PurgePuts PROVE LinkInv'
<1>1. IsFiniteSet(outstanding') /\ faults' \in Nat /\ Traffic
  BY FS_EmptySet, FaultCounted, Facts DEF PurgePuts
<1>2. UNCHANGED <<conn, listens, made, unacked, putsToAck, toServer, toClient, session>>
  BY DEF PurgePuts, server, wires
<1>3. QED BY <1>1, <1>2, OfflineCall DEF Traffic

-----------------------------------------------------------------------------
(* What comes from the server.                                             *)

\* The first message from the server is taken, and it is no auth answer.
LEMMA ReceiveHolds ==
  ASSUME LinkInv, toClient # <<>>, Head(toClient).type # "auth",
         toClient' = Tail(toClient), conn' = conn,
         listens' \in [Query -> Nat], \A q \in Permanent : listens'[q] # 0,
         IsFiniteSet(outstanding'),
         unacked' = IF Head(toClient).type = "listen" THEN unacked - 1 ELSE unacked,
         putsToAck' # <<>> => unacked' # 0 \/ ~CanSendWrites,
         UNCHANGED <<made, faults, toServer, session>>
  PROVE  LinkInv'
<1>1. InCharge' /\ Traffic
  BY InChargeKept, Facts
<1>2. /\ IsWire(toClient') /\ ListensIn(toClient') \in Nat
      /\ ListensIn(toClient)
           = IF Head(toClient).type = "listen" THEN ListensIn(toClient') + 1
                                               ELSE ListensIn(toClient')
  BY <1>1, FirstTaken, WireFacts DEF Traffic
<1>3. unacked' = ListensIn(toServer) + ListensIn(toClient') /\ unacked' \in Nat
  BY <1>2, Facts
<1>4. AcksReleased'
  BY <1>3 DEF AcksReleased, CanSendWrites
<1>5. Gentle(toClient)'
  <2>1. Gentle(Tail(toClient))
    BY <1>1, GentleTail DEF Traffic
  <2>2. QED BY <2>1 DEF Gentle
<1>6. conn.state # "Authenticating" /\ Connected
  BY <1>1, Facts DEF Traffic, RestoreNext
<1>7. Traffic'
  BY <1>1, <1>2, <1>3, <1>4, <1>5, <1>6 DEF Traffic, RestoreNext, Connected
<1>8. QED BY <1>1, <1>7, PartsPrimed

LEMMA ListenAnsweredHolds == ASSUME LinkInv, ListenAnswered PROVE LinkInv'
<1> DEFINE m == Head(toClient)
<1>1. Traffic /\ toClient # <<>> /\ m.type = "listen"
  BY Facts DEF ListenAnswered
<1>2. Bearable(m)
  BY <1>1, GentleTail DEF Traffic
<1>3. listens' = IF Current(m) /\ ~m.ok THEN [listens EXCEPT ![m.query] = 0] ELSE listens
  BY DEF ListenAnswered
<1>4. listens' \in [Query -> Nat] /\ \A q \in Permanent : listens'[q] # 0
  <2>1. listens \in [Query -> Nat] /\ \A q \in Permanent : listens[q] # 0
    BY <1>1 DEF Traffic
  <2>2. m.ok \/ m.query \notin Permanent
    BY <1>1, <1>2 DEF Bearable
  <2> HIDE DEF m
  <2>3. QED BY <1>3, <2>1, <2>2, LinkAssumption
<1>5. QED BY <1>1, <1>4, ReceiveHolds DEF ListenAnswered, Traffic, server

LEMMA PutAnsweredHolds == ASSUME LinkInv, PutAnswered PROVE LinkInv'
<1>1. Traffic /\ toClient # <<>> /\ Head(toClient).type = "put"
  BY Facts DEF PutAnswered
<1>2. IsFiniteSet(outstanding')
  BY <1>1, FS_RemoveElement DEF PutAnswered, Traffic
<1>3. putsToAck' # <<>> => unacked # 0 \/ ~CanSendWrites
  BY <1>1 DEF PutAnswered, Traffic, AcksReleased
<1>4. QED BY <1>1, <1>2, <1>3, ReceiveHolds DEF PutAnswered, Traffic, server

LEMMA ListenRevokedHolds == ASSUME LinkInv, ListenRevoked PROVE LinkInv'
<1> DEFINE m == Head(toClient)
<1>1. Traffic /\ toClient # <<>> /\ m.type = "revoked"
  BY Facts DEF ListenRevoked
<1>2. Bearable(m)
  BY <1>1, GentleTail DEF Traffic
<1>3. m.query \notin Permanent
  BY <1>1, <1>2 DEF Bearable
<1>4. listens' = [listens EXCEPT ![m.query] = 0]
  BY DEF ListenRevoked
<1>5. listens' \in [Query -> Nat] /\ \A q \in Permanent : listens'[q] # 0
  <2>1. listens \in [Query -> Nat] /\ \A q \in Permanent : listens[q] # 0
    BY <1>1 DEF Traffic
  <2> HIDE DEF m
  <2>2. QED BY <1>3, <1>4, <2>1, LinkAssumption
<1>6. UNCHANGED <<conn, made, faults, unacked, outstanding, putsToAck, toServer, session>>
  BY DEF ListenRevoked, server
<1>7. putsToAck' # <<>> => unacked' # 0 \/ ~CanSendWrites
  BY <1>1, <1>6 DEF Traffic, AcksReleased
<1>8. toClient' = Tail(toClient)
  BY DEF ListenRevoked
<1>9. QED BY <1>1, <1>5, <1>6, <1>7, <1>8, ReceiveHolds DEF Traffic

LEMMA AuthAnsweredHolds == ASSUME LinkInv, NEW hash, AuthAnswered(hash) PROVE LinkInv'
<1>1. /\ Traffic /\ Connected /\ conn \in Conn
      /\ toClient # <<>> /\ Head(toClient).type = "auth"
  BY Facts DEF AuthAnswered
<1>2. UNCHANGED <<listens, made, outstanding, putsToAck, faults>>
  BY DEF AuthAnswered
<1>3. /\ conn.reasons = {} /\ ~conn.retry /\ conn.fetch = "none"
  BY <1>1 DEF LinkInv, NeverStranded, Realtime, Connected
<1>4. CASE ~Head(toClient).ok
  <2> DEFINE c == [conn EXCEPT !.token = FALSE]
  <2>1. Disconnected(c)
    BY <1>4 DEF AuthAnswered
  <2>2. c \in Conn /\ c.reasons = {}
    BY <1>1, <1>3 DEF Conn
  <2>3. faults' \in Nat
    BY <1>1, <1>2 DEF Traffic
  <2> HIDE DEF c
  <2>4. QED BY <1>2, <2>1, <2>2, <2>3, DisconnectedHolds
<1>5. CASE Head(toClient).ok
  <2>1. /\ conn' = [conn EXCEPT !.state = "Connected"]
        /\ toClient' = Tail(toClient) /\ session' = session
        /\ \/ RestoreState(hash)
           \/ ~Head(toClient).restore /\ UNCHANGED <<toServer, unacked>>
    BY <1>5 DEF AuthAnswered, server
  <2>2. /\ conn' \in Conn /\ conn'.state = "Connected" /\ conn'.reasons = {}
        /\ ~conn'.retry /\ conn'.fetch = "none"
    BY <1>1, <1>3, <2>1 DEF Conn, ConnectionState
  <2>3. InCharge'
    BY <2>2 DEF InCharge, NeverStranded, Realtime
  <2>4. /\ IsWire(toClient') /\ ListensIn(toClient') = ListensIn(toClient)
        /\ Gentle(toClient')
    BY <1>1, <2>1, FirstTaken, GentleTail DEF Traffic
  <2>5. CASE RestoreState(hash)
    <3>1. /\ IsWire(toServer') /\ unacked' \in Nat /\ unacked' > unacked
          /\ ListensIn(toServer') - ListensIn(toServer) = unacked' - unacked
      BY <2>5, RestoreHolds
    <3>2. ListensIn(toServer') \in Nat
      BY <3>1, WireFacts
    <3>3. unacked \in Nat
      BY <1>1 DEF Traffic
    <3>4. unacked' = ListensIn(toServer') + ListensIn(toClient') /\ unacked' # 0
      BY <2>4, <3>1, <3>2, <3>3, Facts
    <3>5. AcksReleased'
      BY <3>4 DEF AcksReleased
    <3>6. Traffic'
      BY <1>1, <1>2, <2>1, <2>2, <2>4, <3>1, <3>5
         DEF Traffic, Connected, RestoreNext, Gentle
    <3>7. QED BY <2>3, <3>6, PartsPrimed
  <2>6. CASE ~Head(toClient).restore /\ UNCHANGED <<toServer, unacked>>
    <3>1. conn.state = "Connected"
      BY <1>1, <2>6 DEF Traffic, RestoreNext, Connected
    <3>2. AcksReleased'
      BY <1>1, <1>2, <2>2, <2>4, <2>6, <3>1 DEF Traffic, AcksReleased, CanSendWrites
    <3>3. Traffic'
      BY <1>1, <1>2, <2>1, <2>2, <2>4, <2>6, <3>2
         DEF Traffic, Connected, RestoreNext, Gentle
    <3>4. QED BY <2>3, <3>3, PartsPrimed
  <2>7. QED BY <2>1, <2>5, <2>6
<1>6. QED BY <1>4, <1>5

-----------------------------------------------------------------------------
(* The server.                                                             *)

LEMMA Concatenated ==
  ASSUME NEW v, NEW w, IsWire(v), IsWire(w)
  PROVE  /\ v # <<>> => v \o w # <<>> /\ Head(v \o w) = Head(v)
         /\ v \o <<>> = v
         /\ <<>> \o w = w
<1> DEFINE S == {v[i] : i \in DOMAIN v} \cup {w[i] : i \in DOMAIN w}
<1>1. v \in Seq(S) /\ w \in Seq(S)
  BY DEF IsWire
<1> HIDE DEF S
<1>2. ASSUME v # <<>> PROVE v \o w # <<>> /\ Head(v \o w) = Head(v)
  <2>1. Len(v) # 0 /\ Len(v) \in Nat
    BY <1>1, <1>2
  <2>2. v \o w \in Seq(S) /\ Len(v \o w) = Len(v) + Len(w) /\ (v \o w)[1] = v[1]
    BY <1>1, <2>1
  <2>3. QED BY <1>1, <2>1, <2>2
<1>3. v \o <<>> = v /\ <<>> \o w = w
  BY <1>1
<1>4. QED BY <1>2, <1>3

\* A push or an answer goes on the wire: the traffic to the client grows.
LEMMA Sent ==
  ASSUME LinkInv, NEW extra, IsWire(extra), Gentle(extra), toClient' = toClient \o extra
  PROVE  /\ IsWire(toClient') /\ Gentle(toClient)'
         /\ ListensIn(toClient') = ListensIn(toClient) + ListensIn(extra)
         /\ ListensIn(extra) \in Nat
         /\ toClient # <<>> => toClient' # <<>> /\ Head(toClient') = Head(toClient)
         /\ extra = <<>> => toClient' = toClient
         /\ toClient = <<>> => toClient' = extra
<1>1. IsWire(toClient) /\ Gentle(toClient)
  BY Facts DEF Traffic
<1>2. /\ toClient # <<>> => toClient \o extra # <<>> /\ Head(toClient \o extra) = Head(toClient)
      /\ extra = <<>> => toClient \o extra = toClient
      /\ toClient = <<>> => toClient \o extra = extra
  BY <1>1, Concatenated
<1>3. QED BY <1>1, <1>2, Joined, GentleJoined, WireFacts DEF Gentle

LEMMA PushHolds ==
  ASSUME LinkInv, NEW extra, IsWire(extra), Gentle(extra), ListensIn(extra) = 0,
         session # {} \/ extra = <<>>, toClient' = toClient \o extra,
         session' \subseteq session, faults' \in Nat,
         UNCHANGED <<conn, listens, made, unacked, outstanding, putsToAck, toServer>>
  PROVE  LinkInv'
<1>1. InCharge' /\ Traffic
  BY InChargeKept, Facts
<1>2. /\ IsWire(toClient') /\ Gentle(toClient)' /\ ListensIn(toClient') = ListensIn(toClient)
      /\ toClient # <<>> => toClient' # <<>> /\ Head(toClient') = Head(toClient)
      /\ extra = <<>> => toClient' = toClient
  BY Sent, Facts, SMTT(30)
<1>3. AcksReleased'
  BY <1>1, <1>2 DEF Traffic, AcksReleased, CanSendWrites
<1>4. RestoreNext'
  BY <1>1, <1>2 DEF Traffic, RestoreNext
<1>5. ~Connected => toClient' = <<>> /\ session' = {}
  BY <1>1, <1>2 DEF Traffic
<1>6. Traffic'
  BY <1>1, <1>2, <1>3, <1>4, <1>5 DEF Traffic, Connected
<1>7. QED BY <1>1, <1>6, PartsPrimed

\* A request is taken and answered; the answer to a listen counts as it did.
LEMMA ServeHolds ==
  ASSUME LinkInv, NEW i \in DOMAIN toServer, Take(i),
         NEW extra, IsWire(extra), Gentle(extra), toClient' = toClient \o extra,
         ListensIn(extra) = IF toServer[i].type = "listen" THEN 1 ELSE 0,
         Head(toServer).type = "auth" =>
           /\ i = 1 /\ extra # <<>> /\ Head(extra).type = "auth"
           /\ Head(toServer).restore => Head(extra).restore,
         faults' \in Nat,
         UNCHANGED <<conn, listens, made, unacked, outstanding, putsToAck>>
  PROVE  LinkInv'
<1>1. InCharge' /\ Traffic
  BY InChargeKept, Facts
<1>2. IsWire(toServer) /\ toServer # <<>> /\ Connected
  <2>1. IsWire(toServer) /\ DOMAIN toServer = 1 .. Len(toServer) /\ Len(toServer) \in Nat
    BY <1>1, WireFacts DEF Traffic
  <2>2. toServer # <<>>
    BY <2>1
  <2>3. QED BY <2>1, <2>2, Facts
<1>3. /\ IsWire(toServer') /\ ListensIn(toServer') \in Nat
      /\ toServer[i].type = "listen" => ListensIn(toServer) = ListensIn(toServer') + 1
      /\ toServer[i].type # "listen" => ListensIn(toServer) = ListensIn(toServer')
  BY <1>2, Taken, WireFacts DEF Take
<1>4. /\ IsWire(toClient') /\ Gentle(toClient)'
      /\ ListensIn(toClient') = ListensIn(toClient) + ListensIn(extra)
      /\ toClient # <<>> => toClient' # <<>> /\ Head(toClient') = Head(toClient)
      /\ toClient = <<>> => toClient' = extra
  BY Sent
<1>5. unacked = ListensIn(toServer') + ListensIn(toClient')
  BY <1>3, <1>4, Facts
<1>6. AcksReleased'
  BY <1>1, <1>5 DEF Traffic, AcksReleased, CanSendWrites
<1>7. RestoreNext'
  BY <1>1, <1>4 DEF Traffic, RestoreNext
<1>8. Traffic'
  BY <1>1, <1>2, <1>3, <1>4, <1>6, <1>7 DEF Traffic, Connected
<1>9. QED BY <1>1, <1>8, PartsPrimed

LEMMA NextAtHead ==
  ASSUME LinkInv, NEW types, NextIs(types)
  PROVE  1 \in DOMAIN toServer /\ toServer[1] = Head(toServer) /\ Head(toServer).type \in types
BY FirstTaken DEF NextIs, LinkInv, LinkTypeOK

LEMMA ServeAuthHolds == ASSUME LinkInv, NEW ok, ServeAuth(ok) PROVE LinkInv'
<1> DEFINE m == [type |-> "auth", restore |-> Head(toServer).restore, ok |-> ok]
<1>1. /\ 1 \in DOMAIN toServer /\ toServer[1] = Head(toServer)
      /\ Head(toServer).type = "auth" /\ Traffic
  BY NextAtHead, Facts DEF ServeAuth
<1>2. m.type = "auth"
  OBVIOUS
<1>3. m.restore = Head(toServer).restore
  OBVIOUS
<1>4. toClient' = Append(toClient, m) /\ Take(1)
  BY DEF ServeAuth
<1>5. UNCHANGED <<conn, listens, made, unacked, outstanding, putsToAck, session>>
  BY DEF ServeAuth, server
<1>6. faults' \in Nat
  BY <1>1, FaultCounted DEF ServeAuth, Traffic
<1> HIDE DEF m
<1>7. toClient' = toClient \o <<m>>
  BY <1>1, <1>4 DEF Traffic, IsWire
<1>8. /\ IsWire(<<m>>) /\ ListensIn(<<m>>) = 0 /\ Gentle(<<m>>)
      /\ <<m>> # <<>> /\ Head(<<m>>) = m
  BY <1>2, Single, GentleSingle DEF Bearable
<1>9. QED BY <1>1, <1>2, <1>3, <1>4, <1>5, <1>6, <1>7, <1>8, ServeHolds DEF Traffic

LEMMA ServeSilentHolds == ASSUME LinkInv, ServeSilent PROVE LinkInv'
<1>1. /\ 1 \in DOMAIN toServer /\ toServer[1] = Head(toServer)
      /\ Head(toServer).type \in {"unauth", "unlisten"} /\ Traffic
  BY NextAtHead, Facts DEF ServeSilent
<1>2. Take(1) /\ toClient' = toClient \o <<>>
  BY <1>1 DEF ServeSilent, Traffic, IsWire
<1>3. UNCHANGED <<conn, listens, made, unacked, outstanding, putsToAck, faults>>
  BY DEF ServeSilent
<1>4. IsWire(<<>>) /\ ListensIn(<<>>) = 0 /\ Gentle(<<>>)
  BY EmptyWire DEF Gentle
<1>5. QED BY <1>1, <1>2, <1>3, <1>4, ServeHolds DEF Traffic

\* What is sent: nothing, or one push of data.
Pushes(w) == w = <<>> \/ \E m : m.type = "data" /\ w = <<m>>

LEMMA PushesAreData ==
  ASSUME NEW w, Pushes(w) PROVE IsWire(w) /\ ListensIn(w) = 0 /\ Gentle(w)
<1>1. CASE w = <<>>
  BY <1>1, EmptyWire DEF Gentle
<1>2. CASE \E m : m.type = "data" /\ w = <<m>>
  <2>1. PICK m : m.type = "data" /\ w = <<m>>
    BY <1>2
  <2>2. QED BY <2>1, Single, GentleSingle DEF Bearable
<1>3. QED BY <1>1, <1>2 DEF Pushes

\* Data and then an answer.
LEMMA Answered ==
  ASSUME LinkInv, NEW w, Pushes(w), NEW m, Bearable(m),
         toClient' = toClient \o w \o <<m>>
  PROVE  \E extra :
           /\ IsWire(extra) /\ Gentle(extra) /\ toClient' = toClient \o extra
           /\ m.type = "listen" => ListensIn(extra) = 1
           /\ m.type # "listen" => ListensIn(extra) = 0
<1>1. IsWire(w) /\ ListensIn(w) = 0 /\ Gentle(w)
  BY PushesAreData
<1>2. /\ IsWire(<<m>>) /\ Gentle(<<m>>)
      /\ m.type = "listen" => ListensIn(<<m>>) = 1
      /\ m.type # "listen" => ListensIn(<<m>>) = 0
  BY Single, GentleSingle
<1>3. /\ IsWire(w \o <<m>>) /\ Gentle(w \o <<m>>)
      /\ ListensIn(w \o <<m>>) = ListensIn(w) + ListensIn(<<m>>)
  BY <1>1, <1>2, Joined, GentleJoined
<1>4. toClient \o w \o <<m>> = toClient \o (w \o <<m>>)
  <2>1. IsWire(toClient)
    BY Facts DEF Traffic
  <2>2. QED BY <1>1, <1>2, <2>1 DEF IsWire
<1>5. WITNESS w \o <<m>>
<1>6. QED BY <1>1, <1>2, <1>3, <1>4

LEMMA ServeListenHolds ==
  ASSUME LinkInv, NEW w, Pushes(w), NEW ok, ServeListen(w, ok),
         Head(toServer).query \in Permanent => ok
  PROVE  LinkInv'
<1> DEFINE m == Head(toServer)
           a == [type |-> "listen", query |-> m.query, id |-> m.id, ok |-> ok]
<1>1. 1 \in DOMAIN toServer /\ toServer[1] = m /\ m.type = "listen" /\ Traffic
  BY NextAtHead, Facts DEF ServeListen
<1>2. toClient' = toClient \o w \o <<a>> /\ Take(1)
  BY DEF ServeListen
<1>3. UNCHANGED <<conn, listens, made, unacked, outstanding, putsToAck, faults>>
  BY DEF ServeListen
<1>4. a.type = "listen" /\ Bearable(a)
  <2>1. a.type = "listen" /\ a.query = m.query
    OBVIOUS
  <2>2. ok => a.ok
    OBVIOUS
  <2> HIDE DEF a
  <2>3. QED BY <2>1, <2>2 DEF Bearable
<1> HIDE DEF a
<1>5. PICK extra : /\ IsWire(extra) /\ Gentle(extra) /\ toClient' = toClient \o extra
                   /\ ListensIn(extra) = 1
  BY <1>2, <1>4, Answered
<1>6. QED BY <1>1, <1>2, <1>3, <1>5, ServeHolds DEF Traffic

LEMMA ServePutHolds ==
  ASSUME LinkInv, NEW i \in NextPut, NEW w, Pushes(w), NEW ok, ServePut(i, w, ok)
  PROVE  LinkInv'
<1> DEFINE a == [type |-> "put", put |-> toServer[i].put, ok |-> ok]
<1>1. i \in DOMAIN toServer /\ toServer[i].type = "put" /\ Traffic
  BY Facts DEF NextPut
<1>2. Head(toServer).type # "auth"
  <2>1. DOMAIN toServer = 1 .. Len(toServer) /\ Len(toServer) \in Nat
    BY <1>1, WireFacts DEF Traffic
  <2>2. toServer # <<>> /\ i \in Nat /\ i >= 1
    BY <1>1, <2>1
  <2>3. Head(toServer) = toServer[1]
    BY <1>1, <2>2, FirstTaken DEF Traffic
  <2>4. CASE i = 1
    BY <1>1, <2>3, <2>4
  <2>5. CASE i # 1
    <3>1. 1 \in 1 .. i - 1
      BY <2>2, <2>5
    <3>2. toServer[1].type \in {"listen", "unlisten"}
      BY <3>1 DEF NextPut
    <3>3. QED BY <2>3, <3>2
  <2>6. QED BY <2>4, <2>5
<1>3. toClient' = toClient \o w \o <<a>> /\ Take(i)
  BY DEF ServePut
<1>4. UNCHANGED <<conn, listens, made, unacked, outstanding, putsToAck, faults>>
  BY DEF ServePut
<1>5. a.type = "put"
  OBVIOUS
<1> HIDE DEF a
<1>6. Bearable(a)
  BY <1>5 DEF Bearable
<1>7. PICK extra : /\ IsWire(extra) /\ Gentle(extra) /\ toClient' = toClient \o extra
                   /\ ListensIn(extra) = 0
  BY <1>3, <1>5, <1>6, Answered
<1>8. QED BY <1>1, <1>2, <1>3, <1>4, <1>7, ServeHolds DEF Traffic

LEMMA RevokeHolds == ASSUME LinkInv, NEW q, Revoke(q) PROVE LinkInv'
<1> DEFINE m == [type |-> "revoked", query |-> q]
<1>1. m.type = "revoked" /\ m.query \notin Permanent
  BY DEF Revoke
<1>2. session # {} /\ session' \subseteq session /\ faults' \in Nat /\ Traffic
  BY Facts, FaultCounted DEF Revoke
<1>3. toClient' = toClient \o <<m>>
  BY <1>2 DEF Revoke, Traffic, IsWire
<1>4. UNCHANGED <<conn, listens, made, unacked, outstanding, putsToAck, toServer>>
  BY DEF Revoke
<1> HIDE DEF m
<1>5. IsWire(<<m>>) /\ ListensIn(<<m>>) = 0 /\ Gentle(<<m>>)
  BY <1>1, Single, GentleSingle DEF Bearable
<1>6. QED BY <1>2, <1>3, <1>4, <1>5, PushHolds

-----------------------------------------------------------------------------
(* The client as a whole.                                                  *)

LEMMA PushIsData == ASSUME NEW w PROVE Pushes(Push(w)) /\ (Push(w) # <<>> => session # {})
<1> DEFINE m == [type |-> "data", write |-> w]
<1>1. m.type = "data"
  OBVIOUS
<1>2. CASE Data \in session
  <2>1. Push(w) = <<m>>
    BY <1>2 DEF Push
  <2> HIDE DEF m
  <2>2. QED BY <1>1, <1>2, <2>1 DEF Pushes
<1>3. CASE Data \notin session
  BY <1>3 DEF Push, Pushes
<1>4. QED BY <1>2, <1>3

LEMMA ReceiveDataHolds == ASSUME LinkInv, ReceiveData PROVE LinkInv'
<1>1. Traffic /\ toClient # <<>> /\ Head(toClient).type = "data"
  BY Facts DEF ReceiveData
<1>2. /\ UNCHANGED <<conn, listens, made, faults, unacked, outstanding, putsToAck,
                     toServer, session>>
      /\ toClient' = Tail(toClient)
  BY DEF ReceiveData, server
<1>3. putsToAck' # <<>> => unacked' # 0 \/ ~CanSendWrites
  BY <1>1, <1>2 DEF Traffic, AcksReleased
<1>4. QED BY <1>1, <1>2, <1>3, ReceiveHolds DEF Traffic

LEMMA OtherClientHolds == ASSUME LinkInv, NEW k, NEW v, OtherClient(k, v) PROVE LinkInv'
<1> DEFINE w == [op |-> "set", at |-> k, data |-> v]
<1>1. toClient' = toClient \o Push(w)
  BY DEF OtherClient
<1>2. UNCHANGED <<conn, listens, made, unacked, outstanding, putsToAck, toServer,
                  session, faults>>
  BY DEF OtherClient, server
<1> HIDE DEF w
<1>3. /\ IsWire(Push(w)) /\ ListensIn(Push(w)) = 0 /\ Gentle(Push(w))
      /\ session # {} \/ Push(w) = <<>>
  BY PushIsData, PushesAreData
<1>4. QED BY <1>1, <1>2, <1>3, Facts, PushHolds DEF Traffic

LEMMA ServerPutHolds == ASSUME LinkInv, NEW ok, ServerPut(ok) PROVE LinkInv'
<1>1. PICK i \in NextPut :
        ServePut(i, IF ok THEN Push(writes[toServer[i].put]) ELSE <<>>, ok)
  BY DEF ServerPut
<1>2. Pushes(IF ok THEN Push(writes[toServer[i].put]) ELSE <<>>)
  <2>1. Pushes(Push(writes[toServer[i].put])) /\ Pushes(<<>>)
    BY PushIsData DEF Pushes
  <2>2. QED BY <2>1
<1>3. QED BY <1>1, <1>2, ServePutHolds

LEMMA ServerListenHolds == ASSUME LinkInv, NEW ok, ServerListen(ok) PROVE LinkInv'
<1> DEFINE all == [op |-> "set", at |-> Top, data |-> store]
           d == [type |-> "data", write |-> all]
           w == IF ok /\ Head(toServer).query = Data
                     /\ (Head(toServer).hash = EmptyNode \/ Head(toServer).hash # store)
                  THEN <<d>> ELSE <<>>
<1>1. ServeListen(w, ok) /\ (Head(toServer).query \in Permanent => ok)
  BY DEF ServerListen
<1>2. d.type = "data"
  OBVIOUS
<1> HIDE DEF d
<1>3. Pushes(w)
  BY <1>2 DEF Pushes
<1> HIDE DEF w
<1>4. QED BY <1>1, <1>3, ServeListenHolds

LEMMA StepHolds == ASSUME LinkInv, Next PROVE LinkInv'
<1>1. CASE User
  <2>1. CASE Observe
    BY <2>1, StartListenHolds, ClientAssumption DEF Observe
  <2>2. CASE RemoveObserver
    BY <2>2, UnlistenHolds, ClientAssumption DEF RemoveObserver
  <2>3. CASE Purge
    BY <2>3, PurgePutsHolds DEF Purge
  <2>4. CASE \E s \in Scripts : Write(s)
    BY <2>4, PutInternalHolds DEF Write
  <2>5. QED BY <1>1, <2>1, <2>2, <2>3, <2>4 DEF User
<1>2. CASE Receive
  BY <1>2, PutAnsweredHolds, ListenAnsweredHolds, ReceiveDataHolds, ListenRevokedHolds,
     AuthAnsweredHolds
     DEF Receive, ReceivePut, ReceiveListen, ReceiveRevoked, ReceiveAuth
<1>3. CASE ServerStep
  BY <1>3, ServerPutHolds, ServerListenHolds, ServeAuthHolds, ServeSilentHolds DEF ServerStep
<1>4. CASE Refuse
  BY <1>4, ServerPutHolds, ServerListenHolds, ServeAuthHolds, RevokeHolds DEF Refuse
<1>5. CASE Connect
  BY <1>5, RetryFiresHolds, ReadyHolds, TokenFetchedHolds DEF Connect
<1>6. CASE Trouble
  BY <1>6, TokenFailedHolds, ConnectionLostHolds, RefreshAuthTokenHolds, InterruptHolds
     DEF Trouble
<1>7. CASE GoOnline
  BY <1>7, ResumeHolds DEF GoOnline, Reason
<1>8. CASE \E f \in foreign : OtherClient(f[1], f[2])
  BY <1>8, OtherClientHolds
<1>9. QED BY <1>1, <1>2, <1>3, <1>4, <1>5, <1>6, <1>7, <1>8 DEF Next

LEMMA StutterHolds == ASSUME LinkInv, UNCHANGED vars PROVE LinkInv'
<1>1. InCharge'
  BY InChargeKept DEF vars, linkVars
<1>2. Traffic'
  BY Facts DEF vars, linkVars, wires, server, Traffic, AcksReleased, CanSendWrites,
               Connected, Gentle, RestoreNext
<1>3. QED BY <1>1, <1>2, PartsPrimed

\* The connection's inductive invariant holds for all queries, scripts of
\* writes, values and numbers of faults.
THEOREM Linked == Spec => []LinkInv
<1>1. Init => LinkInv
  BY InitHolds DEF Init
<1>2. LinkInv /\ [Next]_vars => LinkInv'
  BY StepHolds, StutterHolds
<1>3. QED BY <1>1, <1>2, PTL DEF Spec

\* The client is never offline with nothing under way: retry, token fetch and
\* connection hand over to each other whatever interrupts them
\* (tryScheduleReconnect, onDisconnect, interruptForReason, resumeForReason).
THEOREM Stranded == Spec => []NeverStranded
<1>1. LinkInv => NeverStranded
  BY DEF LinkInv
<1>2. QED BY <1>1, Linked, PTL

\* Answers are held back only while a listen's answer is still to come, and the
\* count of those (unackedListensCount) is never wrong: sendListen, onDisconnect,
\* ackPuts.
THEOREM Released == Spec => []AcksReleased
<1>1. LinkInv => AcksReleased
  BY DEF LinkInv
<1>2. QED BY <1>1, Linked, PTL


-----------------------------------------------------------------------------
(* The puts in a wire.                                                     *)

LEMMA JoinedAt ==
  ASSUME NEW v, NEW w, IsWire(v), IsWire(w)
  PROVE  /\ Len(v) \in Nat /\ Len(w) \in Nat
         /\ DOMAIN v = 1 .. Len(v) /\ DOMAIN w = 1 .. Len(w)
         /\ DOMAIN (v \o w) = 1 .. Len(v) + Len(w)
         /\ \A i \in 1 .. Len(v) : (v \o w)[i] = v[i]
         /\ \A i \in 1 .. Len(w) : (v \o w)[Len(v) + i] = w[i]
<1>1. /\ Len(v) \in Nat /\ Len(w) \in Nat
      /\ DOMAIN v = 1 .. Len(v) /\ DOMAIN w = 1 .. Len(w)
  BY WireFacts
<1>2. /\ DOMAIN (v \o w) = 1 .. Len(v) + Len(w)
      /\ \A i \in 1 .. Len(v) : (v \o w)[i] = v[i]
      /\ \A i \in 1 .. Len(w) : (v \o w)[Len(v) + i] = w[i]
  BY <1>1 DEF IsWire
<1>3. QED BY <1>1, <1>2

LEMMA RemovedAt ==
  ASSUME NEW w, IsWire(w), NEW i \in DOMAIN w
  PROVE  /\ Len(w) \in Nat /\ DOMAIN w = 1 .. Len(w) /\ i \in 1 .. Len(w)
         /\ DOMAIN RemoveAt(w, i) = 1 .. Len(w) - 1
         /\ \A j \in 1 .. i - 1 : RemoveAt(w, i)[j] = w[j]
         /\ \A j \in i .. Len(w) - 1 : RemoveAt(w, i)[j] = w[j + 1]
<1> DEFINE u == SubSeq(w, 1, i - 1)
           v == SubSeq(w, i + 1, Len(w))
<1>1. Len(w) \in Nat /\ DOMAIN w = 1 .. Len(w) /\ i \in 1 .. Len(w)
  BY WireFacts
<1>2. /\ IsWire(u) /\ Len(u) = i - 1 /\ \A j \in 1 .. i - 1 : u[j] = w[j]
      /\ IsWire(v) /\ Len(v) = Len(w) - i /\ \A j \in 1 .. Len(w) - i : v[j] = w[i + j]
  <2> DEFINE S == {w[j] : j \in DOMAIN w}
  <2>1. w \in Seq(S)
    BY DEF IsWire
  <2> HIDE DEF S
  <2>2. u \in Seq(S) /\ Len(u) = i - 1 /\ \A j \in 1 .. i - 1 : u[j] = w[j]
    BY <1>1, <2>1
  <2>3. v \in Seq(S) /\ Len(v) = Len(w) - i /\ \A j \in 1 .. Len(w) - i : v[j] = w[i + j]
    BY <1>1, <2>1
  <2> HIDE DEF u, v
  <2>4. QED BY <2>2, <2>3, SeqIsWire
<1>3. RemoveAt(w, i) = u \o v
  BY DEF RemoveAt
<1> HIDE DEF u, v
<1>4. /\ DOMAIN (u \o v) = 1 .. (i - 1) + (Len(w) - i)
      /\ \A j \in 1 .. i - 1 : (u \o v)[j] = u[j]
      /\ \A j \in 1 .. Len(w) - i : (u \o v)[(i - 1) + j] = v[j]
  <2>1. /\ DOMAIN (u \o v) = 1 .. Len(u) + Len(v)
        /\ \A j \in 1 .. Len(u) : (u \o v)[j] = u[j]
        /\ \A j \in 1 .. Len(v) : (u \o v)[Len(u) + j] = v[j]
    <3>1. IsWire(u) /\ IsWire(v)
      BY <1>2
    <3>2. QED BY <3>1, JoinedAt
  <2>2. Len(u) = i - 1 /\ Len(v) = Len(w) - i
    BY <1>2
  <2>3. QED BY <2>1, <2>2
<1>5. ASSUME NEW j \in i .. Len(w) - 1 PROVE (u \o v)[j] = w[j + 1]
  <2>1. j - i + 1 \in 1 .. Len(w) - i /\ (i - 1) + (j - i + 1) = j /\ i + (j - i + 1) = j + 1
    BY <1>1
  <2>2. v[j - i + 1] = w[i + (j - i + 1)]
    BY <1>2, <2>1
  <2>3. (u \o v)[j] = v[j - i + 1]
    BY <1>4, <2>1
  <2>4. QED BY <2>1, <2>2, <2>3
<1>6. (i - 1) + (Len(w) - i) = Len(w) - 1
  BY <1>1
<1>7. QED BY <1>1, <1>2, <1>3, <1>4, <1>5, <1>6

LEMMA PutsJoined ==
  ASSUME NEW v, NEW w, IsWire(v), IsWire(w)
  PROVE  /\ PutsIn(v \o w) = PutsIn(v) \cup PutsIn(w)
         /\ /\ InOrder(v) /\ InOrder(w)
            /\ \A p \in PutsIn(v), q \in PutsIn(w) : p < q
            => InOrder(v \o w)
         /\ Restores(w) = {} => Restores(v \o w) = Restores(v)
         /\ v = <<>> => Restores(v \o w) = Restores(w)
<1> DEFINE u == v \o w
           n == Len(v)
<1>1. /\ n \in Nat /\ Len(w) \in Nat
      /\ DOMAIN v = 1 .. n /\ DOMAIN w = 1 .. Len(w) /\ DOMAIN u = 1 .. n + Len(w)
      /\ \A i \in 1 .. n : u[i] = v[i]
      /\ \A i \in 1 .. Len(w) : u[n + i] = w[i]
  BY JoinedAt
<1> HIDE DEF u, n
<1>2. ASSUME NEW i \in DOMAIN u
      PROVE  \/ i \in DOMAIN v /\ u[i] = v[i]
             \/ i - n \in DOMAIN w /\ u[i] = w[i - n] /\ i > n
  <2>1. i \in 1 .. n \/ (i - n \in 1 .. Len(w) /\ i = n + (i - n) /\ i > n)
    BY <1>1
  <2>2. QED BY <1>1, <2>1
<1>3. PutsIn(u) = PutsIn(v) \cup PutsIn(w)
  <2>1. ASSUME NEW p \in PutsIn(u) PROVE p \in PutsIn(v) \cup PutsIn(w)
    BY <1>2 DEF PutsIn
  <2>2. ASSUME NEW p \in PutsIn(v) PROVE p \in PutsIn(u)
    BY <1>1 DEF PutsIn
  <2>3. ASSUME NEW p \in PutsIn(w) PROVE p \in PutsIn(u)
    <3>1. PICK i \in DOMAIN w : w[i].type = "put" /\ w[i].put = p
      BY DEF PutsIn
    <3>2. n + i \in DOMAIN u /\ u[n + i] = w[i]
      BY <1>1
    <3>3. QED BY <3>1, <3>2 DEF PutsIn
  <2>4. QED BY <2>1, <2>2, <2>3
<1>4. ASSUME InOrder(v), InOrder(w), \A p \in PutsIn(v), q \in PutsIn(w) : p < q
      PROVE  InOrder(u)
  <2> SUFFICES ASSUME NEW i \in DOMAIN u, NEW j \in DOMAIN u,
                      u[i].type = "put", u[j].type = "put", i < j
               PROVE  u[i].put < u[j].put
    BY DEF InOrder
  <2>1. i \in Int /\ j \in Int
    BY <1>1
  <2>2. CASE i \in DOMAIN v /\ j \in DOMAIN v
    BY <1>1, <1>4, <2>2 DEF InOrder
  <2>3. CASE i \in DOMAIN v /\ j > n
    BY <1>1, <1>2, <1>4, <2>3 DEF PutsIn
  <2>4. CASE i > n
    <3>1. /\ i - n \in DOMAIN w /\ u[i] = w[i - n]
          /\ j - n \in DOMAIN w /\ u[j] = w[j - n] /\ i - n < j - n
      BY <1>1, <1>2, <2>1, <2>4
    <3>2. QED BY <1>4, <3>1 DEF InOrder
  <2>5. QED BY <1>1, <1>2, <2>1, <2>2, <2>3, <2>4
<1>5. ASSUME Restores(w) = {} PROVE Restores(u) = Restores(v)
  <2>1. Restores(u) \subseteq Restores(v)
    BY <1>2, <1>5 DEF Restores
  <2>2. Restores(v) \subseteq Restores(u)
    BY <1>1 DEF Restores
  <2>3. QED BY <2>1, <2>2
<1>6. v = <<>> => u = w
  BY Concatenated DEF u
<1>7. QED BY <1>3, <1>4, <1>5, <1>6 DEF u

LEMMA PutAlone ==
  ASSUME NEW m
  PROVE  /\ InOrder(<<m>>)
         /\ m.type = "put" => PutsIn(<<m>>) = {m.put}
         /\ m.type # "put" => PutsIn(<<m>>) = {}
         /\ m.type # "auth" \/ ~m.restore => Restores(<<m>>) = {}
         /\ Restores(<<m>>) \subseteq {1}
<1>1. DOMAIN <<m>> = {1} /\ <<m>>[1] = m
  OBVIOUS
<1>2. InOrder(<<m>>)
  BY <1>1 DEF InOrder
<1>3. m.type = "put" => PutsIn(<<m>>) = {m.put}
  BY <1>1 DEF PutsIn
<1>4. m.type # "put" => PutsIn(<<m>>) = {}
  BY <1>1 DEF PutsIn
<1>5. (m.type # "auth" \/ ~m.restore => Restores(<<m>>) = {}) /\ Restores(<<m>>) \subseteq {1}
  BY <1>1 DEF Restores
<1>6. QED BY <1>2, <1>3, <1>4, <1>5

LEMMA NoPuts == InOrder(<<>>) /\ PutsIn(<<>>) = {} /\ Restores(<<>>) = {}
BY DEF InOrder, PutsIn, Restores

LEMMA PutsTaken ==
  ASSUME NEW w, IsWire(w), NEW i \in DOMAIN w, InOrder(w), PutsIn(w) \subseteq Nat
  PROVE  /\ InOrder(RemoveAt(w, i))
         /\ w[i].type # "put" => PutsIn(RemoveAt(w, i)) = PutsIn(w)
         /\ w[i].type = "put" => PutsIn(RemoveAt(w, i)) = PutsIn(w) \ {w[i].put}
         /\ Restores(w) = {} \/ (i = 1 /\ Restores(w) \subseteq {1})
              => Restores(RemoveAt(w, i)) = {}
<1> DEFINE u == RemoveAt(w, i)
           n == Len(w)
           at(j) == IF j < i THEN j ELSE j + 1
           of(j) == IF j < i THEN j ELSE j - 1
<1>1. /\ n \in Nat /\ DOMAIN w = 1 .. n /\ i \in 1 .. n /\ DOMAIN u = 1 .. n - 1
      /\ \A j \in 1 .. i - 1 : u[j] = w[j]
      /\ \A j \in i .. n - 1 : u[j] = w[j + 1]
  BY RemovedAt
<1> HIDE DEF u, n
<1>2. ASSUME NEW j \in DOMAIN u
      PROVE  at(j) \in DOMAIN w /\ at(j) # i /\ u[j] = w[at(j)]
  <2>1. j \in 1 .. i - 1 \/ j \in i .. n - 1
    BY <1>1
  <2>2. QED BY <1>1, <2>1
<1>3. ASSUME NEW j \in DOMAIN w, j # i
      PROVE  of(j) \in DOMAIN u /\ u[of(j)] = w[j]
  <2>1. CASE j < i
    BY <1>1, <2>1
  <2>2. CASE j > i
    <3>1. j - 1 \in i .. n - 1 /\ (j - 1) + 1 = j /\ ~(j < i)
      BY <1>1, <2>2
    <3>2. QED BY <1>1, <3>1
  <2>3. QED BY <1>1, <1>3, <2>1, <2>2
<1>4. \A j, k \in DOMAIN u : j < k => at(j) < at(k)
  BY <1>1
<1>5. InOrder(u)
  <2> SUFFICES ASSUME NEW j \in DOMAIN u, NEW k \in DOMAIN u,
                      u[j].type = "put", u[k].type = "put", j < k
               PROVE  u[j].put < u[k].put
    BY DEF InOrder
  <2> HIDE DEF at
  <2>1. QED BY <1>2, <1>4 DEF InOrder
<1> HIDE DEF at, of
<1>6. PutsIn(u) \subseteq PutsIn(w)
  BY <1>2 DEF PutsIn
<1>7. ASSUME NEW j \in DOMAIN w, j # i, w[j].type = "put" PROVE w[j].put \in PutsIn(u)
  BY <1>3, <1>7 DEF PutsIn
<1>8. w[i].type # "put" => PutsIn(u) = PutsIn(w)
  BY <1>6, <1>7 DEF PutsIn
<1>9. ASSUME w[i].type = "put" PROVE PutsIn(u) = PutsIn(w) \ {w[i].put}
  <2>1. ASSUME NEW j \in DOMAIN w, j # i, w[j].type = "put" PROVE w[j].put # w[i].put
    <3>1. w[j].put \in Nat /\ w[i].put \in Nat
      BY <1>9, <2>1 DEF PutsIn
    <3>2. j < i \/ i < j
      BY <1>1, <2>1
    <3>3. w[j].put < w[i].put \/ w[i].put < w[j].put
      BY <1>9, <2>1, <3>2 DEF InOrder
    <3>4. QED BY <3>1, <3>3
  <2>2. w[i].put \notin PutsIn(u)
    BY <1>2, <2>1 DEF PutsIn
  <2>3. \A p \in PutsIn(w) : p # w[i].put => p \in PutsIn(u)
    BY <1>7 DEF PutsIn
  <2>4. QED BY <1>6, <2>2, <2>3
<1>10. ASSUME Restores(w) = {} \/ (i = 1 /\ Restores(w) \subseteq {1}) PROVE Restores(u) = {}
  BY <1>2, <1>10 DEF Restores
<1>11. QED BY <1>5, <1>8, <1>9, <1>10 DEF u

-----------------------------------------------------------------------------
(* RestoredPuts sends every outstanding put, the earliest first.           *)

Below(p) == {q \in outstanding : q < p}

LEMMA Ranks ==
  ASSUME IsFiniteSet(outstanding), outstanding \subseteq Nat
  PROVE  /\ Cardinality(outstanding) \in Nat
         /\ \A p \in outstanding : Cardinality(Below(p)) \in 0 .. Cardinality(outstanding) - 1
         /\ \A p, q \in outstanding : p < q => Cardinality(Below(p)) < Cardinality(Below(q))
<1>1. ASSUME NEW S \in SUBSET outstanding
      PROVE  /\ IsFiniteSet(S) /\ Cardinality(S) \in Nat
  BY FS_Subset, FS_CardinalityType
<1>2. ASSUME NEW p \in outstanding, NEW S \in SUBSET outstanding, p \in S, Below(p) \subseteq S
      PROVE  Cardinality(Below(p)) < Cardinality(S)
  <2>1. IsFiniteSet(Below(p)) /\ IsFiniteSet(S)
    BY <1>1 DEF Below
  <2>2. p \notin Below(p)
    BY DEF Below
  <2>3. Cardinality(Below(p) \cup {p}) = Cardinality(Below(p)) + 1
    BY <2>1, <2>2, FS_AddElement
  <2>4. Below(p) \cup {p} \subseteq S
    BY <1>2
  <2>5. Cardinality(Below(p) \cup {p}) <= Cardinality(S)
    BY <2>1, <2>4, FS_Subset
  <2>6. Cardinality(Below(p)) \in Nat /\ Cardinality(S) \in Nat
    BY <2>1, FS_CardinalityType
  <2>7. QED BY <2>3, <2>5, <2>6
<1>3. ASSUME NEW p \in outstanding
      PROVE  Cardinality(Below(p)) \in 0 .. Cardinality(outstanding) - 1
  <2>1. Below(p) \subseteq outstanding
    BY DEF Below
  <2>2. Cardinality(Below(p)) \in Nat /\ Cardinality(outstanding) \in Nat
    BY <1>1, <2>1
  <2>3. Cardinality(Below(p)) < Cardinality(outstanding)
    BY <1>2, <2>1
  <2>4. QED BY <2>2, <2>3
<1>4. ASSUME NEW p \in outstanding, NEW q \in outstanding, p < q
      PROVE  Cardinality(Below(p)) < Cardinality(Below(q))
  <2>1. p \in Below(q) /\ Below(q) \in SUBSET outstanding
    BY <1>4 DEF Below
  <2>2. ASSUME NEW x \in Below(p) PROVE x \in Below(q)
    <3>1. x \in outstanding /\ x \in Nat /\ p \in Nat /\ q \in Nat /\ x < p
      BY DEF Below
    <3>2. x < q
      BY <1>4, <3>1
    <3>3. QED BY <3>1, <3>2 DEF Below
  <2>3. QED BY <1>2, <2>1, <2>2
<1>5. QED BY <1>1, <1>3, <1>4

LEMMA Restored ==
  ASSUME IsFiniteSet(outstanding), outstanding \subseteq Nat
  PROVE  /\ PutsIn(RestoredPuts) = outstanding /\ InOrder(RestoredPuts)
         /\ Restores(RestoredPuts) = {}
<1> DEFINE n == Cardinality(outstanding)
           rank == [p \in outstanding |-> Cardinality(Below(p)) + 1]
           nth(i) == CHOOSE p \in outstanding : Cardinality(Below(p)) = i - 1
<1>1. n \in Nat /\ \A p \in outstanding : rank[p] \in 1 .. n
  BY Ranks
<1>2. \A p, q \in outstanding : p < q => rank[p] < rank[q]
  BY Ranks
<1>3. RestoredPuts = [i \in 1 .. n |-> Put(nth(i))]
  BY DEF RestoredPuts, Below
<1>4. \A p \in outstanding : rank[p] = Cardinality(Below(p)) + 1 /\ Cardinality(Below(p)) \in Nat
  BY Ranks
<1>5. rank \in [outstanding -> 1 .. n]
  BY <1>1
<1>6. \A p, q \in outstanding : rank[p] = rank[q] => p = q
  <2> HIDE DEF rank
  <2>1. QED BY <1>1, <1>2
<1> HIDE DEF n, rank
<1>7. rank \in Injection(outstanding, 1 .. n)
  BY <1>5, <1>6 DEF Injection, IsInjective
<1>8. rank \in Surjection(outstanding, 1 .. n)
  <2>1. IsFiniteSet(1 .. n) /\ Cardinality(1 .. n) = n
    BY <1>1, FS_Interval
  <2>2. QED BY <1>7, <2>1, FS_Injection DEF n
<1>9. ASSUME NEW i \in 1 .. n PROVE nth(i) \in outstanding /\ rank[nth(i)] = i
  <2>1. PICK p \in outstanding : rank[p] = i
    BY <1>8 DEF Surjection
  <2>2. Cardinality(Below(p)) = i - 1
    BY <1>4, <2>1
  <2>3. nth(i) \in outstanding /\ Cardinality(Below(nth(i))) = i - 1
    <3>1. \E x \in outstanding : Cardinality(Below(x)) = i - 1
      BY <2>2
    <3>2. QED BY <3>1
  <2> HIDE DEF nth
  <2>4. i \in Int
    BY <1>1
  <2>5. rank[nth(i)] = (i - 1) + 1
    BY <1>4, <2>3
  <2>6. QED BY <2>3, <2>4, <2>5
<1> HIDE DEF nth
<1>10. /\ DOMAIN RestoredPuts = 1 .. n
       /\ \A i \in 1 .. n : /\ RestoredPuts[i].type = "put" /\ RestoredPuts[i].put = nth(i)
  BY <1>3 DEF Put
<1>11. PutsIn(RestoredPuts) = outstanding
  <2>1. PutsIn(RestoredPuts) \subseteq outstanding
    BY <1>9, <1>10 DEF PutsIn
  <2>2. ASSUME NEW p \in outstanding PROVE p \in PutsIn(RestoredPuts)
    <3>1. rank[p] \in 1 .. n
      BY <1>1
    <3>2. nth(rank[p]) = p
      BY <1>6, <1>9, <3>1
    <3>3. QED BY <1>10, <3>1, <3>2 DEF PutsIn
  <2>3. QED BY <2>1, <2>2
<1>12. InOrder(RestoredPuts)
  <2> SUFFICES ASSUME NEW i \in 1 .. n, NEW j \in 1 .. n, i < j
               PROVE  nth(i) < nth(j)
    BY <1>10 DEF InOrder
  <2>1. nth(i) \in Nat /\ nth(j) \in Nat /\ rank[nth(i)] = i /\ rank[nth(j)] = j
    BY <1>9
  <2>2. ~(nth(j) < nth(i)) /\ nth(i) # nth(j)
    BY <1>2, <1>9, <2>1
  <2>3. QED BY <2>1, <2>2
<1>13. Restores(RestoredPuts) = {}
  BY <1>10 DEF Restores
<1>14. QED BY <1>11, <1>12, <1>13

-----------------------------------------------------------------------------
(* ackWrite, one answer after the other.                                   *)

\* h[s] is what AckWrite gives from b with the answers at the indexes s.
Unfolds(h, b, answers, n) ==
  h = [s \in SUBSET (1 .. n) |->
         IF s = {} THEN b ELSE AckWrite(h[s \ {Max(s)}], answers[Max(s)])]

LEMMA UnfoldsFor ==
  ASSUME NEW b, NEW answers PROVE \A n \in Nat : \E h : Unfolds(h, b, answers, n)
<1> DEFINE T == {n \in Nat : ~ \E h : Unfolds(h, b, answers, n)}
<1>1. SUFFICES ASSUME T # {} PROVE FALSE
  OBVIOUS
<1>2. PICK n \in T : \A m \in T : n <= m
  BY <1>1, Least
<1>3. n # 0
  <2> DEFINE h == [s \in SUBSET (1 .. 0) |-> b]
  <2>1. Unfolds(h, b, answers, 0)
    BY DEF Unfolds
  <2>2. QED BY <2>1
<1>4. n - 1 \in Nat /\ n - 1 \notin T
  BY <1>2, <1>3
<1>5. PICK h : Unfolds(h, b, answers, n - 1)
  BY <1>4
<1> DEFINE g == [s \in SUBSET (1 .. n) |->
                   IF s = {} THEN b ELSE AckWrite(h[s \ {Max(s)}], answers[Max(s)])]
<1>6. ASSUME NEW s \in SUBSET (1 .. n), s # {} PROVE s \ {Max(s)} \in SUBSET (1 .. n - 1)
  <2>1. Max(s) \in s /\ \A y \in s : Max(s) >= y
    BY <1>6, Greatest
  <2>2. ASSUME NEW y \in s, y # Max(s) PROVE y \in 1 .. n - 1
    <3>1. y \in 1 .. n /\ Max(s) \in 1 .. n /\ y <= Max(s)
      BY <2>1
    <3>2. y < Max(s)
      BY <2>2, <3>1
    <3>3. QED BY <3>1, <3>2
  <2>3. QED BY <2>1, <2>2
<1>7. \A s \in SUBSET (1 .. n - 1) : h[s] = g[s]
  <2>1. \A s \in SUBSET (1 .. n - 1) : s \in SUBSET (1 .. n)
    BY <1>4
  <2>2. QED BY <1>5, <2>1 DEF Unfolds
<1>8. \A s \in SUBSET (1 .. n) : s # {} => g[s \ {Max(s)}] = h[s \ {Max(s)}]
  BY <1>6, <1>7
<1>9. Unfolds(g, b, answers, n)
  BY <1>8 DEF Unfolds
<1>10. QED BY <1>9

Acked(b, answers) == FoldLeft(AckWrite, b, answers)

\* g[i] is what the first i answers make of b.
Chained(g, b, answers, n) ==
  g[0] = b /\ \A i \in 1 .. n : g[i] = AckWrite(g[i - 1], answers[i])

\* The fold of AckWrite has intermediate results, one per answer.
LEMMA Folded ==
  ASSUME NEW b, NEW answers, NEW n \in Nat, DOMAIN answers = 1 .. n
  PROVE  \E g : Chained(g, b, answers, n) /\ Acked(b, answers) = g[n]
<1>1. PICK f : Unfolds(f, b, answers, n)
  BY UnfoldsFor
<1>2. f = [s \in SUBSET DOMAIN answers |->
             IF s = {} THEN b ELSE AckWrite(f[s \ {Max(s)}], answers[Max(s)])]
  BY <1>1 DEF Unfolds
<1>3. PICK h : /\ h = [s \in SUBSET DOMAIN answers |->
                       IF s = {} THEN b ELSE AckWrite(h[s \ {Max(s)}], answers[Max(s)])]
               /\ Acked(b, answers) = h[DOMAIN answers]
  BY <1>2 DEF Acked, FoldLeft, MapThenFoldSet
<1>4. Unfolds(h, b, answers, n) /\ Acked(b, answers) = h[1 .. n]
  BY <1>3 DEF Unfolds
<1> DEFINE g == [i \in 0 .. n |-> h[1 .. i]]
<1>5. g[0] = b
  <2>1. 1 .. 0 = {} /\ 0 \in 0 .. n
    OBVIOUS
  <2>2. h[{}] = b
    BY <1>4 DEF Unfolds
  <2>3. QED BY <2>1, <2>2
<1>6. ASSUME NEW i \in 1 .. n PROVE g[i] = AckWrite(g[i - 1], answers[i])
  <2>1. 1 .. i \in SUBSET (1 .. n) /\ 1 .. i # {}
    <3>1. 1 \in 1 .. i /\ \A j \in 1 .. i : j \in 1 .. n
      OBVIOUS
    <3>2. QED BY <3>1
  <2>2. Max(1 .. i) = i /\ (1 .. i) \ {i} = 1 .. i - 1
    <3>1. (1 .. i) \ {i} = 1 .. i - 1
      OBVIOUS
    <3>2. Max(1 .. i) \in 1 .. i /\ \A y \in 1 .. i : Max(1 .. i) >= y
      BY <2>1, Greatest
    <3>3. QED BY <3>1, <3>2
  <2>3. h[1 .. i] = AckWrite(h[(1 .. i) \ {Max(1 .. i)}], answers[Max(1 .. i)])
    BY <1>4, <2>1 DEF Unfolds
  <2>4. h[1 .. i] = AckWrite(h[1 .. i - 1], answers[i])
    BY <2>2, <2>3
  <2>5. i \in 0 .. n /\ i - 1 \in 0 .. n
    OBVIOUS
  <2>6. QED BY <2>4, <2>5
<1>7. Acked(b, answers) = g[n]
  BY <1>4
<1> HIDE DEF g
<1>8. Chained(g, b, answers, n)
  BY <1>5, <1>6 DEF Chained
<1>9. QED BY <1>7, <1>8

\* all names the writes in S, in the order they were made.
Lists(all, S) ==
  /\ IsWire(all) /\ {all[i] : i \in DOMAIN all} = S
  /\ \A i, j \in DOMAIN all : i < j => all[i] < all[j]

IsTree(s) == s = [all |-> s.all, vis |-> s.vis, view |-> s.view, stray |-> s.stray]

LEMMA Unlisted ==
  ASSUME NEW all, NEW S \in SUBSET Nat, Lists(all, S), NEW i \in DOMAIN all
  PROVE  Lists(RemoveAt(all, i), S \ {all[i]})
<1> DEFINE u == RemoveAt(all, i)
           n == Len(all)
           at(j) == IF j < i THEN j ELSE j + 1
<1>1. /\ IsWire(all) /\ n \in Nat /\ DOMAIN all = 1 .. n /\ i \in 1 .. n
      /\ DOMAIN u = 1 .. n - 1
      /\ \A j \in 1 .. i - 1 : u[j] = all[j]
      /\ \A j \in i .. n - 1 : u[j] = all[j + 1]
  BY RemovedAt DEF Lists
<1>2. IsWire(u)
  BY Taken DEF Lists
<1> HIDE DEF u, n
<1>3. ASSUME NEW j \in DOMAIN u PROVE at(j) \in DOMAIN all /\ at(j) # i /\ u[j] = all[at(j)]
  <2>1. j \in 1 .. i - 1 \/ j \in i .. n - 1
    BY <1>1
  <2>2. QED BY <1>1, <2>1
<1>4. ASSUME NEW j \in DOMAIN all, j # i PROVE \E k \in DOMAIN u : u[k] = all[j]
  <2>1. CASE j < i
    BY <1>1, <2>1
  <2>2. CASE j > i
    <3>1. j - 1 \in i .. n - 1 /\ (j - 1) + 1 = j
      BY <1>1, <2>2
    <3>2. QED BY <1>1, <3>1
  <2>3. QED BY <1>1, <1>4, <2>1, <2>2
<1>5. \A j, k \in DOMAIN u : j < k => at(j) < at(k)
  BY <1>1
<1>6. ASSUME NEW j \in DOMAIN all, NEW k \in DOMAIN all, j # k PROVE all[j] # all[k]
  <2>1. j < k \/ k < j
    BY <1>1, <1>6
  <2>2. all[j] < all[k] \/ all[k] < all[j]
    BY <2>1 DEF Lists
  <2>3. all[j] \in Nat /\ all[k] \in Nat
    BY DEF Lists
  <2>4. QED BY <2>2, <2>3
<1> HIDE DEF at
<1>7. {u[j] : j \in DOMAIN u} = S \ {all[i]}
  <2>1. S = {all[j] : j \in DOMAIN all}
    BY DEF Lists
  <2>2. ASSUME NEW j \in DOMAIN u PROVE u[j] \in S \ {all[i]}
    BY <1>3, <1>6, <2>1
  <2>3. ASSUME NEW x \in S \ {all[i]} PROVE \E k \in DOMAIN u : u[k] = x
    BY <1>4, <2>1
  <2>4. QED BY <2>2, <2>3
<1>8. \A j, k \in DOMAIN u : j < k => u[j] < u[k]
  BY <1>3, <1>5 DEF Lists
<1>9. QED BY <1>2, <1>7, <1>8 DEF Lists, u

\* An answer finds its write and takes it out.
LEMMA AckOne ==
  ASSUME NEW s, IsTree(s), NEW S \in SUBSET Nat, Lists(s.all, S), NEW m, m.put \in S
  PROVE  /\ IsTree(AckWrite(s, m)) /\ AckWrite(s, m).stray = s.stray
         /\ Lists(AckWrite(s, m).all, S \ {m.put})
<1> DEFINE at == {i \in DOMAIN s.all : s.all[i] = m.put}
           i == CHOOSE j \in at : TRUE
           all == [j \in DOMAIN s.all |-> writes[s.all[j]]]
           w == writes[m.put]
           vis == RemoveWrite(all, s.vis, i)
           v == IF ~s.view.on \/ Shadowed(all, i) THEN s.view
                ELSE IF m.ok THEN AckUserWrite(s.view, vis, w)
                ELSE RevertUserWrite(s.view, vis, w.at)
<1>1. i \in DOMAIN s.all /\ s.all[i] = m.put /\ at # {}
  <2>1. at # {}
    BY DEF Lists
  <2>2. i \in at
    BY <2>1
  <2>3. QED BY <2>2
<1>2. AckWrite(s, m) = [s EXCEPT !.all = RemoveAt(s.all, i), !.vis = vis, !.view = v]
  <2> HIDE DEF v, vis
  <2>1. AckWrite(s, m) = [s EXCEPT !.all = RemoveAt(s.all, i), !.vis = vis,
                                   !.view = IF ~s.view.on \/ Shadowed(all, i) THEN s.view
                                            ELSE IF m.ok THEN AckUserWrite(s.view, vis, w)
                                            ELSE RevertUserWrite(s.view, vis, w.at)]
    BY <1>1 DEF AckWrite, vis
  <2>2. QED BY <2>1 DEF v
<1> HIDE DEF at, i, all, w, vis, v
<1>3. Lists(RemoveAt(s.all, i), S \ {m.put})
  BY <1>1, Unlisted
<1>4. AckWrite(s, m) = [all |-> RemoveAt(s.all, i), vis |-> vis, view |-> v, stray |-> s.stray]
  BY <1>2 DEF IsTree
<1>5. QED BY <1>3, <1>4 DEF IsTree

\* So do all of several, each for a write of its own.
LEMMA AckAll ==
  ASSUME NEW b, IsTree(b), NEW S \in SUBSET Nat, Lists(b.all, S),
         NEW answers, NEW n \in Nat, DOMAIN answers = 1 .. n,
         \A i \in 1 .. n : answers[i].put \in S,
         \A i, j \in 1 .. n : i < j => answers[i].put # answers[j].put
  PROVE  /\ Lists(Acked(b, answers).all, S \ {answers[i].put : i \in 1 .. n})
         /\ Acked(b, answers).stray = b.stray
<1>1. PICK g : Chained(g, b, answers, n) /\ Acked(b, answers) = g[n]
  BY Folded
<1>2. g[0] = b /\ \A i \in 1 .. n : g[i] = AckWrite(g[i - 1], answers[i])
  BY <1>1 DEF Chained
<1> DEFINE Left(i) == S \ {answers[j].put : j \in 1 .. i}
           Fine(i) == IsTree(g[i]) /\ Lists(g[i].all, Left(i)) /\ g[i].stray = b.stray
           T == {i \in 0 .. n : ~Fine(i)}
<1>3. Fine(0)
  <2>1. Left(0) = S
    OBVIOUS
  <2>2. QED BY <1>2, <2>1
<1>4. ASSUME NEW i \in 1 .. n, Fine(i - 1) PROVE Fine(i)
  <2>1. /\ answers[i].put \in Left(i - 1)
        /\ Left(i - 1) \ {answers[i].put} = Left(i) /\ Left(i - 1) \in SUBSET Nat
    <3>1. \A j \in 1 .. i - 1 : answers[j].put # answers[i].put
      OBVIOUS
    <3>2. 1 .. i = (1 .. i - 1) \cup {i}
      OBVIOUS
    <3>3. QED BY <3>1, <3>2
  <2>2. g[i] = AckWrite(g[i - 1], answers[i])
    BY <1>2
  <2> HIDE DEF Left
  <2>3. IsTree(g[i - 1]) /\ Lists(g[i - 1].all, Left(i - 1)) /\ g[i - 1].stray = b.stray
    BY <1>4
  <2> DEFINE q == AckWrite(g[i - 1], answers[i])
  <2>4. /\ IsTree(q) /\ q.stray = g[i - 1].stray
        /\ Lists(q.all, Left(i - 1) \ {answers[i].put})
    BY <2>1, <2>3, AckOne
  <2> HIDE DEF q
  <2>5. g[i] = q
    BY <2>2 DEF q
  <2>6. QED BY <2>1, <2>3, <2>4, <2>5
<1>5. T = {}
  <2> SUFFICES ASSUME T # {} PROVE FALSE
    OBVIOUS
  <2>1. T \subseteq Nat
    OBVIOUS
  <2>2. PICK i \in T : \A j \in T : i <= j
    <3> HIDE DEF T
    <3>1. QED BY <2>1, Least
  <2> HIDE DEF Fine
  <2>3. i \in 1 .. n
    BY <1>3
  <2>4. i - 1 \in 0 .. n /\ i - 1 \notin T
    BY <2>2, <2>3
  <2>5. QED BY <1>4, <2>3, <2>4
<1>6. Fine(n)
  <2> HIDE DEF Fine
  <2>1. QED BY <1>5
<1>7. QED BY <1>6, <1>1

-----------------------------------------------------------------------------
(* The invariant in two parts: the books, and what is under way.           *)

Books ==
  /\ Lists(allWrites, outstanding \cup Held)
  /\ \A i, j \in DOMAIN putsToAck : i < j => putsToAck[i].put < putsToAck[j].put
  /\ outstanding \cap Held = {}
  /\ PutsPending

UnderWay == PutsOrdered /\ PutsUnderWay

LEMMA BooksAndWires == ASSUME ~crashed PROVE PutsInv <=> Books /\ UnderWay
BY DEF PutsInv, PendingExact, PutsPending, Books, UnderWay, Lists

LEMMA BooksAndWiresPrimed == ASSUME ~crashed' PROVE PutsInv' <=> Books' /\ UnderWay'
BY DEF PutsInv, PendingExact, PutsPending, Books, UnderWay, Lists

LEMMA BooksKept ==
  ASSUME Books, UNCHANGED <<writes, allWrites, outstanding, putsToAck>>, handled \subseteq handled'
  PROVE  Books'
<1>1. Held' = Held
  BY DEF Held
<1>2. QED BY <1>1 DEF Books, PutsPending, Lists

\* u is w but for messages that are neither puts nor restore the state.
Alike(w, u) ==
  PutsIn(u) = PutsIn(w) /\ (InOrder(w) => InOrder(u)) /\ Restores(u) \subseteq Restores(w)

LEMMA AlikeItself == ASSUME NEW w PROVE Alike(w, w)
BY DEF Alike

LEMMA AlikeAppended ==
  ASSUME NEW w, IsWire(w), NEW m, m.type # "put", m.type # "auth" \/ ~m.restore
  PROVE  Alike(w, Append(w, m)) /\ Append(w, m) = w \o <<m>>
<1>1. Append(w, m) = w \o <<m>>
  BY DEF IsWire
<1>2. IsWire(<<m>>) /\ InOrder(<<m>>) /\ PutsIn(<<m>>) = {} /\ Restores(<<m>>) = {}
  BY Single, PutAlone
<1>3. /\ PutsIn(w \o <<m>>) = PutsIn(w) \cup PutsIn(<<m>>)
      /\ InOrder(w) => InOrder(w \o <<m>>)
      /\ Restores(w \o <<m>>) = Restores(w)
  BY <1>2, PutsJoined
<1>4. QED BY <1>1, <1>2, <1>3 DEF Alike

LEMMA AlikeTail ==
  ASSUME NEW w, IsWire(w), w # <<>>, Head(w).type # "put", Restores(w) \subseteq {1},
         InOrder(w), PutsIn(w) \subseteq Nat
  PROVE  Alike(w, Tail(w)) /\ Restores(Tail(w)) = {}
<1>1. Head(w) = w[1] /\ 1 \in DOMAIN w /\ Tail(w) = RemoveAt(w, 1)
  BY FirstTaken
<1>2. QED BY <1>1, PutsTaken DEF Alike

LEMMA WiresKept ==
  ASSUME UnderWay, UNCHANGED <<writes, outstanding, cursor, handled>>,
         CanSendWrites' <=> CanSendWrites,
         Alike(toServer, toServer'), Alike(toClient, toClient')
  PROVE  UnderWay'
<1>1. /\ PutsIn(toServer') = PutsIn(toServer) /\ PutsIn(toClient') = PutsIn(toClient)
      /\ InOrder(toServer') /\ InOrder(toClient')
      /\ Restores(toServer') \subseteq Restores(toServer)
      /\ Restores(toClient') \subseteq Restores(toClient)
  BY DEF UnderWay, PutsOrdered, Alike
<1>2. PutsOrdered'
  BY <1>1 DEF UnderWay, PutsOrdered, InOrder, PutsIn
<1>3. PutsUnderWay'
  <2>1. CASE CanSendWrites
    BY <1>1, <2>1 DEF UnderWay, PutsUnderWay, Restores, PutsIn
  <2>2. CASE ~CanSendWrites
    BY <1>1, <2>2 DEF UnderWay, PutsUnderWay, Restores, PutsIn
  <2>3. QED BY <2>1, <2>2
<1>4. QED BY <1>2, <1>3 DEF UnderWay

\* The step of Replay: none where these stay.
LEMMA NothingNew ==
  ASSUME UNCHANGED <<writes, outstanding, putsToAck, cursor, handled>>, crashed' <=> crashed
  PROVE  UNCHANGED R!replayVars
<1>1. Held' = Held
  BY DEF Held
<1>2. QED BY <1>1 DEF R!replayVars

\* A step of Replay, or none.
Replays == [R!Next]_(R!replayVars)

\* A step that leaves the books alone and the wires alike.
LEMMA QuietHolds ==
  ASSUME PutsInv, ~crashed,
         UNCHANGED <<writes, allWrites, outstanding, putsToAck, cursor, handled, crashed>>,
         CanSendWrites' <=> CanSendWrites,
         Alike(toServer, toServer'), Alike(toClient, toClient')
  PROVE  PutsInv' /\ Replays
<1>1. Books /\ UnderWay
  BY BooksAndWires
<1>2. Books'
  BY <1>1, BooksKept
<1>3. UnderWay'
  BY <1>1, WiresKept
<1>4. QED BY <1>2, <1>3, BooksAndWiresPrimed, NothingNew DEF Replays

LEMMA PutTypes ==
  ASSUME UnderWay PROVE PutsIn(toServer) \subseteq Nat /\ PutsIn(toClient) \subseteq Nat /\ cursor \in Nat
BY DEF UnderWay, PutsOrdered

-----------------------------------------------------------------------------
(* Steps that neither take nor send a put.                                 *)

LEMMA WiresAre == ASSUME LinkInv PROVE IsWire(toServer) /\ IsWire(toClient) /\ conn \in Conn
BY DEF LinkInv, LinkTypeOK

LEMMA RetryFiresReplays ==
  ASSUME LinkInv, PutsInv, ~crashed, RetryFires, UNCHANGED dataVars PROVE PutsInv' /\ Replays
<1>1. conn.state = "Disconnected" /\ conn'.state = "GettingToken"
  BY WiresAre DEF LinkInv, NeverStranded, RetryFires, Conn
<1>2. QED
  BY <1>1, AlikeItself, QuietHolds DEF RetryFires, CanSendWrites, dataVars, wires, server

LEMMA TokenFetchedReplays ==
  ASSUME LinkInv, PutsInv, ~crashed, TokenFetched, UNCHANGED dataVars PROVE PutsInv' /\ Replays
<1>1. ~CanSendWrites /\ ~CanSendWrites'
  BY WiresAre DEF LinkInv, NeverStranded, TokenFetched, CanSendWrites, Realtime, Conn
<1>2. QED
  BY <1>1, AlikeItself, QuietHolds DEF TokenFetched, dataVars, wires, server

LEMMA TokenFailedReplays ==
  ASSUME LinkInv, PutsInv, ~crashed, TokenFailed, UNCHANGED dataVars PROVE PutsInv' /\ Replays
<1>1. ~CanSendWrites /\ ~CanSendWrites'
  BY WiresAre DEF LinkInv, NeverStranded, TokenFailed, CanSendWrites, Realtime, Conn,
                  TryScheduleReconnect
<1>2. QED
  BY <1>1, AlikeItself, QuietHolds DEF TokenFailed, dataVars, wires, server

LEMMA ResumeReplays ==
  ASSUME LinkInv, PutsInv, ~crashed, NEW r, Resume(r), UNCHANGED dataVars
  PROVE  PutsInv' /\ Replays
<1>1. conn'.state = conn.state
  BY WiresAre DEF Resume, Conn, TryScheduleReconnect
<1>2. QED
  BY <1>1, AlikeItself, QuietHolds DEF Resume, CanSendWrites, dataVars, wires, server

LEMMA RefreshAuthTokenReplays ==
  ASSUME LinkInv, PutsInv, ~crashed, RefreshAuthToken, UNCHANGED dataVars
  PROVE  PutsInv' /\ Replays
<1>1. conn'.state = conn.state
  BY WiresAre DEF RefreshAuthToken, Conn
<1>2. Alike(toServer, toServer')
  <2>1. Alike(toServer, Append(toServer, [type |-> "unauth"]))
    BY WiresAre, AlikeAppended
  <2>2. Alike(toServer, Append(toServer, Auth(FALSE)))
    BY WiresAre, AlikeAppended DEF Auth
  <2>3. QED BY <2>1, <2>2, AlikeItself DEF RefreshAuthToken
<1>3. QED
  BY <1>1, <1>2, AlikeItself, QuietHolds DEF RefreshAuthToken, CanSendWrites, dataVars, server

LEMMA StartListenReplays ==
  ASSUME LinkInv, PutsInv, ~crashed, NEW q, NEW hash, StartListen(q, hash),
         UNCHANGED <<writes, allWrites, crashed>>
  PROVE  PutsInv' /\ Replays
<1>1. Alike(toServer, toServer')
  <2>1. Alike(toServer, Append(toServer, Listen(q, made + 1, hash[q])))
    BY WiresAre, AlikeAppended DEF Listen
  <2>2. QED BY <2>1, AlikeItself DEF StartListen
<1>2. QED
  BY <1>1, AlikeItself, QuietHolds DEF StartListen, CanSendWrites, server

LEMMA UnlistenReplays ==
  ASSUME LinkInv, PutsInv, ~crashed, NEW q, Unlisten(q),
         UNCHANGED <<writes, allWrites, crashed>>
  PROVE  PutsInv' /\ Replays
<1>1. Alike(toServer, toServer')
  <2>1. Alike(toServer, Append(toServer, [type |-> "unlisten", query |-> q]))
    BY WiresAre, AlikeAppended
  <2>2. QED BY <2>1, AlikeItself DEF Unlisten
<1>2. QED
  BY <1>1, AlikeItself, QuietHolds DEF Unlisten, CanSendWrites, server

\* Data is pushed, or nothing.
LEMMA AlikePushed ==
  ASSUME NEW w, IsWire(w), NEW u, Pushes(u) PROVE IsWire(w \o u) /\ Alike(w, w \o u)
<1>1. CASE u = <<>>
  BY <1>1, Concatenated, EmptyWire, AlikeItself
<1>2. CASE u # <<>>
  <2>1. PICK m : m.type = "data" /\ u = <<m>>
    BY <1>2 DEF Pushes
  <2>2. Alike(w, Append(w, m)) /\ Append(w, m) = w \o <<m>>
    BY <2>1, AlikeAppended
  <2>3. IsWire(Append(w, m))
    BY Appended
  <2>4. QED BY <2>1, <2>2, <2>3
<1>3. QED BY <1>1, <1>2

LEMMA AlikeTwice == ASSUME NEW u, NEW v, NEW w, Alike(u, v), Alike(v, w) PROVE Alike(u, w)
BY DEF Alike

LEMMA OtherClientReplays ==
  ASSUME LinkInv, PutsInv, ~crashed, NEW k, NEW v, OtherClient(k, v) PROVE PutsInv' /\ Replays
<1> DEFINE w == [op |-> "set", at |-> k, data |-> v]
<1>1. toClient' = toClient \o Push(w)
  BY DEF OtherClient
<1> HIDE DEF w
<1>2. Alike(toClient, toClient')
  BY <1>1, WiresAre, PushIsData, AlikePushed
<1>3. QED BY <1>2, AlikeItself, QuietHolds DEF OtherClient, CanSendWrites, server

LEMMA RevokeReplays ==
  ASSUME LinkInv, PutsInv, ~crashed, NEW q, Revoke(q), UNCHANGED dataVars
  PROVE  PutsInv' /\ Replays
<1>1. Alike(toClient, Append(toClient, [type |-> "revoked", query |-> q]))
  BY WiresAre, AlikeAppended
<1>2. QED BY <1>1, AlikeItself, QuietHolds DEF Revoke, CanSendWrites, dataVars

\* A message that is no put arrives; it is no auth answer that restores the state.
LEMMA ArrivesAlike ==
  ASSUME LinkInv, PutsInv, ~crashed, toClient # <<>>, Head(toClient).type # "put"
  PROVE  Alike(toClient, Tail(toClient)) /\ Restores(Tail(toClient)) = {}
<1>1. UnderWay
  BY BooksAndWires
<1>2. Restores(toClient) \subseteq {1} /\ InOrder(toClient) /\ PutsIn(toClient) \subseteq Nat
  BY <1>1, PutTypes DEF UnderWay, PutsOrdered, PutsUnderWay
<1>3. QED BY <1>2, WiresAre, AlikeTail

LEMMA ReceiveDataReplays ==
  ASSUME LinkInv, PutsInv, ~crashed, ReceiveData PROVE PutsInv' /\ Replays
<1>1. toClient # <<>> /\ Head(toClient).type # "put" /\ toClient' = Tail(toClient)
  BY DEF ReceiveData
<1>2. UNCHANGED <<conn, outstanding, putsToAck, toServer, server, writes, allWrites, crashed>>
  BY DEF ReceiveData
<1>3. QED BY <1>1, <1>2, ArrivesAlike, AlikeItself, QuietHolds DEF CanSendWrites, server

LEMMA ReceiveRevokedReplays ==
  ASSUME LinkInv, PutsInv, ~crashed, ReceiveRevoked PROVE PutsInv' /\ Replays
<1>1. toClient # <<>> /\ Head(toClient).type # "put" /\ toClient' = Tail(toClient)
  BY DEF ReceiveRevoked, ListenRevoked
<1>2. UNCHANGED <<conn, outstanding, putsToAck, toServer, server, writes, allWrites, crashed>>
  BY DEF ReceiveRevoked, ListenRevoked
<1>3. QED BY <1>1, <1>2, ArrivesAlike, AlikeItself, QuietHolds DEF CanSendWrites, server

-----------------------------------------------------------------------------
(* The server takes a request that is no put.                              *)

LEMMA TakenAlike ==
  ASSUME LinkInv, PutsInv, ~crashed, NEW types, NextIs(types), "put" \notin types, Take(1)
  PROVE  Alike(toServer, toServer') /\ Restores(toServer') = {}
<1>1. UnderWay
  BY BooksAndWires
<1>2. Restores(toServer) \subseteq {1} /\ InOrder(toServer) /\ PutsIn(toServer) \subseteq Nat
  BY <1>1, PutTypes DEF UnderWay, PutsOrdered, PutsUnderWay
<1>3. 1 \in DOMAIN toServer /\ toServer[1].type # "put"
  BY NextAtHead
<1>4. QED BY <1>2, <1>3, WiresAre, PutsTaken DEF Alike, Take

LEMMA ServeSilentReplays ==
  ASSUME LinkInv, PutsInv, ~crashed, ServeSilent, UNCHANGED dataVars PROVE PutsInv' /\ Replays
<1>1. Alike(toServer, toServer')
  BY TakenAlike DEF ServeSilent
<1>2. QED BY <1>1, AlikeItself, QuietHolds DEF ServeSilent, CanSendWrites, dataVars

LEMMA ServeListenReplays ==
  ASSUME LinkInv, PutsInv, ~crashed, NEW w, Pushes(w), NEW ok, ServeListen(w, ok),
         UNCHANGED dataVars
  PROVE  PutsInv' /\ Replays
<1>1. Alike(toServer, toServer')
  BY TakenAlike DEF ServeListen
<1> DEFINE a == [type |-> "listen", query |-> Head(toServer).query,
                 id |-> Head(toServer).id, ok |-> ok]
           v == toClient \o w
<1>2. a.type = "listen" /\ toClient' = v \o <<a>>
  BY DEF ServeListen
<1>3. IsWire(v) /\ Alike(toClient, v)
  BY WiresAre, AlikePushed
<1> HIDE DEF a, v
<1>4. Alike(v, Append(v, a)) /\ Append(v, a) = v \o <<a>>
  BY <1>2, <1>3, AlikeAppended
<1>5. Alike(toClient, toClient')
  BY <1>2, <1>3, <1>4, AlikeTwice
<1>6. QED BY <1>1, <1>5, QuietHolds DEF ServeListen, CanSendWrites, dataVars

LEMMA ServerListenReplays ==
  ASSUME LinkInv, PutsInv, ~crashed, NEW ok, ServerListen(ok) PROVE PutsInv' /\ Replays
<1> DEFINE all == [op |-> "set", at |-> Top, data |-> store]
           d == [type |-> "data", write |-> all]
           w == IF ok /\ Head(toServer).query = Data
                     /\ (Head(toServer).hash = EmptyNode \/ Head(toServer).hash # store)
                  THEN <<d>> ELSE <<>>
<1>1. ServeListen(w, ok) /\ UNCHANGED dataVars
  BY DEF ServerListen
<1>2. d.type = "data"
  OBVIOUS
<1> HIDE DEF d
<1>3. Pushes(w)
  BY <1>2 DEF Pushes
<1> HIDE DEF w
<1>4. QED BY <1>1, <1>3, ServeListenReplays

LEMMA ServeAuthReplays ==
  ASSUME LinkInv, PutsInv, ~crashed, NEW ok, ServeAuth(ok), UNCHANGED dataVars
  PROVE  PutsInv' /\ Replays
<1> DEFINE m == [type |-> "auth", restore |-> Head(toServer).restore, ok |-> ok]
<1>1. /\ Alike(toServer, toServer') /\ Restores(toServer') = {}
      /\ 1 \in DOMAIN toServer /\ toServer[1] = Head(toServer) /\ Head(toServer).type = "auth"
  BY TakenAlike, NextAtHead DEF ServeAuth
<1>2. /\ m.type = "auth" /\ m.restore = Head(toServer).restore
      /\ toClient' = Append(toClient, m)
      /\ UNCHANGED <<conn, outstanding, putsToAck, session, cursor, handled>>
  BY DEF ServeAuth, server
<1> HIDE DEF m
<1>3. CASE ~m.restore
  <2>1. Alike(toClient, toClient')
    BY <1>2, <1>3, WiresAre, AlikeAppended
  <2>2. QED BY <1>1, <1>2, <2>1, QuietHolds DEF CanSendWrites, dataVars
<1>4. CASE m.restore
  <2>1. Books /\ UnderWay
    BY BooksAndWires
  <2>2. 1 \in Restores(toServer)
    BY <1>1, <1>2, <1>4 DEF Restores
  <2>3. ~CanSendWrites /\ Restores(toClient) = {}
    BY <2>1, <2>2 DEF UnderWay, PutsUnderWay
  <2>4. toClient = <<>>
    <3>1. toServer # <<>> /\ Connected
      BY <1>1, Facts
    <3>2. conn.state = "Authenticating"
      BY <2>3, <3>1 DEF Connected, CanSendWrites
    <3>3. CASE toClient # <<>> /\ Head(toClient).type = "auth" /\ Head(toClient).restore
      <4>1. 1 \in Restores(toClient)
        BY <3>3, WiresAre, FirstTaken DEF Restores
      <4>2. QED BY <2>3, <4>1
    <3>4. QED BY <3>2, <3>3 DEF LinkInv, RestoreNext
  <2>5. toClient' = <<m>>
    BY <1>2, <2>4
  <2>6. InOrder(toClient') /\ PutsIn(toClient') = {} /\ Restores(toClient') \subseteq {1}
    BY <1>2, <2>5, PutAlone
  <2>7. PutsIn(toServer') = {} /\ InOrder(toServer')
    BY <1>1, <2>1, <2>3 DEF Alike, UnderWay, PutsOrdered, PutsUnderWay
  <2>8. PutsOrdered'
    BY <1>2, <2>1, <2>6, <2>7 DEF UnderWay, PutsOrdered, PutsIn, InOrder, dataVars
  <2>9. PutsUnderWay'
    BY <1>1, <1>2, <2>1, <2>3, <2>6, <2>7
       DEF UnderWay, PutsUnderWay, CanSendWrites, PutsIn, Restores
  <2>10. Books'
    BY <1>2, <2>1, BooksKept DEF dataVars
  <2>11. UNCHANGED R!replayVars
    BY <1>2, NothingNew DEF dataVars
  <2>12. QED
    BY <2>8, <2>9, <2>10, <2>11, BooksAndWiresPrimed DEF UnderWay, Replays, dataVars
<1>5. QED BY <1>3, <1>4

-----------------------------------------------------------------------------
(* A connection begins and ends.                                           *)

LEMMA DisconnectedReplays ==
  ASSUME PutsInv, ~crashed, NEW c, Disconnected(c),
         UNCHANGED <<outstanding, putsToAck, dataVars>>, c \in Conn
  PROVE  PutsInv' /\ Replays
<1>1. /\ toServer' = <<>> /\ toClient' = <<>> /\ cursor' = 0
      /\ UNCHANGED <<outstanding, putsToAck, writes, allWrites, handled, crashed>>
  BY DEF Disconnected, dataVars
<1>2. ~CanSendWrites'
  BY DEF Disconnected, TryScheduleReconnect, CanSendWrites, Conn
<1>3. Books /\ UnderWay
  BY BooksAndWires
<1>4. /\ InOrder(toServer') /\ PutsIn(toServer') = {} /\ Restores(toServer') = {}
      /\ InOrder(toClient') /\ PutsIn(toClient') = {} /\ Restores(toClient') = {}
  BY <1>1, NoPuts
<1>5. PutsOrdered'
  BY <1>1, <1>4 DEF PutsOrdered, PutsIn, InOrder
<1>6. PutsUnderWay'
  BY <1>1, <1>2, <1>4 DEF PutsUnderWay, PutsIn, Restores
<1>7. Books'
  BY <1>1, <1>3, BooksKept
<1>8. R!Rewind
  <2>1. Held' = Held
    BY <1>1 DEF Held
  <2>2. QED BY <1>1, <2>1 DEF R!Rewind
<1>9. QED
  BY <1>1, <1>5, <1>6, <1>7, <1>8, BooksAndWiresPrimed DEF UnderWay, Replays, R!Next

LEMMA ConnectionLostReplays ==
  ASSUME LinkInv, PutsInv, ~crashed, ConnectionLost, UNCHANGED dataVars
  PROVE  PutsInv' /\ Replays
BY WiresAre, DisconnectedReplays DEF ConnectionLost

LEMMA InterruptReplays ==
  ASSUME LinkInv, PutsInv, ~crashed, NEW r \in Reason, Interrupt(r), UNCHANGED dataVars
  PROVE  PutsInv' /\ Replays
<1> DEFINE c == [conn EXCEPT !.reasons = conn.reasons \cup {r},
                             !.retry = conn.retry /\ Realtime(conn)]
<1>1. c \in Conn
  <2>1. (conn.retry /\ Realtime(conn)) \in BOOLEAN
    OBVIOUS
  <2>2. QED BY <2>1, WiresAre DEF Conn
<1>2. Disconnected(c) /\ UNCHANGED <<outstanding, putsToAck>>
  BY DEF Interrupt
<1> HIDE DEF c
<1>3. QED BY <1>1, <1>2, DisconnectedReplays

\* The state is restored over a connection that has carried no put yet.
LEMMA RestoreReplays ==
  ASSUME LinkInv, PutsInv, ~crashed, NEW hash, RestoreState(hash), ~CanSendWrites, CanSendWrites',
         Restores(toServer) = {}, InOrder(toClient'), PutsIn(toClient') = {},
         Restores(toClient') = {},
         UNCHANGED <<outstanding, putsToAck, cursor, handled, dataVars>>
  PROVE  PutsInv' /\ Replays
<1>1. Books /\ UnderWay
  BY BooksAndWires
<1>2. /\ outstanding \subseteq 1 .. Len(writes) /\ IsFiniteSet(outstanding)
      /\ Len(writes) \in Nat /\ cursor = 0 /\ PutsIn(toServer) = {} /\ InOrder(toServer)
  BY <1>1, WireFacts
     DEF Books, PutsPending, UnderWay, PutsUnderWay, PutsOrdered, LinkInv, LinkTypeOK
<1>3. PICK order \in SetToSeqs(Listened) :
        toServer' = toServer
             \o [i \in DOMAIN order |-> Listen(order[i], listens[order[i]], hash[order[i]])]
             \o RestoredPuts
  BY DEF RestoreState
<1> DEFINE f == [i \in DOMAIN order |-> Listen(order[i], listens[order[i]], hash[order[i]])]
           v == toServer \o f
<1>4. IsWire(f) /\ PutsIn(f) = {} /\ InOrder(f) /\ Restores(f) = {}
  <2>1. Cardinality(Listened) \in Nat
    BY PermanentListened, FS_CardinalityType
  <2>2. DOMAIN order = 1 .. Cardinality(Listened)
    BY <1>3 DEF SetToSeqs
  <2>3. f \in Seq({f[i] : i \in DOMAIN order})
    BY <2>1, <2>2
  <2>4. DOMAIN f = DOMAIN order /\ \A i \in DOMAIN f : f[i].type = "listen"
    BY DEF Listen
  <2> HIDE DEF f
  <2>5. QED BY <2>3, <2>4, SeqIsWire DEF PutsIn, InOrder, Restores
<1>5. /\ IsWire(RestoredPuts) /\ PutsIn(RestoredPuts) = outstanding
      /\ InOrder(RestoredPuts) /\ Restores(RestoredPuts) = {}
  <2>1. outstanding \subseteq Nat
    BY <1>2
  <2>2. IsWire(RestoredPuts)
    BY RestoredIsWire
  <2>3. QED BY <1>2, <2>1, <2>2, Restored
<1> HIDE DEF f
<1>6. IsWire(v) /\ PutsIn(v) = {} /\ InOrder(v) /\ Restores(v) = {}
  <2>1. IsWire(v)
    BY <1>4, WiresAre, Joined
  <2>2. QED BY <1>2, <1>4, <2>1, WiresAre, PutsJoined
<1> HIDE DEF v
<1>7. PutsIn(toServer') = outstanding /\ InOrder(toServer') /\ Restores(toServer') = {}
  <2>1. toServer' = v \o RestoredPuts
    BY <1>3 DEF f, v
  <2>2. /\ PutsIn(v \o RestoredPuts) = PutsIn(v) \cup PutsIn(RestoredPuts)
        /\ InOrder(v \o RestoredPuts)
        /\ Restores(v \o RestoredPuts) = Restores(v)
    BY <1>5, <1>6, PutsJoined
  <2>3. QED BY <1>5, <1>6, <2>1, <2>2
<1>8. PutsOrdered'
  <2>1. PutsIn(toServer') \subseteq cursor' + 1 .. Len(writes')
    BY <1>2, <1>7 DEF dataVars
  <2>2. PutsIn(toClient') \subseteq 1 .. cursor' /\ PutsIn(toClient') \subseteq handled'
    BY <1>2
  <2>3. cursor' \in 0 .. Len(writes')
    BY <1>2 DEF dataVars
  <2>4. QED BY <1>7, <2>1, <2>2, <2>3 DEF PutsOrdered, PutsIn, InOrder
<1>9. PutsUnderWay'
  BY <1>7 DEF PutsUnderWay, PutsIn, Restores
<1>10. Books'
  BY <1>1, BooksKept DEF dataVars
<1>11. UNCHANGED R!replayVars
  BY NothingNew DEF dataVars
<1>12. QED
  BY <1>8, <1>9, <1>10, <1>11, BooksAndWiresPrimed DEF UnderWay, Replays, dataVars

LEMMA ReadyReplays ==
  ASSUME LinkInv, PutsInv, ~crashed, NEW hash, Ready(hash), UNCHANGED dataVars
  PROVE  PutsInv' /\ Replays
<1>1. /\ ~CanSendWrites /\ ~Connected /\ toServer = <<>> /\ toClient = <<>>
      /\ UNCHANGED <<outstanding, putsToAck, toClient, cursor, handled>>
  BY DEF Ready, CanSendWrites, Connected, LinkInv, server
<1>2. Books /\ UnderWay
  BY BooksAndWires
<1>3. CASE conn.token
  <2> DEFINE m == Auth(TRUE)
  <2>1. m.type = "auth" /\ toServer' = Append(toServer, m) /\ conn'.state = "Authenticating"
    BY <1>3, WiresAre DEF Ready, Auth, Conn
  <2> HIDE DEF m
  <2>2. toServer' = <<m>>
    BY <1>1, <2>1
  <2>3. PutsIn(toServer') = {} /\ InOrder(toServer') /\ Restores(toServer') \subseteq {1}
    BY <2>1, <2>2, PutAlone
  <2>4. PutsIn(toClient') = {} /\ InOrder(toClient') /\ Restores(toClient') = {}
    BY <1>1, NoPuts
  <2>5. PutsOrdered'
    BY <1>1, <1>2, <2>3, <2>4 DEF UnderWay, PutsOrdered, PutsIn, InOrder, dataVars
  <2>6. PutsUnderWay'
    BY <1>1, <1>2, <2>1, <2>3, <2>4
       DEF UnderWay, PutsUnderWay, CanSendWrites, PutsIn, Restores
  <2>7. Books'
    BY <1>1, <1>2, BooksKept DEF dataVars
  <2>8. UNCHANGED R!replayVars
    BY <1>1, NothingNew DEF dataVars
  <2>9. QED
    BY <2>5, <2>6, <2>7, <2>8, BooksAndWiresPrimed DEF UnderWay, Replays, dataVars
<1>4. CASE ~conn.token
  <2>1. RestoreState(hash) /\ CanSendWrites'
    BY <1>4, WiresAre DEF Ready, CanSendWrites, Conn
  <2>2. Restores(toServer) = {}
    BY <1>1, NoPuts
  <2>3. InOrder(toClient') /\ PutsIn(toClient') = {} /\ Restores(toClient') = {}
    BY <1>1, NoPuts
  <2>4. QED BY <1>1, <2>1, <2>2, <2>3, RestoreReplays
<1>5. QED BY <1>3, <1>4

LEMMA AuthAnsweredReplays ==
  ASSUME LinkInv, PutsInv, ~crashed, NEW hash, AuthAnswered(hash), UNCHANGED dataVars
  PROVE  PutsInv' /\ Replays
<1>1. /\ toClient # <<>> /\ Head(toClient).type = "auth" /\ Connected
      /\ UNCHANGED <<outstanding, putsToAck>>
  BY Facts DEF AuthAnswered
<1>2. Books /\ UnderWay
  BY BooksAndWires
<1>3. CASE ~Head(toClient).ok
  <2> DEFINE c == [conn EXCEPT !.token = FALSE]
  <2>1. Disconnected(c) /\ c \in Conn
    BY <1>3, WiresAre DEF AuthAnswered, Conn
  <2> HIDE DEF c
  <2>2. QED BY <1>1, <2>1, DisconnectedReplays
<1>4. CASE Head(toClient).ok
  <2>1. /\ toClient' = Tail(toClient) /\ CanSendWrites' /\ UNCHANGED <<cursor, handled>>
        /\ IF Head(toClient).restore THEN RestoreState(hash)
                                     ELSE UNCHANGED <<toServer, unacked>>
    BY <1>4, WiresAre DEF AuthAnswered, CanSendWrites, Conn, server
  <2>2. Alike(toClient, toClient') /\ Restores(toClient') = {}
    BY <1>1, <2>1, ArrivesAlike
  <2>3. CASE Head(toClient).restore
    <3>1. 1 \in Restores(toClient)
      BY <1>1, <2>3, WiresAre, FirstTaken DEF Restores
    <3>2. ~CanSendWrites /\ PutsIn(toClient) = {} /\ InOrder(toClient) /\ Restores(toServer) = {}
      BY <1>2, <3>1 DEF UnderWay, PutsUnderWay, PutsOrdered
    <3>3. InOrder(toClient') /\ PutsIn(toClient') = {}
      BY <2>2, <3>2 DEF Alike
    <3>4. QED BY <1>1, <2>1, <2>2, <2>3, <3>2, <3>3, RestoreReplays
  <2>4. CASE ~Head(toClient).restore
    <3>1. CanSendWrites
      BY <1>1, <2>4 DEF LinkInv, RestoreNext, Connected, CanSendWrites
    <3>2. QED
      BY <1>1, <2>1, <2>2, <2>4, <3>1, AlikeItself, QuietHolds DEF dataVars
  <2>5. QED BY <2>3, <2>4
<1>5. QED BY <1>3, <1>4

-----------------------------------------------------------------------------
(* Writes, and what becomes of them.                                       *)

LEMMA ListAppended ==
  ASSUME NEW all, NEW S \in SUBSET Nat, Lists(all, S), NEW n \in Nat, \A p \in S : p < n
  PROVE  Lists(Append(all, n), S \cup {n})
<1> DEFINE u == Append(all, n)
           k == Len(all)
<1>1. IsWire(u) /\ u = all \o <<n>>
  BY Appended DEF Lists, IsWire
<1>2. /\ k \in Nat /\ DOMAIN all = 1 .. k /\ DOMAIN u = 1 .. k + 1
      /\ \A i \in 1 .. k : u[i] = all[i]
      /\ u[k + 1] = n
  BY WireFacts DEF Lists, IsWire
<1> HIDE DEF u, k
<1>3. S = {all[i] : i \in 1 .. k}
  BY <1>2 DEF Lists
<1>4. {u[i] : i \in DOMAIN u} = S \cup {n}
  <2>1. \A i \in DOMAIN u : i \in 1 .. k \/ i = k + 1
    BY <1>2
  <2>2. ASSUME NEW i \in DOMAIN u PROVE u[i] \in S \cup {n}
    BY <1>2, <1>3, <2>1
  <2>3. ASSUME NEW p \in S \cup {n} PROVE \E i \in DOMAIN u : u[i] = p
    <3>1. CASE p \in S
      <4>1. PICK i \in 1 .. k : all[i] = p
        BY <1>3, <3>1
      <4>2. i \in DOMAIN u /\ u[i] = p
        BY <1>2, <4>1
      <4>3. QED BY <4>2
    <3>2. CASE p = n
      <4>1. k + 1 \in DOMAIN u
        BY <1>2
      <4>2. QED BY <1>2, <3>2, <4>1
    <3>3. QED BY <3>1, <3>2
  <2>4. QED BY <2>2, <2>3
<1>5. ASSUME NEW i \in DOMAIN u, NEW j \in DOMAIN u, i < j PROVE u[i] < u[j]
  <2>1. i \in 1 .. k /\ (j \in 1 .. k \/ j = k + 1)
    BY <1>2, <1>5
  <2>2. CASE j \in 1 .. k
    BY <1>2, <1>5, <2>1, <2>2 DEF Lists
  <2>3. CASE j = k + 1
    BY <1>2, <1>3, <2>1, <2>3
  <2>4. QED BY <2>1, <2>2, <2>3
<1>6. QED BY <1>1, <1>4, <1>5 DEF Lists, u

LEMMA WriteReplays ==
  ASSUME LinkInv, PutsInv, ~crashed, NEW script, Write(script) PROVE PutsInv' /\ Replays
<1> DEFINE n == Len(writes) + 1
<1>1. /\ writes' = Append(writes, script[n]) /\ allWrites' = Append(allWrites, n)
      /\ outstanding' = outstanding \cup {n}
      /\ toServer' = IF CanSendWrites THEN Append(toServer, Put(n)) ELSE toServer
      /\ UNCHANGED <<conn, putsToAck, toClient, cursor, handled, crashed>>
  BY DEF Write, PutInternal, server
<1>2. Books /\ UnderWay
  BY BooksAndWires
<1>3. /\ IsWire(writes') /\ Len(writes) \in Nat /\ n \in Nat /\ Len(writes') = n
  <2>1. IsWire(writes) /\ Len(writes) \in Nat
    BY <1>2, WireFacts DEF Books, PutsPending
  <2>2. Len(writes') = n
    BY <1>1, <2>1 DEF IsWire
  <2>3. QED BY <1>1, <2>1, <2>2, Appended
<1> HIDE DEF n
<1>4. 1 .. n = 1 .. Len(writes) \cup {n} /\ \A p \in 1 .. Len(writes) : p < n /\ p \in Nat
  BY <1>3 DEF n
<1>5. Held' = Held
  BY <1>1 DEF Held
<1>6. Books'
  <2>1. outstanding \cup Held \subseteq 1 .. Len(writes)
    BY <1>2 DEF Books, PutsPending
  <2>2. Lists(allWrites', (outstanding \cup Held) \cup {n})
    <3>1. Lists(allWrites, outstanding \cup Held)
      BY <1>2 DEF Books
    <3>2. QED BY <1>1, <1>3, <1>4, <2>1, <3>1, ListAppended
  <2>3. (outstanding \cup Held) \cup {n} = outstanding' \cup Held'
    BY <1>1, <1>5
  <2>4. Lists(allWrites, outstanding \cup Held)' /\ IsWire(allWrites')
    BY <2>2, <2>3 DEF Lists
  <2>5. /\ outstanding' \cap Held' = {}
        /\ outstanding' \cup Held' \subseteq 1 .. Len(writes')
        /\ \A h \in Held', p \in outstanding' : h < p
    <3>1. \A h \in Held : h \in 1 .. Len(writes)
      BY <2>1
    <3>2. n \notin Held /\ \A h \in Held : h < n
      BY <1>3, <1>4, <3>1
    <3>3. QED
      BY <1>1, <1>2, <1>3, <1>4, <1>5, <2>1, <3>2 DEF Books, PutsPending
  <2>6. QED
    BY <1>1, <1>2, <1>3, <1>5, <2>4, <2>5 DEF Books, PutsPending
<1>7. UnderWay'
  <2>1. CASE ~CanSendWrites
    <3>1. PutsIn(toServer) = {} /\ PutsIn(toClient) = {} /\ toServer' = toServer
      BY <1>1, <1>2, <2>1 DEF UnderWay, PutsUnderWay
    <3>2. PutsOrdered'
      BY <1>1, <1>2, <3>1 DEF UnderWay, PutsOrdered
    <3>3. PutsUnderWay'
      BY <1>1, <1>2, <2>1, <3>1 DEF UnderWay, PutsUnderWay, CanSendWrites
    <3>4. QED BY <3>2, <3>3 DEF UnderWay
  <2>2. CASE CanSendWrites
    <3> DEFINE m == Put(n)
    <3>1. m.type = "put" /\ m.put = n
      BY DEF Put
    <3>2. toServer' = toServer \o <<m>>
      BY <1>1, <2>2, WiresAre DEF IsWire
    <3> HIDE DEF m
    <3>3. IsWire(<<m>>) /\ InOrder(<<m>>) /\ PutsIn(<<m>>) = {n} /\ Restores(<<m>>) = {}
      BY <3>1, Single, PutAlone
    <3>4. /\ PutsIn(toServer) \subseteq cursor + 1 .. Len(writes) /\ cursor \in Nat
          /\ InOrder(toServer) /\ Restores(toServer) = {}
      BY <1>2, <2>2 DEF UnderWay, PutsOrdered, PutsUnderWay
    <3>5. \A p \in PutsIn(toServer) : p < n /\ p \in cursor + 1 .. n
      BY <1>3, <3>4 DEF n
    <3>6. /\ PutsIn(toServer') = PutsIn(toServer) \cup {n}
          /\ InOrder(toServer') /\ Restores(toServer') = {}
      BY <3>2, <3>3, <3>4, <3>5, WiresAre, PutsJoined
    <3>7. /\ cursor \in 0 .. Len(writes) /\ PutsIn(toServer) \subseteq cursor + 1 .. Len(writes)
          /\ PutsIn(toClient) \subseteq 1 .. cursor /\ PutsIn(toClient) \subseteq handled
          /\ InOrder(toClient)
      BY <1>2 DEF UnderWay, PutsOrdered
    <3>8. PutsIn(toServer') \subseteq cursor' + 1 .. Len(writes') /\ cursor' \in 0 .. Len(writes')
      BY <1>1, <1>3, <3>5, <3>6, <3>7 DEF n
    <3>9. PutsOrdered'
      BY <1>1, <3>6, <3>7, <3>8 DEF PutsOrdered
    <3>10. /\ outstanding \subseteq PutsIn(toServer) \cup PutsIn(toClient)
           /\ Restores(toClient) = {} /\ CanSendWrites'
      BY <1>1, <1>2, <2>2 DEF UnderWay, PutsUnderWay, CanSendWrites
    <3>11. PutsUnderWay'
      BY <1>1, <3>6, <3>10 DEF PutsUnderWay
    <3>12. QED BY <3>9, <3>11 DEF UnderWay
  <2>3. QED BY <2>1, <2>2
<1>8. R!Issue
  BY <1>1, <1>3, <1>5 DEF R!Issue
<1>9. QED BY <1>1, <1>6, <1>7, <1>8, BooksAndWiresPrimed DEF Replays, R!Next

LEMMA PurgeReplays ==
  ASSUME LinkInv, PutsInv, ~crashed, Purge PROVE PutsInv' /\ Replays
<1>1. /\ outstanding' = {} /\ allWrites' = <<>> /\ crashed' = (putsToAck # <<>>)
      /\ UNCHANGED <<conn, putsToAck, toServer, toClient, cursor, handled, writes>>
  BY DEF Purge, PurgePuts, wires, server
<1>2. Books /\ UnderWay /\ Held' = Held
  BY <1>1, BooksAndWires DEF Held
<1>3. CASE putsToAck # <<>>
  <2>1. PutsInv'
    BY <1>1, <1>3 DEF PutsInv, PendingExact
  <2>2. R!GiveUp
    BY <1>1, <1>3 DEF R!GiveUp
  <2>3. QED BY <2>1, <2>2 DEF Replays, R!Next
<1>4. CASE putsToAck = <<>>
  <2>1. Held = {} /\ ~crashed'
    <3>1. DOMAIN putsToAck = {}
      BY <1>4
    <3>2. QED BY <1>1, <1>4, <3>1 DEF Held
  <2>2. Lists(<<>>, {})
    BY EmptyWire DEF Lists
  <2>3. Lists(allWrites, outstanding \cup Held)'
    BY <1>1, <1>2, <2>1, <2>2 DEF Lists
  <2>4. Books'
    BY <1>1, <1>2, <2>1, <2>3 DEF Books, PutsPending, Lists
  <2>5. PutsOrdered'
    BY <1>1, <1>2 DEF UnderWay, PutsOrdered
  <2>6. PutsUnderWay'
    BY <1>1, <1>2 DEF UnderWay, PutsUnderWay, CanSendWrites
  <2>7. R!GiveUp
    BY <1>1, <1>2, <2>1 DEF R!GiveUp
  <2>8. QED
    BY <2>1, <2>4, <2>5, <2>6, <2>7, BooksAndWiresPrimed DEF UnderWay, Replays, R!Next
<1>5. QED BY <1>3, <1>4

\* Answers to pending writes take these out and stop nothing.
LEMMA Acknowledged ==
  ASSUME Books, NEW answers, NEW v, Acknowledge(answers, v),
         NEW n \in Nat, DOMAIN answers = 1 .. n,
         \A i \in 1 .. n : answers[i].put \in outstanding \cup Held,
         \A i, j \in 1 .. n : i < j => answers[i].put # answers[j].put
  PROVE  /\ Lists(allWrites', (outstanding \cup Held) \ {answers[i].put : i \in 1 .. n})
         /\ ~crashed'
<1> DEFINE b == [all |-> allWrites, vis |-> visible, view |-> v, stray |-> FALSE]
           S == outstanding \cup Held
<1>1. IsTree(b) /\ b.all = allWrites /\ b.stray = FALSE
  BY DEF IsTree
<1>2. allWrites' = Acked(b, answers).all /\ crashed' = Acked(b, answers).stray
  BY DEF Acknowledge, Acked
<1>3. S \in SUBSET Nat /\ Lists(allWrites, S)
  BY DEF Books, PutsPending
<1> HIDE DEF b, S
<1>4. /\ Lists(Acked(b, answers).all, S \ {answers[i].put : i \in 1 .. n})
      /\ Acked(b, answers).stray = b.stray
  <2>1. \A i \in 1 .. n : answers[i].put \in S
    BY DEF S
  <2>2. Lists(b.all, S)
    BY <1>1, <1>3
  <2>3. QED BY <1>1, <1>3, <2>1, <2>2, AckAll
<1>5. QED BY <1>1, <1>2, <1>4 DEF S

LEMMA NoneAcknowledged ==
  ASSUME Books, NEW v, Acknowledge(<<>>, v)
  PROVE  Lists(allWrites', outstanding \cup Held) /\ ~crashed'
<1>1. DOMAIN <<>> = 1 .. 0 /\ {<<>>[i].put : i \in 1 .. 0} = {}
  OBVIOUS
<1>2. /\ Lists(allWrites', (outstanding \cup Held) \ {<<>>[i].put : i \in 1 .. 0})
      /\ ~crashed'
  BY <1>1, Acknowledged
<1>3. QED BY <1>1, <1>2

\* The first message is a put's answer: the others answer later puts.
LEMMA FirstAnswer ==
  ASSUME LinkInv, UnderWay, toClient # <<>>, Head(toClient).type = "put"
  PROVE  /\ CanSendWrites /\ Head(toClient).put \in PutsIn(toClient)
         /\ PutsIn(Tail(toClient)) = PutsIn(toClient) \ {Head(toClient).put}
         /\ InOrder(Tail(toClient)) /\ Restores(Tail(toClient)) = {}
         /\ \A p \in PutsIn(Tail(toClient)) : Head(toClient).put < p
<1>1. /\ Head(toClient) = toClient[1] /\ 1 \in DOMAIN toClient
      /\ Tail(toClient) = RemoveAt(toClient, 1)
      /\ DOMAIN toClient = 1 .. Len(toClient) /\ Len(toClient) \in Nat
  BY WiresAre, FirstTaken, WireFacts
<1>2. Head(toClient).put \in PutsIn(toClient)
  BY <1>1 DEF PutsIn
<1>3. CanSendWrites
  BY <1>2 DEF UnderWay, PutsUnderWay
<1>4. InOrder(toClient) /\ PutsIn(toClient) \subseteq Nat /\ Restores(toClient) = {}
  BY <1>3, PutTypes DEF UnderWay, PutsOrdered, PutsUnderWay
<1>5. /\ PutsIn(Tail(toClient)) = PutsIn(toClient) \ {Head(toClient).put}
      /\ InOrder(Tail(toClient)) /\ Restores(Tail(toClient)) = {}
  <2>1. toClient[1].type = "put"
    BY <1>1
  <2>2. /\ PutsIn(RemoveAt(toClient, 1)) = PutsIn(toClient) \ {toClient[1].put}
        /\ InOrder(RemoveAt(toClient, 1)) /\ Restores(RemoveAt(toClient, 1)) = {}
    BY <1>1, <1>4, <2>1, WiresAre, PutsTaken
  <2>3. QED BY <1>1, <2>2
<1>6. ASSUME NEW p \in PutsIn(Tail(toClient)) PROVE Head(toClient).put < p
  <2>1. PICK j \in DOMAIN toClient : toClient[j].type = "put" /\ toClient[j].put = p
    BY <1>5 DEF PutsIn
  <2>2. j # 1
    BY <1>1, <1>5, <2>1
  <2>3. 1 < j
    BY <1>1, <2>2
  <2>4. QED BY <1>1, <1>4, <2>1, <2>3 DEF InOrder
<1>7. QED BY <1>2, <1>3, <1>5, <1>6

\* What stays under way when an answer arrives.
LEMMA ArrivalUnderWay ==
  ASSUME LinkInv, UnderWay, toClient # <<>>, Head(toClient).type = "put",
         toClient' = Tail(toClient), outstanding' = outstanding \ {Head(toClient).put},
         UNCHANGED <<conn, toServer, cursor, handled, writes>>
  PROVE  UnderWay'
<1>1. /\ CanSendWrites /\ Head(toClient).put \in PutsIn(toClient)
      /\ PutsIn(toClient') = PutsIn(toClient) \ {Head(toClient).put}
      /\ InOrder(toClient') /\ Restores(toClient') = {}
  BY FirstAnswer
<1>2. PutsOrdered'
  BY <1>1 DEF UnderWay, PutsOrdered
<1>3. PutsUnderWay'
  BY <1>1 DEF UnderWay, PutsUnderWay, CanSendWrites
<1>4. QED BY <1>2, <1>3 DEF UnderWay

\* The outstanding puts but the first that is answered come after it.
LEMMA OthersLater ==
  ASSUME LinkInv, UnderWay, toClient # <<>>, Head(toClient).type = "put",
         outstanding \subseteq Nat, NEW q \in outstanding, q # Head(toClient).put
  PROVE  Head(toClient).put < q
<1>1. /\ CanSendWrites /\ Head(toClient).put \in PutsIn(toClient)
      /\ PutsIn(Tail(toClient)) = PutsIn(toClient) \ {Head(toClient).put}
      /\ \A p \in PutsIn(Tail(toClient)) : Head(toClient).put < p
  BY FirstAnswer
<1>2. q \in PutsIn(toServer) \/ q \in PutsIn(toClient)
  BY <1>1 DEF UnderWay, PutsUnderWay
<1>3. CASE q \in PutsIn(toClient)
  BY <1>1, <1>3
<1>4. CASE q \in PutsIn(toServer)
  <2>1. q \in cursor + 1 .. Len(writes) /\ Head(toClient).put \in 1 .. cursor /\ cursor \in Nat
    BY <1>1, <1>4, PutTypes DEF UnderWay, PutsOrdered
  <2>2. QED BY <2>1
<1>5. QED BY <1>2, <1>3, <1>4

LEMMA ReceivePutReplays ==
  ASSUME LinkInv, PutsInv, ~crashed, ReceivePut PROVE PutsInv' /\ Replays
<1> DEFINE m == Head(toClient)
           p == Head(toClient).put
           S == outstanding \cup Held
<1>1. /\ toClient # <<>> /\ m.type = "put" /\ toClient' = Tail(toClient)
      /\ outstanding' = outstanding \ {p}
      /\ putsToAck' = IF p \in outstanding /\ unacked # 0 THEN Append(putsToAck, m) ELSE putsToAck
      /\ UNCHANGED <<conn, toServer, cursor, handled, writes>>
      /\ Acknowledge(AckNow, view)
  BY DEF ReceivePut, PutAnswered, server
<1>2. Books /\ UnderWay
  BY BooksAndWires
<1>3. UnderWay'
  BY <1>1, <1>2, ArrivalUnderWay
<1>4. /\ S \subseteq 1 .. Len(writes) /\ outstanding \cap Held = {} /\ Held \subseteq handled
      /\ IsWire(putsToAck) /\ Len(putsToAck) \in Nat /\ DOMAIN putsToAck = 1 .. Len(putsToAck)
      /\ \A h \in Held, q \in outstanding : h < q
      /\ \A i, j \in DOMAIN putsToAck : i < j => putsToAck[i].put < putsToAck[j].put
      /\ IsWire(writes) /\ Len(writes) \in Nat
  BY <1>2, WireFacts DEF Books, PutsPending
<1>5. CanSendWrites /\ p \in PutsIn(toClient) /\ p \in handled
  BY <1>1, <1>2, FirstAnswer DEF UnderWay, PutsOrdered
<1>6. \A q \in outstanding : q # p => p < q
  BY <1>1, <1>2, <1>4, OthersLater
<1> HIDE DEF p, S
<1>7. CASE p \notin outstanding
  <2>1. AckNow = <<>> /\ outstanding' = outstanding /\ putsToAck' = putsToAck
    BY <1>1, <1>7 DEF AckNow, p
  <2>2. Lists(allWrites', S) /\ ~crashed'
    BY <1>1, <1>2, <2>1, NoneAcknowledged DEF S
  <2>3. Held' = Held
    BY <2>1 DEF Held
  <2>4. Books'
    BY <1>1, <1>4, <2>1, <2>2, <2>3 DEF Books, PutsPending, Lists, S
  <2>5. UNCHANGED R!replayVars
    BY <1>1, <2>1, <2>2, NothingNew
  <2>6. QED BY <1>3, <2>2, <2>4, <2>5, BooksAndWiresPrimed DEF Replays
<1>8. CASE p \in outstanding /\ unacked # 0
  <2>1. AckNow = <<>> /\ putsToAck' = Append(putsToAck, m)
    BY <1>1, <1>8 DEF AckNow, p
  <2>2. Lists(allWrites', S) /\ ~crashed'
    BY <1>1, <1>2, <2>1, NoneAcknowledged DEF S
  <2> DEFINE n == Len(putsToAck)
  <2>3. /\ IsWire(putsToAck') /\ DOMAIN putsToAck' = 1 .. n + 1
        /\ \A i \in 1 .. n : putsToAck'[i] = putsToAck[i]
        /\ putsToAck'[n + 1] = m
    <3>1. IsWire(putsToAck')
      BY <1>4, <2>1, Appended
    <3>2. QED BY <1>4, <2>1, <3>1, SMTT(30) DEF IsWire
  <2>4. n \in Nat /\ DOMAIN putsToAck = 1 .. n
    BY <1>4
  <2> HIDE DEF n, m
  <2>5. Held' = Held \cup {p}
    <3>1. \A i \in 1 .. n + 1 : i \in 1 .. n \/ i = n + 1
      BY <2>4
    <3>2. ASSUME NEW i \in 1 .. n + 1 PROVE putsToAck'[i].put \in Held \cup {p}
      BY <2>3, <2>4, <3>1 DEF Held, p, m
    <3>3. ASSUME NEW h \in Held PROVE \E i \in 1 .. n + 1 : putsToAck'[i].put = h
      <4>1. PICK i \in 1 .. n : putsToAck[i].put = h
        BY <2>4 DEF Held
      <4>2. i \in 1 .. n + 1 /\ putsToAck'[i].put = h
        BY <2>3, <2>4, <4>1
      <4>3. QED BY <4>2
    <3>4. n + 1 \in 1 .. n + 1 /\ putsToAck'[n + 1].put = p
      BY <2>3, <2>4 DEF p, m
    <3>5. Held' = {putsToAck'[i].put : i \in 1 .. n + 1}
      BY <2>3 DEF Held
    <3>6. QED BY <3>2, <3>3, <3>4, <3>5
  <2>6. outstanding' \cup Held' = S
    BY <1>1, <1>8, <2>5 DEF S, p
  <2>7. outstanding' \cap Held' = {} /\ Held' \subseteq handled
    BY <1>1, <1>4, <1>5, <2>5 DEF p
  <2>8. \A h \in Held', q \in outstanding' : h < q
    BY <1>1, <1>4, <1>6, <2>5 DEF p
  <2>9. ASSUME NEW i \in 1 .. n + 1, NEW j \in 1 .. n + 1, i < j
        PROVE  putsToAck'[i].put < putsToAck'[j].put
    <3>1. i \in 1 .. n /\ (j \in 1 .. n \/ j = n + 1)
      BY <2>4, <2>9
    <3>2. CASE j \in 1 .. n
      BY <1>4, <2>3, <2>4, <2>9, <3>1, <3>2
    <3>3. CASE j = n + 1
      <4>1. putsToAck[i].put \in Held
        BY <2>4, <3>1 DEF Held
      <4>2. putsToAck[i].put < p
        BY <1>4, <1>8, <4>1
      <4>3. QED BY <2>3, <3>1, <3>3, <4>2 DEF p, m
    <3>4. QED BY <3>1, <3>2, <3>3
  <2>10. Lists(allWrites, outstanding \cup Held)'
    BY <2>2, <2>6 DEF Lists
  <2>11. Books'
    BY <1>1, <1>4, <2>2, <2>3, <2>6, <2>7, <2>8, <2>9, <2>10 DEF Books, PutsPending, Lists, S
  <2>12. UNCHANGED R!replayVars
    BY <1>1, <2>2, <2>6 DEF R!replayVars, S
  <2>13. QED BY <1>3, <2>2, <2>11, <2>12, BooksAndWiresPrimed DEF Replays
<1>9. CASE p \in outstanding /\ unacked = 0
  <2>1. AckNow = <<m>> /\ putsToAck' = putsToAck
    BY <1>1, <1>9 DEF AckNow, p
  <2>2. putsToAck = <<>>
    BY <1>5, <1>9 DEF LinkInv, AcksReleased
  <2>3. Held = {} /\ Held' = {} /\ S = outstanding
    <3>1. DOMAIN putsToAck = {} /\ DOMAIN putsToAck' = {}
      BY <2>1, <2>2
    <3>2. QED BY <3>1 DEF Held, S
  <2>4. Lists(allWrites', outstanding') /\ ~crashed'
    <3>1. /\ DOMAIN <<m>> = 1 .. 1 /\ <<m>>[1].put = p
          /\ {<<m>>[i].put : i \in 1 .. 1} = {p}
      BY DEF p
    <3>2. /\ \A i \in 1 .. 1 : <<m>>[i].put \in outstanding \cup Held
          /\ \A i, j \in 1 .. 1 : i < j => <<m>>[i].put # <<m>>[j].put
      BY <1>9, <3>1
    <3> HIDE DEF m
    <3>3. Acknowledge(<<m>>, view)
      BY <1>1, <2>1
    <3>4. /\ Lists(allWrites', (outstanding \cup Held) \ {<<m>>[i].put : i \in 1 .. 1})
          /\ ~crashed'
      BY <1>2, <3>1, <3>2, <3>3, Acknowledged
    <3>5. QED BY <1>1, <2>3, <3>1, <3>4 DEF p
  <2>5. Lists(allWrites, outstanding \cup Held)'
    BY <2>3, <2>4 DEF Lists
  <2>6. Books'
    BY <1>1, <1>4, <2>1, <2>2, <2>3, <2>4, <2>5 DEF Books, PutsPending, Lists, S
  <2>7. R!Tell(p)
    <3>1. p \in 1 .. Len(writes) /\ p \in Nat
      BY <1>4, <1>9 DEF S
    <3>2. \A q \in 1 .. p : q \in outstanding => q = p
      BY <1>4, <1>6, <3>1 DEF S
    <3>3. \A q \in 1 .. p : q \in 1 .. Len(writes)
      BY <1>4, <3>1
    <3> DEFINE over == (1 .. Len(writes)) \ outstanding
    <3>4. p \in handled \ over /\ (1 .. p) \ over \subseteq handled
      BY <1>5, <1>9, <3>2, <3>3
    <3>5. (1 .. Len(writes)) \ (outstanding \ {p}) = over \cup 1 .. p
      BY <3>1, <3>2, <3>3
    <3>6. over = (1 .. Len(writes)) \ (outstanding \cup Held)
      BY <2>3
    <3> HIDE DEF over
    <3>7. QED BY <1>1, <2>3, <2>4, <3>4, <3>5, <3>6 DEF R!Tell, p
  <2>8. p \in 1 .. Len(writes)
    BY <1>4, <1>9 DEF S
  <2>9. QED BY <1>3, <2>4, <2>6, <2>7, <2>8, BooksAndWiresPrimed DEF Replays, R!Next
<1>10. QED BY <1>7, <1>8, <1>9

LEMMA ReceiveListenReplays ==
  ASSUME LinkInv, PutsInv, ~crashed, ReceiveListen PROVE PutsInv' /\ Replays
<1>1. /\ toClient # <<>> /\ Head(toClient).type # "put" /\ toClient' = Tail(toClient)
      /\ unacked' = unacked - 1 /\ putsToAck' = IF unacked' = 0 THEN <<>> ELSE putsToAck
      /\ UNCHANGED <<conn, outstanding, toServer, cursor, handled, writes>>
      /\ \E v : Acknowledge(AckPuts, v)
  BY DEF ReceiveListen, ListenAnswered, server
<1>2. PICK v : Acknowledge(AckPuts, v)
  BY <1>1
<1>3. Books /\ UnderWay
  BY BooksAndWires
<1>4. UnderWay'
  <2>1. Alike(toClient, toClient')
    BY <1>1, ArrivesAlike
  <2>2. QED BY <1>1, <1>3, <2>1, AlikeItself, WiresKept DEF CanSendWrites
<1>5. /\ outstanding \cup Held \subseteq 1 .. Len(writes) /\ Held \subseteq handled
      /\ outstanding \cap Held = {}
      /\ IsWire(putsToAck) /\ Len(putsToAck) \in Nat /\ DOMAIN putsToAck = 1 .. Len(putsToAck)
      /\ \A h \in Held, q \in outstanding : h < q
      /\ \A i, j \in DOMAIN putsToAck : i < j => putsToAck[i].put < putsToAck[j].put
      /\ IsWire(writes) /\ Len(writes) \in Nat
  BY <1>3, WireFacts DEF Books, PutsPending
<1>6. unacked \in Nat
  BY DEF LinkInv, LinkTypeOK
<1>7. CASE unacked # 1 \/ putsToAck = <<>>
  <2>1. AckPuts = <<>> /\ putsToAck' = putsToAck
    BY <1>1, <1>6, <1>7 DEF AckPuts
  <2>2. Lists(allWrites', outstanding \cup Held) /\ ~crashed'
    BY <1>2, <1>3, <2>1, NoneAcknowledged
  <2>3. Held' = Held
    BY <2>1 DEF Held
  <2>4. Books'
    BY <1>1, <1>5, <2>1, <2>2, <2>3 DEF Books, PutsPending, Lists
  <2>5. UNCHANGED R!replayVars
    BY <1>1, <2>1, <2>2, NothingNew
  <2>6. QED BY <1>4, <2>2, <2>4, <2>5, BooksAndWiresPrimed DEF Replays
<1>8. CASE unacked = 1 /\ putsToAck # <<>>
  <2> DEFINE n == Len(putsToAck)
             w == putsToAck[n].put
  <2>1. AckPuts = putsToAck /\ putsToAck' = <<>>
    BY <1>1, <1>8 DEF AckPuts
  <2>2. n \in Nat /\ n # 0 /\ DOMAIN putsToAck = 1 .. n
    BY <1>5, <1>8 DEF IsWire
  <2>3. /\ Held = {putsToAck[i].put : i \in 1 .. n} /\ Held \subseteq Nat
        /\ w \in Held /\ \A h \in Held : h <= w
    <3>1. Held = {putsToAck[i].put : i \in 1 .. n}
      BY <2>2 DEF Held
    <3>2. \A h \in Held : h \in Nat
      BY <1>5
    <3>3. n \in 1 .. n /\ w \in Held
      BY <2>2, <3>1
    <3>4. ASSUME NEW h \in Held PROVE h <= w
      <4>1. PICK i \in 1 .. n : putsToAck[i].put = h
        BY <3>1
      <4>2. CASE i = n
        BY <3>2, <4>1, <4>2
      <4>3. CASE i < n
        <5>1. h < w
          BY <1>5, <2>2, <3>3, <4>1, <4>3
        <5>2. QED BY <3>2, <3>3, <5>1
      <4>4. i = n \/ i < n
        <5>1. i \in Nat /\ i <= n
          BY <2>2
        <5> HIDE DEF n
        <5>2. QED BY <2>2, <5>1
      <4>5. QED BY <4>2, <4>3, <4>4
    <3>5. QED BY <3>1, <3>2, <3>3, <3>4
  <2>4. Held' = {}
    <3>1. DOMAIN putsToAck' = {}
      BY <2>1
    <3>2. QED BY <3>1 DEF Held
  <2> HIDE DEF n, w
  <2>5. Lists(allWrites', outstanding) /\ ~crashed'
    <3>1. \A i \in 1 .. n : putsToAck[i].put \in outstanding \cup Held
      BY <2>3
    <3>2. ASSUME NEW i \in 1 .. n, NEW j \in 1 .. n, i < j PROVE putsToAck[i].put # putsToAck[j].put
      <4>1. putsToAck[i].put < putsToAck[j].put /\ putsToAck[i].put \in Nat
        BY <1>5, <2>2, <2>3, <3>2
      <4>2. QED BY <4>1
    <3>3. Acknowledge(putsToAck, v)
      BY <1>2, <2>1
    <3>4. /\ Lists(allWrites', (outstanding \cup Held) \ {putsToAck[i].put : i \in 1 .. n})
          /\ ~crashed'
      BY <1>3, <2>2, <3>1, <3>2, <3>3, Acknowledged
    <3>5. (outstanding \cup Held) \ {putsToAck[i].put : i \in 1 .. n} = outstanding
      BY <1>5, <2>3
    <3>6. QED BY <3>4, <3>5
  <2>6. Lists(allWrites, outstanding \cup Held)'
    BY <1>1, <2>4, <2>5 DEF Lists
  <2>7. Books'
    BY <1>1, <1>5, <2>1, <2>4, <2>5, <2>6, EmptyWire DEF Books, PutsPending, Lists
  <2>8. R!Tell(w)
    <3> DEFINE over == (1 .. Len(writes)) \ (outstanding \cup Held)
    <3>1. w \in 1 .. Len(writes) /\ w \in handled /\ w \notin over
      BY <1>5, <2>3
    <3>2. ASSUME NEW q \in 1 .. w PROVE q \in 1 .. Len(writes) /\ q \notin outstanding
      <4>1. q \in 1 .. Len(writes) /\ q <= w
        BY <1>5, <3>1
      <4>2. ASSUME q \in outstanding PROVE FALSE
        <5>1. w < q
          BY <1>5, <2>3, <4>2
        <5>2. QED BY <3>1, <4>1, <5>1
      <4>3. QED BY <4>1, <4>2
    <3>3. (1 .. w) \ over \subseteq handled
      BY <1>5, <3>2
    <3>4. Held \subseteq 1 .. w
      <4>1. ASSUME NEW h \in Held PROVE h \in 1 .. w
        <5>1. h \in 1 .. Len(writes) /\ h <= w
          BY <1>5, <2>3
        <5>2. QED BY <3>1, <5>1
      <4>2. QED BY <4>1
    <3>5. (1 .. Len(writes)) \ outstanding = over \cup 1 .. w
      BY <3>2, <3>4
    <3> HIDE DEF over
    <3>6. QED BY <1>1, <2>4, <2>5, <3>1, <3>3, <3>5 DEF R!Tell, over
  <2>9. w \in 1 .. Len(writes)
    BY <1>5, <2>3
  <2>10. QED BY <1>4, <2>5, <2>7, <2>8, <2>9, BooksAndWiresPrimed DEF Replays, R!Next, R!Tell
<1>9. QED BY <1>7, <1>8

-----------------------------------------------------------------------------
(* The server handles a put.                                               *)

LEMMA NextPutFirst ==
  ASSUME LinkInv, UnderWay, NEW i \in NextPut
  PROVE  /\ i \in DOMAIN toServer /\ toServer[i].type = "put"
         /\ toServer[i].put \in PutsIn(toServer) /\ CanSendWrites
         /\ PutsIn(RemoveAt(toServer, i)) = PutsIn(toServer) \ {toServer[i].put}
         /\ InOrder(RemoveAt(toServer, i)) /\ Restores(RemoveAt(toServer, i)) = {}
         /\ \A q \in PutsIn(RemoveAt(toServer, i)) : toServer[i].put < q
<1>1. /\ i \in DOMAIN toServer /\ toServer[i].type = "put"
      /\ DOMAIN toServer = 1 .. Len(toServer) /\ Len(toServer) \in Nat
  BY WiresAre, WireFacts DEF NextPut
<1>2. toServer[i].put \in PutsIn(toServer)
  BY <1>1 DEF PutsIn
<1>3. CanSendWrites
  BY <1>2 DEF UnderWay, PutsUnderWay
<1>4. InOrder(toServer) /\ PutsIn(toServer) \subseteq Nat /\ Restores(toServer) = {}
  BY <1>3, PutTypes DEF UnderWay, PutsOrdered, PutsUnderWay
<1>5. /\ PutsIn(RemoveAt(toServer, i)) = PutsIn(toServer) \ {toServer[i].put}
      /\ InOrder(RemoveAt(toServer, i)) /\ Restores(RemoveAt(toServer, i)) = {}
  BY <1>1, <1>4, WiresAre, PutsTaken
<1>6. ASSUME NEW q \in PutsIn(RemoveAt(toServer, i)) PROVE toServer[i].put < q
  <2>1. PICK j \in DOMAIN toServer : toServer[j].type = "put" /\ toServer[j].put = q
    BY <1>5 DEF PutsIn
  <2>2. j # i
    BY <1>5, <2>1
  <2>3. ~(j < i)
    <3>1. ASSUME j < i PROVE FALSE
      <4>1. j \in 1 .. i - 1
        BY <1>1, <3>1
      <4>2. toServer[j].type \in {"listen", "unlisten"}
        BY <4>1 DEF NextPut
      <4>3. QED BY <2>1, <4>2
    <3>2. QED BY <3>1
  <2>4. i < j
    BY <1>1, <2>2, <2>3
  <2>5. QED BY <1>1, <1>4, <2>1, <2>4 DEF InOrder
<1>7. QED BY <1>1, <1>2, <1>3, <1>5, <1>6

LEMMA ServerPutReplays ==
  ASSUME LinkInv, PutsInv, ~crashed, NEW ok, ServerPut(ok) PROVE PutsInv' /\ Replays
<1>1. PICK i \in NextPut :
        /\ ServePut(i, IF ok THEN Push(writes[toServer[i].put]) ELSE <<>>, ok)
        /\ UNCHANGED <<writes, allWrites, crashed>>
  BY DEF ServerPut
<1> DEFINE p == toServer[i].put
           a == [type |-> "put", put |-> p, ok |-> ok]
           w == IF ok THEN Push(writes[toServer[i].put]) ELSE <<>>
           v == toClient \o w
<1>2. /\ a.type = "put" /\ a.put = p /\ toClient' = v \o <<a>>
      /\ toServer' = RemoveAt(toServer, i)
      /\ cursor' = p /\ handled' = handled \cup {p}
      /\ UNCHANGED <<conn, outstanding, putsToAck>>
  BY <1>1 DEF ServePut, Take
<1>3. Pushes(w)
  <2>1. Pushes(Push(writes[toServer[i].put])) /\ Pushes(<<>>)
    BY PushIsData DEF Pushes
  <2>2. QED BY <2>1
<1> HIDE DEF a, w
<1>4. Books /\ UnderWay
  BY BooksAndWires
<1>5. IsWire(v) /\ Alike(toClient, v)
  BY <1>3, WiresAre, AlikePushed
<1> HIDE DEF v
<1>6. /\ p \in PutsIn(toServer) /\ CanSendWrites
      /\ PutsIn(toServer') = PutsIn(toServer) \ {p}
      /\ InOrder(toServer') /\ Restores(toServer') = {}
      /\ \A q \in PutsIn(toServer') : p < q
  BY <1>2, <1>4, NextPutFirst
<1>7. /\ PutsIn(toServer) \subseteq cursor + 1 .. Len(writes) /\ cursor \in 0 .. Len(writes)
      /\ PutsIn(toClient) \subseteq 1 .. cursor /\ PutsIn(toClient) \subseteq handled
      /\ InOrder(toClient) /\ Restores(toClient) = {}
      /\ outstanding \subseteq PutsIn(toServer) \cup PutsIn(toClient)
      /\ Len(writes) \in Nat
  BY <1>4, <1>6, WireFacts DEF UnderWay, PutsOrdered, PutsUnderWay, Books, PutsPending
<1> HIDE DEF p
<1>8. p \in cursor + 1 .. Len(writes) /\ p \in Nat /\ cursor < p /\ cursor \in Nat
  BY <1>6, <1>7
<1>9. PutsIn(v) = PutsIn(toClient) /\ InOrder(v) /\ Restores(v) = {}
  BY <1>5, <1>7 DEF Alike
<1>10. /\ PutsIn(toClient') = PutsIn(toClient) \cup {p}
       /\ InOrder(toClient') /\ Restores(toClient') = {}
  <2>1. IsWire(<<a>>) /\ InOrder(<<a>>) /\ PutsIn(<<a>>) = {p} /\ Restores(<<a>>) = {}
    BY <1>2, Single, PutAlone
  <2>2. \A q \in PutsIn(v) : q < p
    BY <1>7, <1>8, <1>9
  <2>3. /\ PutsIn(v \o <<a>>) = PutsIn(v) \cup PutsIn(<<a>>)
        /\ InOrder(v \o <<a>>)
        /\ Restores(v \o <<a>>) = Restores(v)
    BY <1>5, <1>9, <2>1, <2>2, PutsJoined
  <2>4. QED BY <1>2, <1>9, <2>1, <2>3
<1>11. UnderWay'
  <2>1. PutsIn(toServer') \subseteq cursor' + 1 .. Len(writes')
    BY <1>1, <1>2, <1>6, <1>7, <1>8
  <2>2. PutsIn(toClient') \subseteq 1 .. cursor' /\ PutsIn(toClient') \subseteq handled'
    BY <1>2, <1>7, <1>8, <1>10
  <2>3. cursor' \in 0 .. Len(writes')
    BY <1>1, <1>2, <1>7, <1>8
  <2>4. PutsOrdered'
    BY <1>6, <1>10, <2>1, <2>2, <2>3 DEF PutsOrdered
  <2>5. PutsUnderWay'
    BY <1>2, <1>6, <1>7, <1>10 DEF PutsUnderWay, CanSendWrites
  <2>6. QED BY <2>4, <2>5 DEF UnderWay
<1>12. Books'
  BY <1>1, <1>2, <1>4, BooksKept
<1>13. R!Handle(p)
  <2> DEFINE over == (1 .. Len(writes)) \ (outstanding \cup Held)
  <2>1. Held' = Held /\ Held \subseteq handled
    BY <1>2, <1>4 DEF Held, Books, PutsPending
  <2>2. ASSUME NEW q \in cursor + 1 .. p - 1 PROVE q \in handled \cup over
    <3>1. q \in 1 .. Len(writes) /\ q < p /\ cursor < q
      BY <1>7, <1>8
    <3>2. q \notin PutsIn(toClient)
      BY <1>7, <1>8, <3>1
    <3>3. q \notin PutsIn(toServer)
      <4>1. ASSUME q \in PutsIn(toServer) PROVE FALSE
        <5>1. p < q
          BY <1>6, <3>1, <4>1
        <5>2. QED BY <1>8, <3>1, <5>1
      <4>2. QED BY <4>1
    <3>4. q \notin outstanding
      BY <1>7, <3>2, <3>3
    <3>5. QED BY <2>1, <3>1, <3>4
  <2>3. cursor + 1 .. p - 1 \subseteq handled \cup over
    BY <2>2
  <2> HIDE DEF over
  <2>4. QED BY <1>1, <1>2, <1>8, <2>1, <2>3 DEF R!Handle, over
<1>14. p \in 1 .. Len(writes)
  BY <1>7, <1>8
<1>15. QED BY <1>1, <1>11, <1>12, <1>13, <1>14, BooksAndWiresPrimed DEF Replays, R!Next

-----------------------------------------------------------------------------
(* Every step keeps the invariant and is a step of Replay.                 *)

LEMMA StepReplays == ASSUME LinkInv, PutsInv, Next PROVE PutsInv' /\ Replays
<1> ~crashed
  BY DEF Next
<1>1. CASE User
  <2>1. CASE Observe
    BY <2>1, StartListenReplays DEF Observe
  <2>2. CASE RemoveObserver
    BY <2>2, UnlistenReplays DEF RemoveObserver
  <2>3. CASE Purge
    BY <2>3, PurgeReplays
  <2>4. CASE \E s \in Scripts : Write(s)
    BY <2>4, WriteReplays
  <2>5. QED BY <1>1, <2>1, <2>2, <2>3, <2>4 DEF User
<1>2. CASE Receive
  BY <1>2, ReceivePutReplays, ReceiveListenReplays, ReceiveDataReplays, ReceiveRevokedReplays,
     AuthAnsweredReplays DEF Receive, ReceiveAuth
<1>3. CASE ServerStep
  BY <1>3, ServerPutReplays, ServerListenReplays, ServeAuthReplays, ServeSilentReplays
     DEF ServerStep
<1>4. CASE Refuse
  BY <1>4, ServerPutReplays, ServerListenReplays, ServeAuthReplays, RevokeReplays DEF Refuse
<1>5. CASE Connect
  BY <1>5, RetryFiresReplays, ReadyReplays, TokenFetchedReplays DEF Connect
<1>6. CASE Trouble
  BY <1>6, TokenFailedReplays, ConnectionLostReplays, RefreshAuthTokenReplays, InterruptReplays
     DEF Trouble
<1>7. CASE GoOnline
  BY <1>7, ResumeReplays DEF GoOnline
<1>8. CASE \E f \in foreign : OtherClient(f[1], f[2])
  BY <1>8, OtherClientReplays
<1>9. QED BY <1>1, <1>2, <1>3, <1>4, <1>5, <1>6, <1>7, <1>8 DEF Next

LEMMA StutterReplays == ASSUME PutsInv, UNCHANGED vars PROVE PutsInv' /\ Replays
<1>1. UNCHANGED <<writes, allWrites, outstanding, putsToAck, cursor, handled, crashed, conn,
                  toServer, toClient>>
  BY DEF vars, linkVars, dataVars, server, wires
<1>2. CASE crashed
  BY <1>1, <1>2, NothingNew DEF PutsInv, PendingExact, Replays
<1>3. CASE ~crashed
  BY <1>1, <1>3, QuietHolds, AlikeItself DEF CanSendWrites
<1>4. QED BY <1>2, <1>3

LEMMA InitReplays == ASSUME Init PROVE PutsInv /\ R!Init
<1>1. /\ outstanding = {} /\ putsToAck = <<>> /\ toServer = <<>> /\ toClient = <<>>
      /\ cursor = 0 /\ handled = {} /\ writes = <<>> /\ allWrites = <<>> /\ ~crashed
      /\ ~CanSendWrites
  BY DEF Init, LinkInit, CanSendWrites
<1>2. DOMAIN putsToAck = {} /\ DOMAIN allWrites = {} /\ Len(writes) = 0
  BY <1>1
<1>3. Held = {}
  BY <1>2 DEF Held
<1>4. Books
  BY <1>1, <1>2, <1>3, EmptyWire DEF Books, PutsPending, Lists
<1>5. UnderWay
  BY <1>1, <1>2, NoPuts DEF UnderWay, PutsOrdered, PutsUnderWay
<1>6. R!Init
  BY <1>1, <1>2, <1>3 DEF R!Init
<1>7. QED BY <1>1, <1>4, <1>5, <1>6, BooksAndWires

-----------------------------------------------------------------------------
(* The tree and the view, as answers come in the order of the writes.      *)

Named(all) == [i \in DOMAIN all |-> writes[all[i]]]

\* What ackWrite works on: the tree is the layering of the writes, and a view
\* shows it over data that it knows completely.
Good(s) ==
  /\ s.vis = LayerTree(Named(s.all))
  /\ s.view \in ViewRecord
  /\ s.view.on => Shows(s.view, s.vis) /\ s.view.full

LEMMA NamedRest ==
  ASSUME NEW all, NEW S \in SUBSET Nat, Lists(all, S), NEW i \in DOMAIN all
  PROVE  Named(RemoveAt(all, i)) = RemoveAt(Named(all), i)
<1> DEFINE u == Named(all)
           v == RemoveAt(all, i)
           w == RemoveAt(u, i)
           n == Len(all)
<1>1. /\ IsWire(all) /\ n \in Nat /\ DOMAIN all = 1 .. n /\ i \in 1 .. n
      /\ DOMAIN v = 1 .. n - 1
      /\ \A j \in 1 .. i - 1 : v[j] = all[j]
      /\ \A j \in i .. n - 1 : v[j] = all[j + 1]
  BY RemovedAt DEF Lists
<1>2. DOMAIN u = 1 .. n /\ \A j \in 1 .. n : u[j] = writes[all[j]]
  BY <1>1 DEF Named
<1>3. IsWire(u) /\ Len(u) = n
  <2>1. u \in Seq({u[j] : j \in 1 .. n})
    BY <1>1 DEF Named
  <2>2. Len(u) = n
    BY <1>1, <1>2, <2>1
  <2>3. QED BY <2>1, <2>2, SeqIsWire
<1> HIDE DEF u
<1>4. /\ DOMAIN w = 1 .. n - 1
      /\ \A j \in 1 .. i - 1 : w[j] = u[j]
      /\ \A j \in i .. n - 1 : w[j] = u[j + 1]
  BY <1>1, <1>2, <1>3, RemovedAt
<1>5. IsWire(w)
  BY <1>1, <1>2, <1>3, Taken
<1> HIDE DEF n, v, w
<1>6. ASSUME NEW j \in 1 .. n - 1 PROVE w[j] = writes[v[j]]
  <2>1. j \in 1 .. i - 1 \/ j \in i .. n - 1
    BY <1>1
  <2>2. CASE j \in 1 .. i - 1
    <3>1. j \in 1 .. n
      BY <1>1
    <3>2. QED BY <1>1, <1>2, <1>4, <2>2, <3>1
  <2>3. CASE j \in i .. n - 1
    <3>1. j + 1 \in 1 .. n
      BY <1>1
    <3>2. QED BY <1>1, <1>2, <1>4, <2>3, <3>1
  <2>4. QED BY <2>1, <2>2, <2>3
<1>7. w = [j \in 1 .. n - 1 |-> w[j]]
  <2>1. w = [j \in DOMAIN w |-> w[j]]
    BY <1>5 DEF IsWire
  <2>2. QED BY <1>4, <2>1
<1>8. [j \in 1 .. n - 1 |-> w[j]] = [j \in 1 .. n - 1 |-> writes[v[j]]]
  BY <1>6
<1>9. QED BY <1>1, <1>7, <1>8 DEF Named, u, v, w

LEMMA NamedWrites ==
  ASSUME NEW all, NEW S \in SUBSET Nat, Lists(all, S), \A p \in S : writes[p] \in WriteRecord
  PROVE  /\ Len(all) \in Nat /\ DOMAIN Named(all) = 1 .. Len(all)
         /\ \A i \in 1 .. Len(all) : Named(all)[i] \in WriteRecord
         /\ Len(Named(all)) = Len(all) /\ LayerTree(Named(all)) \in Tree
<1>1. Len(all) \in Nat /\ DOMAIN all = 1 .. Len(all)
  BY WireFacts DEF Lists
<1>2. \A i \in 1 .. Len(all) : all[i] \in S
  BY <1>1 DEF Lists
<1>3. DOMAIN Named(all) = 1 .. Len(all) /\ \A i \in 1 .. Len(all) : Named(all)[i] = writes[all[i]]
  BY <1>1 DEF Named
<1>4. Len(Named(all)) = Len(all)
  BY <1>1, <1>3
<1>5. \A i \in 1 .. Len(all) : Named(all)[i] \in WriteRecord
  BY <1>2, <1>3
<1>6. LayerTree(Named(all)) \in Tree
  BY <1>1, <1>3, <1>5, LayerTreeIsTree
<1>7. QED BY <1>1, <1>3, <1>4, <1>5, <1>6

\* The answer to the first of the writes.
LEMMA AckFirst ==
  ASSUME NEW s, IsTree(s), Good(s), NEW S \in SUBSET Nat, Lists(s.all, S),
         \A p \in S : writes[p] \in WriteRecord,
         NEW m, m.put \in S, \A p \in S : m.put <= p
  PROVE  Good(AckWrite(s, m)) /\ Same(AckWrite(s, m).view, s.view)
<1> DEFINE at == {i \in DOMAIN s.all : s.all[i] = m.put}
           all == Named(s.all)
           rest == Named(RemoveAt(s.all, 1))
           w == writes[m.put]
           n == Len(s.all)
           v == IF ~s.view.on \/ Shadowed(all, 1) THEN s.view
                ELSE IF m.ok THEN AckUserWrite(s.view, LayerTree(rest), w)
                ELSE RevertUserWrite(s.view, LayerTree(rest), w.at)
<1>1. at = {1} /\ (CHOOSE j \in at : TRUE) = 1
  <2>1. PICK i \in DOMAIN s.all : s.all[i] = m.put
    BY DEF Lists
  <2>2. DOMAIN s.all = 1 .. n /\ n \in Nat
    BY WireFacts DEF Lists
  <2>3. i = 1
    <3>1. SUFFICES ASSUME i # 1 PROVE FALSE
      OBVIOUS
    <3>2. 1 \in DOMAIN s.all /\ 1 < i
      BY <2>2, <3>1
    <3>3. s.all[1] < s.all[i] /\ s.all[1] \in S
      BY <3>2 DEF Lists
    <3>4. m.put <= s.all[1] /\ s.all[1] \in Nat /\ m.put \in Nat
      BY <3>3
    <3>5. QED BY <2>1, <3>3, <3>4
  <2>4. \A j \in DOMAIN s.all : s.all[j] = m.put => j = 1
    <3>1. SUFFICES ASSUME NEW j \in DOMAIN s.all, s.all[j] = m.put, j # 1 PROVE FALSE
      OBVIOUS
    <3>2. 1 < j
      BY <2>2, <3>1
    <3>3. s.all[1] < s.all[j]
      BY <2>1, <2>3, <3>2 DEF Lists
    <3>4. m.put \in Nat
      OBVIOUS
    <3>5. QED BY <2>1, <2>3, <3>1, <3>3, <3>4
  <2>5. QED BY <2>1, <2>3, <2>4
<1>2. 1 \in DOMAIN s.all /\ s.all[1] = m.put
  BY <1>1
<1>3. rest = RemoveAt(all, 1)
  BY <1>2, NamedRest
<1>4. n \in Nat /\ n # 0 /\ DOMAIN s.all = 1 .. n
  BY <1>2, WireFacts DEF Lists
<1>5. Lists(RemoveAt(s.all, 1), S \ {m.put})
  BY <1>2, Unlisted
<1>6. /\ DOMAIN all = 1 .. n /\ Len(all) = n /\ \A i \in 1 .. n : all[i] \in WriteRecord
      /\ LayerTree(all) \in Tree /\ LayerTree(rest) \in Tree
  BY <1>5, NamedWrites
<1>7. all[1] = w
  BY <1>2 DEF Named
<1>8. Rest(rest, all, n)
  <2>1. /\ DOMAIN RemoveAt(s.all, 1) = 1 .. n - 1
        /\ \A i \in 1 .. n - 1 : RemoveAt(s.all, 1)[i] = s.all[i + 1] /\ i + 1 \in DOMAIN s.all
    BY <1>2, <1>4, RemovedAt DEF Lists
  <2>2. DOMAIN rest = 1 .. n - 1 /\ \A i \in 1 .. n - 1 : rest[i] = all[i + 1]
    BY <2>1 DEF Named
  <2> HIDE DEF rest, all, n
  <2>3. QED BY <1>6, <2>2 DEF Rest
<1>9. RemoveWrite(all, s.vis, 1) = LayerTree(rest)
  BY <1>3, <1>4, <1>8, FirstRemoved DEF Good
<1>10. AckWrite(s, m) = [all |-> RemoveAt(s.all, 1), vis |-> LayerTree(rest), view |-> v, stray |-> s.stray]
  <2>1. AckWrite(s, m) = [s EXCEPT !.all = RemoveAt(s.all, 1),
                            !.vis = RemoveWrite(all, s.vis, 1),
                            !.view = IF ~s.view.on \/ Shadowed(all, 1) THEN s.view
                                     ELSE IF m.ok THEN AckUserWrite(s.view, RemoveWrite(all, s.vis, 1), w)
                                     ELSE RevertUserWrite(s.view, RemoveWrite(all, s.vis, 1), w.at)]
    BY <1>1, Zenon DEF AckWrite, Named
  <2> HIDE DEF all, rest, w
  <2>2. AckWrite(s, m) = [s EXCEPT !.all = RemoveAt(s.all, 1), !.vis = LayerTree(rest), !.view = v]
    BY <1>9, <2>1
  <2> HIDE DEF v
  <2>3. QED BY <2>2 DEF IsTree
<1> HIDE DEF at, n, w
<1>11. v \in ViewRecord /\ (v.on => Shows(v, LayerTree(rest)) /\ v.full) /\ Same(v, s.view)
  <2>1. CASE ~s.view.on
    BY <2>1 DEF Good, Same, Like
  <2>2. CASE s.view.on /\ Shadowed(all, 1)
    <3>1. LayerTree(rest) = LayerTree(all)
      BY <1>4, <1>8, <2>2, ShadowedFirst
    <3>2. v = s.view
      BY <2>2
    <3> HIDE DEF v, rest, all
    <3>3. QED BY <2>2, <3>1, <3>2 DEF Good, Same, Like, all
  <2>3. CASE s.view.on /\ ~Shadowed(all, 1)
    <3> DEFINE a == AckUserWrite(s.view, LayerTree(rest), w)
               r == RevertUserWrite(s.view, LayerTree(rest), w.at)
    <3>1. Shows(s.view, LayerTree(all)) /\ s.view.full
      BY <2>3 DEF Good
    <3> HIDE DEF all, rest
    <3>2. Shows(a, LayerTree(rest)) /\ Same(a, s.view)
      BY <1>4, <1>6, <1>7, <1>8, <2>3, <3>1, AckShows
    <3>3. Shows(r, LayerTree(rest)) /\ Same(r, s.view)
      BY <1>4, <1>6, <1>7, <1>8, <2>3, <3>1, RevertShows
    <3>4. v = a \/ v = r
      BY <2>3
    <3> HIDE DEF a, r, v
    <3>5. Shows(v, LayerTree(rest)) /\ Same(v, s.view)
      BY <3>2, <3>3, <3>4
    <3>6. QED BY <3>1, <3>5 DEF Shows, ShowsBut, Same, Like
  <2>4. QED BY <2>1, <2>2, <2>3
<1> HIDE DEF v
<1>12. QED BY <1>10, <1>11 DEF Good

\* Several answers, each to the first of the writes that are left.
LEMMA AckInOrder ==
  ASSUME NEW b, IsTree(b), Good(b), NEW S \in SUBSET Nat, Lists(b.all, S),
         \A p \in S : writes[p] \in WriteRecord,
         NEW answers, NEW n \in Nat, DOMAIN answers = 1 .. n,
         \A i \in 1 .. n : answers[i].put \in S,
         \A i, j \in 1 .. n : i < j => answers[i].put < answers[j].put,
         \A p \in S \ {answers[i].put : i \in 1 .. n} : \A i \in 1 .. n : answers[i].put < p
  PROVE  Good(Acked(b, answers)) /\ Same(Acked(b, answers).view, b.view)
<1>1. PICK g : Chained(g, b, answers, n) /\ Acked(b, answers) = g[n]
  BY Folded
<1>2. g[0] = b /\ \A i \in 1 .. n : g[i] = AckWrite(g[i - 1], answers[i])
  BY <1>1 DEF Chained
<1> DEFINE Left(i) == S \ {answers[j].put : j \in 1 .. i}
           Fine(i) == /\ IsTree(g[i]) /\ Lists(g[i].all, Left(i))
                      /\ Good(g[i]) /\ Same(g[i].view, b.view)
           T == {i \in 0 .. n : ~Fine(i)}
<1>3. Fine(0)
  <2>1. Left(0) = S
    OBVIOUS
  <2> HIDE DEF Left
  <2>2. QED BY <1>2, <2>1 DEF Same, Like
<1>4. ASSUME NEW i \in 1 .. n, Fine(i - 1) PROVE Fine(i)
  <2> DEFINE m == answers[i]
             q == AckWrite(g[i - 1], m)
  <2>1. /\ m.put \in Left(i - 1)
        /\ Left(i - 1) \ {m.put} = Left(i) /\ Left(i - 1) \in SUBSET Nat
    <3>1. ASSUME NEW j \in 1 .. i - 1 PROVE answers[j].put # m.put
      <4>1. j \in 1 .. n /\ j < i
        OBVIOUS
      <4>2. answers[j].put < m.put /\ answers[j].put \in Nat
        BY <4>1
      <4>3. QED BY <4>2
    <3>2. 1 .. i = (1 .. i - 1) \cup {i}
      OBVIOUS
    <3>3. QED BY <3>1, <3>2
  <2>2. ASSUME NEW p \in Left(i - 1) PROVE m.put <= p
    <3>1. m.put \in Nat /\ p \in Nat
      OBVIOUS
    <3>2. CASE p \in {answers[j].put : j \in 1 .. n}
      <4>1. PICK j \in 1 .. n : p = answers[j].put
        BY <3>2
      <4>2. j \notin 1 .. i - 1
        BY <2>2, <4>1
      <4>3. j = i \/ i < j
        BY <4>2
      <4>4. QED BY <3>1, <4>1, <4>3
    <3>3. CASE p \notin {answers[j].put : j \in 1 .. n}
      <4>1. m.put < p
        BY <3>3
      <4>2. QED BY <3>1, <4>1
    <3>4. QED BY <3>2, <3>3
  <2>3. \A p \in Left(i - 1) : writes[p] \in WriteRecord
    OBVIOUS
  <2>4. g[i] = q
    BY <1>2
  <2> HIDE DEF Left, m
  <2>5. /\ IsTree(g[i - 1]) /\ Lists(g[i - 1].all, Left(i - 1))
        /\ Good(g[i - 1]) /\ Same(g[i - 1].view, b.view)
    BY <1>4
  <2>6. IsTree(q) /\ Lists(q.all, Left(i - 1) \ {m.put})
    BY <2>1, <2>5, AckOne
  <2>7. Good(q) /\ Same(q.view, g[i - 1].view)
    BY <2>1, <2>2, <2>3, <2>5, AckFirst
  <2> HIDE DEF q
  <2>8. Lists(q.all, Left(i)) /\ Same(q.view, b.view)
    BY <2>1, <2>5, <2>6, <2>7 DEF Same, Like
  <2>9. QED BY <2>4, <2>6, <2>7, <2>8
<1>5. T = {}
  <2>1. T \subseteq 0 .. n /\ 0 \notin T
    BY <1>3
  <2>2. ASSUME NEW i \in 1 .. n, i - 1 \notin T PROVE i \notin T
    <3> HIDE DEF Fine
    <3>1. i - 1 \in 0 .. n
      OBVIOUS
    <3>2. QED BY <1>4, <2>2, <3>1
  <2> HIDE DEF T
  <2>3. QED BY <2>1, <2>2, NoneFails
<1>6. Fine(n)
  <2> HIDE DEF Fine
  <2>1. n \in 0 .. n
    OBVIOUS
  <2>2. QED BY <1>5, <2>1
<1>7. QED BY <1>1, <1>6

-----------------------------------------------------------------------------
(* What the data must be for the next step, and what a step must leave.    *)

Typed(w) == \A i \in DOMAIN w : w[i].type = "data" => w[i].write \in WriteRecord

AsksFor(w, id) ==
  \E i \in DOMAIN w : w[i].type = "listen" /\ w[i].query = Data /\ w[i].id = id

Shown ==
  /\ visible = LayerTree(Pending) /\ visible \in Tree
  /\ view \in ViewRecord
  /\ view.on => Shows(view, visible)

Records ==
  /\ \A i \in DOMAIN writes : writes[i] \in WriteRecord
  /\ Typed(toClient)
  /\ store \in Node /\ foreign \subseteq Key \X Value

Awaits ==
  view.on => /\ listens[Data] # 0
             /\ CanSendWrites /\ ~view.full =>
                  AsksFor(toServer, listens[Data]) \/ AsksFor(toClient, listens[Data])

ViewInv == ViewTypeOK /\ ViewAwaits /\ ViewExact

LEMMA PendingNamed == Pending = Named(allWrites)
BY DEF Pending, Named

LEMMA ViewParts ==
  ASSUME PutsInv, ~crashed, ViewInv PROVE Shown /\ Records /\ Awaits
<1>1. Records /\ view \in ViewRecord
  BY DEF ViewInv, ViewTypeOK, Records, Typed, ViewRecord
<1>2. Awaits
  BY DEF ViewInv, ViewAwaits, Asked, Own, Awaits, AsksFor
<1>3. Books
  BY BooksAndWires
<1>4. LayerTree(Pending) \in Tree
  <2>1. /\ Lists(allWrites, outstanding \cup Held) /\ outstanding \cup Held \subseteq 1 .. Len(writes)
        /\ Len(writes) \in Nat /\ DOMAIN writes = 1 .. Len(writes)
    BY <1>3, WireFacts DEF Books, PutsPending
  <2>2. outstanding \cup Held \in SUBSET Nat /\ \A p \in outstanding \cup Held : writes[p] \in WriteRecord
    BY <1>1, <2>1 DEF Records
  <2>3. QED BY <2>1, <2>2, NamedWrites, PendingNamed
<1>5. Shown
  BY <1>1, <1>4, ShowsIs DEF ViewInv, ViewExact, Shown
<1>6. QED BY <1>1, <1>2, <1>5

LEMMA ViewPartsPrimed ==
  ASSUME Shown', Records', Awaits' PROVE ViewInv'
<1>1. ViewTypeOK'
  BY DEF ViewTypeOK, Records, Shown, Typed, ViewRecord
<1>2. ViewAwaits'
  BY DEF ViewAwaits, Asked, Own, Awaits, AsksFor
<1>3. ViewExact'
  <2>1. view'.on => /\ view'.evFull <=> CompleteEventCache(visible', IF view'.full THEN view'.node ELSE None) # None
                    /\ view'.ev = ApplyToNode(visible', view'.node)
    BY ShowsIs DEF Shown
  <2>2. visible' = LayerTree(Pending')
    BY DEF Shown
  <2>3. QED BY <2>1, <2>2 DEF ViewExact
<1>4. QED BY <1>1, <1>2, <1>3 DEF ViewInv

LEMMA ShownKept == ASSUME Shown, UNCHANGED <<writes, allWrites, visible, view>> PROVE Shown'
BY DEF Shown, Pending

LEMMA RecordsKept ==
  ASSUME Records, Typed(toClient'), UNCHANGED <<writes, store, foreign>> PROVE Records'
BY DEF Records, Typed

\* A step that leaves the data alone.
LEMMA DataKept ==
  ASSUME Shown, Records, Typed(toClient'), Awaits', UNCHANGED dataVars PROVE ViewInv'
BY ShownKept, RecordsKept, ViewPartsPrimed DEF dataVars

\* A view goes on waiting for its answer, or has to no more.
LEMMA AwaitsKept ==
  ASSUME Awaits, CanSendWrites' => CanSendWrites, Like(view', view), UNCHANGED listens,
         AsksFor(toServer, listens[Data]) \/ AsksFor(toClient, listens[Data]) =>
           AsksFor(toServer', listens[Data]) \/ AsksFor(toClient', listens[Data])
  PROVE  Awaits'
BY DEF Awaits, AsksFor, Like

LEMMA AwaitsOffline ==
  ASSUME Awaits, ~CanSendWrites', view' = view, listens' = listens PROVE Awaits'
BY DEF Awaits

LEMMA LikeItself == ASSUME NEW v PROVE Like(v, v)
BY DEF Like

LEMMA SameItself == ASSUME NEW v PROVE Same(v, v)
BY DEF Same, Like

-----------------------------------------------------------------------------
(* Data and listens in the wires.                                          *)

LEMMA AddedToWire ==
  ASSUME NEW w, NEW u, IsWire(w), IsWire(u)
  PROVE  /\ Typed(w) /\ Typed(u) => Typed(w \o u)
         /\ \A id : AsksFor(w, id) \/ AsksFor(u, id) => AsksFor(w \o u, id)
<1>1. /\ Len(w) \in Nat /\ Len(u) \in Nat
      /\ DOMAIN w = 1 .. Len(w) /\ DOMAIN u = 1 .. Len(u)
      /\ DOMAIN (w \o u) = 1 .. Len(w) + Len(u)
      /\ \A i \in 1 .. Len(w) : (w \o u)[i] = w[i]
      /\ \A i \in 1 .. Len(u) : (w \o u)[Len(w) + i] = u[i]
  BY JoinedAt
<1> DEFINE x == w \o u
           n == Len(w)
           k == Len(u)
<1> HIDE DEF x, n, k
<1>2. ASSUME Typed(w), Typed(u), NEW i \in DOMAIN x, x[i].type = "data" PROVE x[i].write \in WriteRecord
  <2>1. CASE i \in 1 .. n
    BY <1>1, <1>2, <2>1 DEF Typed, x, n, k
  <2>2. CASE i \notin 1 .. n
    <3>1. i - n \in 1 .. k /\ n + (i - n) = i
      BY <1>1, <2>2 DEF x, n, k
    <3>2. x[i] = u[i - n]
      BY <1>1, <3>1 DEF x, n, k
    <3>3. QED BY <1>1, <1>2, <3>1, <3>2 DEF Typed, k
  <2>3. QED BY <2>1, <2>2
<1>3. ASSUME NEW id, AsksFor(w, id) PROVE AsksFor(x, id)
  <2>1. PICK i \in DOMAIN w : w[i].type = "listen" /\ w[i].query = Data /\ w[i].id = id
    BY <1>3 DEF AsksFor
  <2>2. i \in DOMAIN x /\ x[i] = w[i]
    BY <1>1, <2>1 DEF x, n, k
  <2>3. QED BY <2>1, <2>2 DEF AsksFor
<1>4. ASSUME NEW id, AsksFor(u, id) PROVE AsksFor(x, id)
  <2>1. PICK i \in DOMAIN u : u[i].type = "listen" /\ u[i].query = Data /\ u[i].id = id
    BY <1>4 DEF AsksFor
  <2>2. n + i \in DOMAIN x /\ x[n + i] = u[i]
    BY <1>1, <2>1 DEF x, n, k
  <2>3. QED BY <2>1, <2>2 DEF AsksFor
<1>5. QED BY <1>2, <1>3, <1>4 DEF Typed, x

LEMMA AloneInWire ==
  ASSUME NEW m
  PROVE  /\ IsWire(<<m>>)
         /\ (m.type = "data" => m.write \in WriteRecord) => Typed(<<m>>)
         /\ \A id : m.type = "listen" /\ m.query = Data /\ m.id = id => AsksFor(<<m>>, id)
<1>1. DOMAIN <<m>> = {1} /\ <<m>>[1] = m
  OBVIOUS
<1>2. IsWire(<<m>>)
  BY Single
<1>3. QED BY <1>1, <1>2 DEF Typed, AsksFor

LEMMA AppendedToWire ==
  ASSUME NEW w, IsWire(w), NEW m
  PROVE  /\ Typed(w) /\ (m.type = "data" => m.write \in WriteRecord) => Typed(Append(w, m))
         /\ \A id : AsksFor(w, id) \/ (m.type = "listen" /\ m.query = Data /\ m.id = id) =>
              AsksFor(Append(w, m), id)
<1>1. Append(w, m) = w \o <<m>>
  BY DEF IsWire
<1>2. QED BY <1>1, AddedToWire, AloneInWire

LEMMA TakenFromWire ==
  ASSUME NEW w, IsWire(w), NEW i \in DOMAIN w
  PROVE  /\ Typed(w) => Typed(RemoveAt(w, i))
         /\ \A id : AsksFor(w, id) =>
              AsksFor(RemoveAt(w, i), id)
                \/ (w[i].type = "listen" /\ w[i].query = Data /\ w[i].id = id)
<1> DEFINE u == RemoveAt(w, i)
           n == Len(w)
<1>1. /\ n \in Nat /\ DOMAIN w = 1 .. n /\ i \in 1 .. n
      /\ DOMAIN u = 1 .. n - 1
      /\ \A j \in 1 .. i - 1 : u[j] = w[j]
      /\ \A j \in i .. n - 1 : u[j] = w[j + 1]
  BY RemovedAt
<1> HIDE DEF u, n
<1>2. ASSUME NEW j \in DOMAIN u PROVE \E l \in DOMAIN w : u[j] = w[l]
  <2>1. CASE j \in 1 .. i - 1
    <3>1. j \in DOMAIN w
      BY <1>1, <2>1
    <3>2. QED BY <1>1, <2>1, <3>1
  <2>2. CASE j \in i .. n - 1
    <3>1. j + 1 \in DOMAIN w
      BY <1>1, <2>2
    <3>2. QED BY <1>1, <2>2, <3>1
  <2>3. QED BY <1>1, <2>1, <2>2
<1>3. ASSUME NEW l \in DOMAIN w, l # i PROVE \E j \in DOMAIN u : u[j] = w[l]
  <2>1. CASE l < i
    <3>1. l \in 1 .. i - 1 /\ l \in DOMAIN u
      BY <1>1, <2>1
    <3>2. QED BY <1>1, <3>1
  <2>2. CASE l > i
    <3>1. l - 1 \in i .. n - 1 /\ l - 1 \in DOMAIN u /\ (l - 1) + 1 = l
      BY <1>1, <2>2
    <3>2. QED BY <1>1, <3>1
  <2>3. QED BY <1>1, <1>3, <2>1, <2>2
<1>4. Typed(w) => Typed(u)
  BY <1>2 DEF Typed
<1>5. ASSUME NEW id, AsksFor(w, id)
      PROVE  AsksFor(u, id) \/ (w[i].type = "listen" /\ w[i].query = Data /\ w[i].id = id)
  <2>1. PICK l \in DOMAIN w : w[l].type = "listen" /\ w[l].query = Data /\ w[l].id = id
    BY <1>5 DEF AsksFor
  <2>2. CASE l = i
    BY <2>1, <2>2
  <2>3. CASE l # i
    BY <1>3, <2>1, <2>3 DEF AsksFor
  <2>4. QED BY <2>2, <2>3
<1>6. QED BY <1>4, <1>5 DEF u

LEMMA HeadTaken ==
  ASSUME NEW w, IsWire(w), w # <<>>
  PROVE  /\ Typed(w) => Typed(Tail(w)) /\ (Head(w).type = "data" => Head(w).write \in WriteRecord)
         /\ \A id : AsksFor(w, id) =>
              AsksFor(Tail(w), id)
                \/ (Head(w).type = "listen" /\ Head(w).query = Data /\ Head(w).id = id)
<1>1. Head(w) = w[1] /\ 1 \in DOMAIN w /\ Tail(w) = RemoveAt(w, 1)
  BY FirstTaken
<1> DEFINE u == RemoveAt(w, 1)
<1>2. /\ Typed(w) => Typed(u)
      /\ \A id : AsksFor(w, id) =>
           AsksFor(u, id) \/ (w[1].type = "listen" /\ w[1].query = Data /\ w[1].id = id)
  BY <1>1, TakenFromWire
<1>3. Typed(w) => (w[1].type = "data" => w[1].write \in WriteRecord)
  BY <1>1 DEF Typed
<1> HIDE DEF u
<1>4. Tail(w) = u
  BY <1>1 DEF u
<1>5. QED BY <1>1, <1>2, <1>3, <1>4

-----------------------------------------------------------------------------
(* The connection comes and goes: the data stays as it is.                 *)

LEMMA OfflineShows ==
  ASSUME LinkInv, PutsInv, ~crashed, ViewInv, UNCHANGED <<listens, dataVars>>,
         ~CanSendWrites', Typed(toClient')
  PROVE  ViewInv'
<1>1. Shown /\ Records /\ Awaits
  BY ViewParts
<1>2. Awaits'
  BY <1>1, AwaitsOffline DEF dataVars
<1>3. QED BY <1>1, <1>2, DataKept

LEMMA SameWiresShow ==
  ASSUME LinkInv, PutsInv, ~crashed, ViewInv, UNCHANGED <<listens, wires, dataVars>>,
         CanSendWrites' => CanSendWrites
  PROVE  ViewInv'
<1>1. Shown /\ Records /\ Awaits
  BY ViewParts
<1>2. toServer' = toServer /\ toClient' = toClient /\ view' = view
  BY DEF wires, dataVars
<1>3. Awaits'
  BY <1>1, <1>2, AwaitsKept, LikeItself
<1>4. Typed(toClient')
  BY <1>1, <1>2 DEF Records
<1>5. QED BY <1>1, <1>3, <1>4, DataKept

LEMMA RetryFiresShows ==
  ASSUME LinkInv, PutsInv, ~crashed, ViewInv, RetryFires, UNCHANGED dataVars PROVE ViewInv'
<1>1. conn'.state = "GettingToken"
  BY WiresAre DEF RetryFires, Conn
<1>2. QED BY <1>1, SameWiresShow DEF RetryFires, CanSendWrites

LEMMA TokenFetchedShows ==
  ASSUME LinkInv, PutsInv, ~crashed, ViewInv, TokenFetched, UNCHANGED dataVars PROVE ViewInv'
<1>1. CanSendWrites' => CanSendWrites
  BY WiresAre DEF TokenFetched, CanSendWrites, Conn
<1>2. QED BY <1>1, SameWiresShow DEF TokenFetched

LEMMA TokenFailedShows ==
  ASSUME LinkInv, PutsInv, ~crashed, ViewInv, TokenFailed, UNCHANGED dataVars PROVE ViewInv'
<1>1. ~CanSendWrites'
  BY WiresAre DEF TokenFailed, CanSendWrites, Conn, TryScheduleReconnect
<1>2. QED BY <1>1, SameWiresShow DEF TokenFailed

LEMMA ResumeShows ==
  ASSUME LinkInv, PutsInv, ~crashed, ViewInv, NEW r, Resume(r), UNCHANGED dataVars PROVE ViewInv'
<1>1. conn'.state = conn.state
  BY WiresAre DEF Resume, Conn, TryScheduleReconnect
<1>2. QED BY <1>1, SameWiresShow DEF Resume, CanSendWrites

LEMMA DisconnectedShows ==
  ASSUME LinkInv, PutsInv, ~crashed, ViewInv, NEW c \in Conn, Disconnected(c),
         UNCHANGED <<listens, dataVars>>
  PROVE  ViewInv'
<1>1. ~CanSendWrites'
  BY DEF Disconnected, TryScheduleReconnect, CanSendWrites, Conn
<1>2. Typed(<<>>)
  BY DEF Typed
<1>3. QED BY <1>1, <1>2, OfflineShows DEF Disconnected

LEMMA ConnectionLostShows ==
  ASSUME LinkInv, PutsInv, ~crashed, ViewInv, ConnectionLost, UNCHANGED dataVars PROVE ViewInv'
BY WiresAre, DisconnectedShows DEF ConnectionLost

LEMMA InterruptShows ==
  ASSUME LinkInv, PutsInv, ~crashed, ViewInv, NEW r \in Reason, Interrupt(r), UNCHANGED dataVars
  PROVE  ViewInv'
<1> DEFINE c == [conn EXCEPT !.reasons = conn.reasons \cup {r},
                             !.retry = conn.retry /\ Realtime(conn)]
<1>1. c \in Conn
  <2>1. (conn.retry /\ Realtime(conn)) \in BOOLEAN
    OBVIOUS
  <2>2. QED BY <2>1, WiresAre DEF Conn
<1>2. Disconnected(c) /\ UNCHANGED listens
  BY DEF Interrupt
<1> HIDE DEF c
<1>3. QED BY <1>1, <1>2, DisconnectedShows

LEMMA RefreshAuthTokenShows ==
  ASSUME LinkInv, PutsInv, ~crashed, ViewInv, RefreshAuthToken, UNCHANGED dataVars PROVE ViewInv'
<1>1. Shown /\ Records /\ Awaits
  BY ViewParts
<1>2. conn'.state = conn.state /\ toClient' = toClient /\ listens' = listens /\ view' = view
  BY WiresAre DEF RefreshAuthToken, Conn, dataVars
<1>3. \A id : AsksFor(toServer, id) => AsksFor(toServer', id)
  <2>1. toServer' = toServer \/ \E m : toServer' = Append(toServer, m)
    BY DEF RefreshAuthToken
  <2>2. QED BY <2>1, WiresAre, AppendedToWire
<1>4. Awaits'
  BY <1>1, <1>2, <1>3, AwaitsKept, LikeItself DEF CanSendWrites
<1>5. QED BY <1>1, <1>2, <1>4, DataKept DEF Records

\* restoreState asks again for everything that is listened to.
LEMMA RestoreAsks ==
  ASSUME LinkInv, NEW hash, RestoreState(hash), listens[Data] # 0
  PROVE  AsksFor(toServer', listens[Data])
<1>1. Data \in Listened
  BY ClientAssumption DEF Listened
<1>2. PICK order \in SetToSeqs(Listened) :
        toServer' = toServer
             \o [i \in DOMAIN order |-> Listen(order[i], listens[order[i]], hash[order[i]])]
             \o RestoredPuts
  BY DEF RestoreState
<1> DEFINE f == [i \in DOMAIN order |-> Listen(order[i], listens[order[i]], hash[order[i]])]
<1>3. IsWire(f)
  <2>1. Cardinality(Listened) \in Nat
    BY PermanentListened, FS_CardinalityType
  <2>2. DOMAIN order = 1 .. Cardinality(Listened)
    BY <1>2 DEF SetToSeqs
  <2>3. f \in Seq({f[i] : i \in DOMAIN order})
    BY <2>1, <2>2
  <2> HIDE DEF f
  <2>4. QED BY <2>3, SeqIsWire
<1>4. AsksFor(f, listens[Data])
  <2>1. PICK i \in DOMAIN order : order[i] = Data
    <3> DEFINE n == Cardinality(Listened)
    <3>1. n \in Nat /\ IsFiniteSet(Listened)
      BY PermanentListened, FS_CardinalityType
    <3>2. order \in [1 .. n -> Listened] /\ \A i, j \in 1 .. n : i # j => order[i] # order[j]
      BY <1>2 DEF SetToSeqs
    <3> HIDE DEF n
    <3>3. order \in Injection(1 .. n, Listened)
      BY <3>2 DEF Injection, IsInjective
    <3>4. IsFiniteSet(1 .. n) /\ Cardinality(1 .. n) = n
      BY <3>1, FS_Interval
    <3>5. order \in Surjection(1 .. n, Listened)
      BY <3>1, <3>3, <3>4, FS_Injection DEF n
    <3>6. QED BY <1>1, <3>2, <3>5 DEF Surjection
  <2>2. f[i].type = "listen" /\ f[i].query = Data /\ f[i].id = listens[Data]
    BY <2>1 DEF Listen
  <2>3. i \in DOMAIN f
    BY <2>1
  <2> HIDE DEF f
  <2>4. QED BY <2>2, <2>3 DEF AsksFor
<1> HIDE DEF f
<1>5. AsksFor(toServer \o f, listens[Data]) /\ IsWire(toServer \o f)
  BY <1>3, <1>4, WiresAre, AddedToWire, Joined
<1>6. AsksFor((toServer \o f) \o RestoredPuts, listens[Data])
  BY <1>5, RestoredIsWire, AddedToWire
<1>7. QED BY <1>2, <1>6 DEF f

LEMMA RestoreShows ==
  ASSUME LinkInv, PutsInv, ~crashed, ViewInv, NEW hash, RestoreState(hash),
         UNCHANGED <<listens, dataVars>>, Typed(toClient')
  PROVE  ViewInv'
<1>1. Shown /\ Records /\ Awaits
  BY ViewParts
<1>2. Awaits'
  <2>1. listens[Data] # 0 => AsksFor(toServer', listens[Data])
    BY RestoreAsks
  <2>2. view' = view /\ listens' = listens
    BY DEF dataVars
  <2>3. QED BY <1>1, <2>1, <2>2 DEF Awaits, AsksFor
<1>3. QED BY <1>1, <1>2, DataKept

LEMMA ReadyShows ==
  ASSUME LinkInv, PutsInv, ~crashed, ViewInv, NEW hash, Ready(hash), UNCHANGED dataVars
  PROVE  ViewInv'
<1>1. Records /\ listens' = listens /\ toClient' = toClient
  BY ViewParts DEF Ready
<1>2. Typed(toClient')
  BY <1>1 DEF Records
<1>3. CASE conn.token
  <2>1. ~CanSendWrites'
    BY <1>3, WiresAre DEF Ready, CanSendWrites, Conn
  <2>2. QED BY <1>1, <1>2, <2>1, OfflineShows
<1>4. CASE ~conn.token
  BY <1>1, <1>2, <1>4, RestoreShows DEF Ready
<1>5. QED BY <1>3, <1>4

LEMMA AuthAnsweredShows ==
  ASSUME LinkInv, PutsInv, ~crashed, ViewInv, NEW hash, AuthAnswered(hash), UNCHANGED dataVars
  PROVE  ViewInv'
<1>1. /\ toClient # <<>> /\ Head(toClient).type = "auth" /\ listens' = listens /\ Connected
  BY Facts DEF AuthAnswered
<1>2. Shown /\ Records /\ Awaits
  BY ViewParts
<1>3. CASE ~Head(toClient).ok
  <2> DEFINE c == [conn EXCEPT !.token = FALSE]
  <2>1. Disconnected(c) /\ c \in Conn
    BY <1>3, WiresAre DEF AuthAnswered, Conn
  <2> HIDE DEF c
  <2>2. QED BY <1>1, <2>1, DisconnectedShows
<1>4. CASE Head(toClient).ok
  <2>1. /\ toClient' = Tail(toClient)
        /\ IF Head(toClient).restore THEN RestoreState(hash)
                                     ELSE UNCHANGED <<toServer, unacked>>
    BY <1>4 DEF AuthAnswered
  <2>2. Typed(toClient') /\ \A id : AsksFor(toClient, id) => AsksFor(toClient', id)
    BY <1>1, <1>2, <2>1, WiresAre, HeadTaken DEF Records
  <2>3. CASE Head(toClient).restore
    BY <1>1, <2>1, <2>2, <2>3, RestoreShows
  <2>4. CASE ~Head(toClient).restore
    <3>1. CanSendWrites
      BY <1>1, <2>4 DEF LinkInv, RestoreNext, Connected, CanSendWrites
    <3>2. toServer' = toServer /\ view' = view
      BY <2>1, <2>4 DEF dataVars
    <3>3. Awaits'
      BY <1>1, <1>2, <2>2, <3>1, <3>2, AwaitsKept, LikeItself
    <3>4. QED BY <1>2, <2>2, <3>3, DataKept
  <2>5. QED BY <2>3, <2>4
<1>5. QED BY <1>3, <1>4

-----------------------------------------------------------------------------
(* The user's calls.                                                       *)

LEMMA ObserveShows ==
  ASSUME LinkInv, PutsInv, ~crashed, ViewInv, Observe PROVE ViewInv'
<1> DEFINE hash == [q \in Query |-> EmptyNode]
           m == Listen(Data, made + 1, hash[Data])
<1>1. Shown /\ Records /\ Awaits
  BY ViewParts
<1>2. /\ listens' = [listens EXCEPT ![Data] = made + 1] /\ conn' = conn
      /\ IF Connected THEN toServer' = Append(toServer, m) ELSE TRUE
      /\ view' = NewView(visible) /\ toClient' = toClient
      /\ UNCHANGED <<writes, allWrites, visible, store, foreign>>
  BY DEF Observe, StartListen
<1>3. m.type = "listen" /\ m.query = Data /\ m.id = made + 1
  BY DEF Listen
<1>4. listens'[Data] = made + 1 /\ made + 1 # 0
  <2>1. listens \in [Query -> Nat] /\ made \in Nat
    BY DEF LinkInv, LinkTypeOK
  <2>2. QED BY <1>2, <2>1, ClientAssumption
<1> HIDE DEF m
<1>5. Shown'
  <2>1. Shows(view', visible) /\ view' \in ViewRecord
    BY <1>1, <1>2, NewViewShows DEF Shown, Shows, ShowsBut
  <2>2. QED BY <1>1, <1>2, <2>1 DEF Shown, Pending
<1>6. Records'
  BY <1>1, <1>2, RecordsKept DEF Records
<1>7. Awaits'
  <2>1. CanSendWrites' => Connected
    BY <1>2 DEF CanSendWrites, Connected
  <2>2. Connected => AsksFor(toServer', made + 1)
    BY <1>2, <1>3, WiresAre, AppendedToWire
  <2>3. QED BY <1>4, <2>1, <2>2 DEF Awaits, AsksFor
<1>8. QED BY <1>5, <1>6, <1>7, ViewPartsPrimed

LEMMA NoViewShows == NoView \in ViewRecord /\ ~NoView.on
<1>1. EmptyNode \in Node
  BY PathAssumption DEF EmptyNode, Node
<1>2. QED BY <1>1 DEF NoView, ViewRecord

LEMMA RemoveObserverShows ==
  ASSUME LinkInv, PutsInv, ~crashed, ViewInv, RemoveObserver PROVE ViewInv'
<1>1. Shown /\ Records
  BY ViewParts
<1>2. /\ view' = NoView /\ toClient' = toClient
      /\ UNCHANGED <<writes, allWrites, visible, store, foreign>>
  BY DEF RemoveObserver, Unlisten
<1>3. Shown' /\ Awaits'
  BY <1>1, <1>2, NoViewShows DEF Shown, Pending, Awaits
<1>4. Records'
  BY <1>1, <1>2, RecordsKept DEF Records
<1>5. QED BY <1>3, <1>4, ViewPartsPrimed

LEMMA WriteShows ==
  ASSUME LinkInv, PutsInv, ~crashed, ViewInv, NEW script \in Scripts, Write(script)
  PROVE  ViewInv' /\ Same(view', view)
<1> DEFINE n == Len(writes) + 1
           w == script[n]
           k == Len(allWrites)
<1>1. Shown /\ Records /\ Awaits
  BY ViewParts
<1>2. /\ n \in DOMAIN script
      /\ writes' = Append(writes, w) /\ allWrites' = Append(allWrites, n)
      /\ visible' = AddWrite(visible, w)
      /\ view' = IF view.on THEN UserWrite(view, w) ELSE view
      /\ PutInternal(n) /\ UNCHANGED <<store, foreign>>
  BY DEF Write
<1>3. w \in WriteRecord
  BY <1>2, ClientAssumption
<1>4. /\ Len(writes) \in Nat /\ DOMAIN writes = 1 .. Len(writes)
      /\ k \in Nat /\ DOMAIN allWrites = 1 .. k
      /\ \A i \in 1 .. k : allWrites[i] \in 1 .. Len(writes)
      /\ IsWire(writes) /\ IsWire(allWrites)
  <2>1. Books
    BY BooksAndWires
  <2>2. IsWire(writes) /\ IsWire(allWrites) /\ outstanding \cup Held \subseteq 1 .. Len(writes)
        /\ {allWrites[i] : i \in DOMAIN allWrites} = outstanding \cup Held
    BY <2>1 DEF Books, PutsPending, Lists
  <2>3. QED BY <2>2, WireFacts
<1> HIDE DEF w
<1>5. /\ DOMAIN writes' = 1 .. n /\ writes'[n] = w
      /\ \A i \in 1 .. Len(writes) : writes'[i] = writes[i]
  BY <1>2, <1>4 DEF IsWire
<1>6. /\ DOMAIN allWrites' = 1 .. k + 1 /\ allWrites'[k + 1] = n
      /\ \A i \in 1 .. k : allWrites'[i] = allWrites[i]
  <2> HIDE DEF n
  <2>1. QED BY <1>2, <1>4 DEF IsWire
<1> HIDE DEF n, k
<1>7. LayerTree(Pending') = AddWrite(LayerTree(Pending), w)
  <2>1. DOMAIN Pending = 1 .. k /\ \A i \in 1 .. k : Pending[i] = writes[allWrites[i]]
    BY <1>4 DEF Pending
  <2>2. DOMAIN Pending' = 1 .. k + 1 /\ \A i \in 1 .. k + 1 : Pending'[i] = writes'[allWrites'[i]]
    BY <1>6 DEF Pending
  <2>3. k + 1 \in 1 .. k + 1 /\ \A i \in 1 .. k : i \in 1 .. k + 1
    BY <1>4
  <2>4. Pending'[k + 1] = w /\ \A i \in 1 .. k : Pending'[i] = Pending[i]
    BY <1>4, <1>5, <1>6, <2>1, <2>2, <2>3
  <2> DEFINE all == Pending
             more == Pending'
  <2>5. /\ k \in Nat /\ DOMAIN all = 1 .. k
        /\ DOMAIN more = 1 .. k + 1 /\ more[k + 1] = w /\ \A i \in 1 .. k : more[i] = all[i]
    BY <1>4, <2>1, <2>2, <2>4
  <2> HIDE DEF all, more
  <2>6. LayerTree(more) = AddWrite(LayerTree(all), w)
    BY <2>5, LayerTreeAppended
  <2>7. QED BY <2>6 DEF all, more
<1>8. visible' \in Tree
  BY <1>1, <1>2, <1>3, AddedIsTree DEF Shown
<1>9. view' \in ViewRecord /\ (view'.on => Shows(view', visible')) /\ Same(view', view)
  <2>1. CASE ~view.on
    BY <1>1, <1>2, <2>1 DEF Shown, Same, Like
  <2>2. CASE view.on
    <3>1. Shows(UserWrite(view, w), AddWrite(visible, w)) /\ Same(UserWrite(view, w), view)
      BY <1>1, <1>3, <2>2, UserWriteShows DEF Shown
    <3>2. view' = UserWrite(view, w)
      BY <1>2, <2>2
    <3>3. QED BY <1>2, <3>1, <3>2 DEF Shows, ShowsBut
  <2>3. QED BY <2>1, <2>2
<1>10. Shown'
  BY <1>1, <1>2, <1>7, <1>8, <1>9 DEF Shown
<1>11. Records'
  <2>1. \A i \in DOMAIN writes' : writes'[i] \in WriteRecord
    <3>1. \A i \in 1 .. n : i = n \/ i \in 1 .. Len(writes)
      BY <1>4 DEF n
    <3>2. QED BY <1>1, <1>3, <1>4, <1>5, <3>1 DEF Records
  <2>2. QED BY <1>1, <1>2, <2>1 DEF Records, PutInternal
<1>12. Awaits'
  <2>1. \A id : AsksFor(toServer, id) => AsksFor(toServer', id)
    BY <1>2, WiresAre, AppendedToWire DEF PutInternal
  <2>2. UNCHANGED <<conn, listens, toClient>>
    BY <1>2 DEF PutInternal
  <2>3. QED BY <1>1, <1>9, <2>1, <2>2, AwaitsKept DEF CanSendWrites, Same
<1>13. QED BY <1>9, <1>10, <1>11, <1>12, ViewPartsPrimed

LEMMA PurgeShows ==
  ASSUME LinkInv, PutsInv, ~crashed, ViewInv, Purge PROVE ViewInv' /\ Same(view', view)
<1>1. Shown /\ Records /\ Awaits
  BY ViewParts
<1>2. /\ allWrites' = <<>> /\ visible' = EmptyWrite
      /\ view' = IF view.on /\ allWrites # <<>>
                   THEN RevertUserWrite(view, EmptyWrite, Top) ELSE view
      /\ UNCHANGED <<conn, listens, toServer, toClient, writes, store, foreign>>
  BY DEF Purge, PurgePuts, wires
<1>3. LayerTree(Pending') = EmptyWrite
  <2>1. Pending' = <<>>
    BY <1>2 DEF Pending
  <2>2. QED BY <2>1, NothingLayered
<1>4. view' \in ViewRecord /\ (view'.on => Shows(view', EmptyWrite)) /\ Same(view', view)
  <2>1. CASE ~view.on
    BY <1>1, <1>2, <2>1 DEF Shown, Same, Like
  <2>2. CASE view.on /\ allWrites = <<>>
    <3>1. Pending = <<>>
      BY <2>2 DEF Pending
    <3>2. visible = EmptyWrite
      BY <1>1, <3>1, NothingLayered DEF Shown
    <3>3. QED BY <1>1, <1>2, <2>2, <3>2 DEF Shown, Same, Like
  <2>3. CASE view.on /\ allWrites # <<>>
    <3> DEFINE r == RevertUserWrite(view, EmptyWrite, Top)
    <3>1. Shows(r, EmptyWrite) /\ Same(r, view)
      BY <1>1, NoRoot, RevertAtRoot DEF Shown
    <3>2. view' = r
      BY <1>2, <2>3
    <3> HIDE DEF r
    <3>3. QED BY <3>1, <3>2 DEF Shows, ShowsBut
  <2>4. QED BY <2>1, <2>2, <2>3
<1>5. Shown'
  BY <1>2, <1>3, <1>4, NoRoot DEF Shown
<1>6. Records'
  BY <1>1, <1>2, RecordsKept DEF Records
<1>7. Awaits'
  BY <1>1, <1>2, <1>4, AwaitsKept DEF CanSendWrites, Same
<1>8. QED BY <1>4, <1>5, <1>6, <1>7, ViewPartsPrimed

-----------------------------------------------------------------------------
(* The server's side.                                                      *)

\* What the server tells: nothing, or one write.
Tells(u) == u = <<>> \/ \E w \in WriteRecord : u = <<[type |-> "data", write |-> w]>>

LEMMA TellsIsTyped ==
  ASSUME NEW u, Tells(u) PROVE IsWire(u) /\ Typed(u)
<1>1. CASE u = <<>>
  BY <1>1, EmptyWire DEF Typed
<1>2. CASE u # <<>>
  <2>1. PICK w \in WriteRecord : u = <<[type |-> "data", write |-> w]>>
    BY <1>2 DEF Tells
  <2> DEFINE m == [type |-> "data", write |-> w]
  <2>2. m.write \in WriteRecord
    OBVIOUS
  <2> HIDE DEF m
  <2>3. IsWire(<<m>>) /\ Typed(<<m>>)
    BY <2>2, AloneInWire
  <2>4. QED BY <2>1, <2>3 DEF m
<1>3. QED BY <1>1, <1>2

LEMMA PushTells == ASSUME NEW w \in WriteRecord PROVE Tells(Push(w))
BY DEF Tells, Push

LEMMA AppliedIsNode == ASSUME NEW n \in Node, NEW w \in WriteRecord PROVE Applied(n, w) \in Node
<1>1. CASE RootSet(w)
  <2>1. w.op = "set" /\ w.at = Top /\ w.data \in Node
    BY <1>1, WriteKinds DEF RootSet, IsOverwrite
  <2>2. Applied(n, w) = w.data
    BY <2>1 DEF Applied
  <2>3. QED BY <2>1, <2>2
<1>2. CASE w.op = "merge"
  <2>1. ~RootSet(w) /\ Given(w) = w.data
    BY <1>2 DEF RootSet, IsOverwrite, Given
  <2>2. Layered(n, w.data) \in Node
    BY <2>1, WriteKinds, LayeredIsNode
  <2>3. Applied(n, w) = Layered(n, w.data)
    BY <1>2 DEF Applied
  <2>4. QED BY <2>2, <2>3
<1>3. CASE ~RootSet(w) /\ w.op # "merge"
  <2>1. w.op = "set" /\ w.at \in Key /\ w.data \in Value /\ w.at # Top
    BY <1>3, WriteKinds, PathAssumption DEF RootSet, IsOverwrite
  <2>2. Applied(n, w) = [n EXCEPT ![w.at] = w.data]
    BY <2>1 DEF Applied
  <2>3. QED BY <2>1, <2>2 DEF Node
<1>4. QED BY <1>1, <1>2, <1>3

LEMMA RecordsTold ==
  ASSUME Records, Typed(toClient'), store' \in Node, foreign' \subseteq foreign, writes' = writes
  PROVE  Records'
BY DEF Records, Typed

LEMMA OtherClientShows ==
  ASSUME LinkInv, PutsInv, ~crashed, ViewInv, NEW k, NEW v, OtherClient(k, v) PROVE ViewInv'
<1> DEFINE w == [op |-> "set", at |-> k, data |-> v]
           n == [store EXCEPT ![k] = v]
<1>1. Shown /\ Records /\ Awaits
  BY ViewParts
<1>2. /\ <<k, v>> \in foreign /\ foreign' \subseteq foreign /\ store' = n
      /\ toClient' = toClient \o Push(w)
      /\ UNCHANGED <<conn, listens, toServer, writes, allWrites, visible, view>>
  BY DEF OtherClient, SetStore
<1>3. w \in WriteRecord /\ n \in Node
  <2>1. k \in Key /\ v \in Value /\ store \in Node
    BY <1>1, <1>2 DEF Records
  <2>2. QED BY <2>1 DEF WriteRecord, Node
<1> HIDE DEF w, n
<1>4. /\ Typed(toClient')
      /\ \A id : AsksFor(toClient, id) => AsksFor(toClient', id)
  BY <1>1, <1>2, <1>3, WiresAre, PushTells, TellsIsTyped, AddedToWire DEF Records
<1>5. Records'
  BY <1>1, <1>2, <1>3, <1>4, RecordsTold
<1>6. Awaits'
  BY <1>1, <1>2, <1>4, AwaitsKept, LikeItself DEF CanSendWrites
<1>7. QED BY <1>1, <1>2, <1>5, <1>6, ShownKept, ViewPartsPrimed

LEMMA RevokeShows ==
  ASSUME LinkInv, PutsInv, ~crashed, ViewInv, NEW q, Revoke(q), UNCHANGED dataVars PROVE ViewInv'
<1> DEFINE m == [type |-> "revoked", query |-> q]
<1>1. Shown /\ Records /\ Awaits
  BY ViewParts
<1>2. /\ toClient' = Append(toClient, m) /\ m.type # "data"
      /\ UNCHANGED <<conn, listens, toServer, view>>
  BY DEF Revoke, dataVars
<1> HIDE DEF m
<1>3. Typed(toClient') /\ \A id : AsksFor(toClient, id) => AsksFor(toClient', id)
  BY <1>1, <1>2, WiresAre, AppendedToWire DEF Records
<1>4. Awaits'
  BY <1>1, <1>2, <1>3, AwaitsKept, LikeItself DEF CanSendWrites
<1>5. QED BY <1>1, <1>3, <1>4, DataKept

\* What was asked for is answered, or still waits.
LEMMA ServeAsks ==
  ASSUME LinkInv, NEW i \in DOMAIN toServer, Take(i), NEW id,
         AsksFor(toServer, id)
  PROVE  AsksFor(toServer', id)
           \/ (toServer[i].type = "listen" /\ toServer[i].query = Data /\ toServer[i].id = id)
BY WiresAre, TakenFromWire DEF Take

LEMMA ServeSilentShows ==
  ASSUME LinkInv, PutsInv, ~crashed, ViewInv, ServeSilent, UNCHANGED dataVars PROVE ViewInv'
<1>1. Shown /\ Records /\ Awaits
  BY ViewParts
<1>2. 1 \in DOMAIN toServer /\ toServer[1].type \in {"unauth", "unlisten"}
  BY NextAtHead DEF ServeSilent
<1>3. Take(1) /\ UNCHANGED <<conn, listens, toClient, view>>
  BY DEF ServeSilent, dataVars
<1>4. \A id : AsksFor(toServer, id) => AsksFor(toServer', id)
  BY <1>2, <1>3, ServeAsks
<1>5. Awaits'
  BY <1>1, <1>3, <1>4, AwaitsKept, LikeItself DEF CanSendWrites
<1>6. QED BY <1>1, <1>3, <1>5, DataKept DEF Records

LEMMA ServeAuthShows ==
  ASSUME LinkInv, PutsInv, ~crashed, ViewInv, NEW ok, ServeAuth(ok), UNCHANGED dataVars
  PROVE  ViewInv'
<1> DEFINE m == [type |-> "auth", restore |-> Head(toServer).restore, ok |-> ok]
<1>1. Shown /\ Records /\ Awaits
  BY ViewParts
<1>2. 1 \in DOMAIN toServer /\ toServer[1].type = "auth"
  BY NextAtHead DEF ServeAuth
<1>3. /\ Take(1) /\ toClient' = Append(toClient, m) /\ m.type # "data"
      /\ UNCHANGED <<conn, listens, view>>
  BY DEF ServeAuth, dataVars
<1> HIDE DEF m
<1>4. \A id : AsksFor(toServer, id) => AsksFor(toServer', id)
  BY <1>2, <1>3, ServeAsks
<1>5. Typed(toClient') /\ \A id : AsksFor(toClient, id) => AsksFor(toClient', id)
  BY <1>1, <1>3, WiresAre, AppendedToWire DEF Records
<1>6. Awaits'
  BY <1>1, <1>3, <1>4, <1>5, AwaitsKept, LikeItself DEF CanSendWrites
<1>7. QED BY <1>1, <1>5, <1>6, DataKept

\* Data, and then an answer, on the wire.
LEMMA ToldAndAnswered ==
  ASSUME LinkInv, Typed(toClient), NEW u, Tells(u), NEW m, m.type # "data",
         toClient' = toClient \o u \o <<m>>
  PROVE  /\ Typed(toClient')
         /\ \A id : AsksFor(toClient, id) => AsksFor(toClient', id)
         /\ \A id : m.type = "listen" /\ m.query = Data /\ m.id = id => AsksFor(toClient', id)
<1> DEFINE x == toClient \o u
<1>1. IsWire(u) /\ Typed(u)
  BY TellsIsTyped
<1>2. IsWire(x) /\ Typed(x) /\ \A id : AsksFor(toClient, id) => AsksFor(x, id)
  BY <1>1, WiresAre, Joined, AddedToWire
<1>3. /\ IsWire(<<m>>) /\ Typed(<<m>>)
      /\ \A id : m.type = "listen" /\ m.query = Data /\ m.id = id => AsksFor(<<m>>, id)
  BY AloneInWire
<1>4. toClient' = x \o <<m>>
  OBVIOUS
<1> HIDE DEF x
<1>5. /\ Typed(x \o <<m>>)
      /\ \A id : AsksFor(x, id) \/ AsksFor(<<m>>, id) => AsksFor(x \o <<m>>, id)
  BY <1>2, <1>3, AddedToWire
<1>6. QED BY <1>2, <1>3, <1>4, <1>5

LEMMA ServerListenShows ==
  ASSUME LinkInv, PutsInv, ~crashed, ViewInv, NEW ok, ServerListen(ok) PROVE ViewInv'
<1> DEFINE all == [op |-> "set", at |-> Top, data |-> store]
           h == Head(toServer)
           u == IF ok /\ h.query = Data /\ (h.hash = EmptyNode \/ h.hash # store)
                  THEN <<[type |-> "data", write |-> all]>> ELSE <<>>
           m == [type |-> "listen", query |-> h.query, id |-> h.id, ok |-> ok]
<1>1. Shown /\ Records /\ Awaits
  BY ViewParts
<1>2. /\ 1 \in DOMAIN toServer /\ toServer[1] = h /\ h.type = "listen"
      /\ Take(1) /\ toClient' = toClient \o u \o <<m>>
      /\ UNCHANGED <<conn, listens, dataVars>>
  BY NextAtHead DEF ServerListen, ServeListen
<1>3. Tells(u)
  <2>1. all \in WriteRecord
    BY <1>1 DEF WriteRecord, Records
  <2> HIDE DEF all
  <2>2. QED BY <2>1 DEF Tells
<1>4. m.type = "listen" /\ m.query = h.query /\ m.id = h.id
  OBVIOUS
<1> HIDE DEF u, m, h
<1>5. /\ Typed(toClient')
      /\ \A id : AsksFor(toClient, id) => AsksFor(toClient', id)
      /\ \A id : m.query = Data /\ m.id = id => AsksFor(toClient', id)
  <2>1. Typed(toClient) /\ m.type # "data" /\ m.type = "listen"
    BY <1>1, <1>4 DEF Records
  <2>2. toClient' = toClient \o u \o <<m>>
    BY <1>2
  <2>3. QED BY <1>3, <2>1, <2>2, ToldAndAnswered
<1>6. \A id : AsksFor(toServer, id) => AsksFor(toServer', id) \/ AsksFor(toClient', id)
  BY <1>2, <1>4, <1>5, ServeAsks
<1>7. Awaits'
  BY <1>1, <1>2, <1>5, <1>6, AwaitsKept, LikeItself DEF CanSendWrites, dataVars
<1>8. QED BY <1>1, <1>2, <1>5, <1>7, DataKept

LEMMA ServerPutShows ==
  ASSUME LinkInv, PutsInv, ~crashed, ViewInv, NEW ok, ServerPut(ok) PROVE ViewInv'
<1>1. Shown /\ Records /\ Awaits
  BY ViewParts
<1>2. PICK i \in NextPut :
        LET w == writes[toServer[i].put]
        IN /\ ServePut(i, IF ok THEN Push(w) ELSE <<>>, ok)
           /\ IF ok THEN SetStore(Applied(store, w)) ELSE UNCHANGED <<store, past>>
           /\ UNCHANGED <<writes, allWrites, visible, view, foreign, crashed>>
  BY DEF ServerPut
<1> DEFINE w == writes[toServer[i].put]
           u == IF ok THEN Push(w) ELSE <<>>
           m == [type |-> "put", put |-> toServer[i].put, ok |-> ok]
<1>3. Books /\ UnderWay
  BY BooksAndWires
<1>4. /\ i \in DOMAIN toServer /\ toServer[i].type = "put" /\ toServer[i].put \in PutsIn(toServer)
  BY <1>3, NextPutFirst
<1>5. w \in WriteRecord
  <2>1. toServer[i].put \in cursor + 1 .. Len(writes) /\ cursor \in Nat
    BY <1>3, <1>4, PutTypes DEF UnderWay, PutsOrdered
  <2>2. DOMAIN writes = 1 .. Len(writes) /\ Len(writes) \in Nat
    BY <1>3, WireFacts DEF Books, PutsPending
  <2>3. toServer[i].put \in DOMAIN writes
    BY <2>1, <2>2
  <2>4. QED BY <1>1, <2>3 DEF Records
<1>6. /\ toClient' = toClient \o u \o <<m>> /\ Take(i) /\ m.type = "put"
      /\ IF ok THEN SetStore(Applied(store, w)) ELSE UNCHANGED <<store, past>>
      /\ UNCHANGED <<conn, listens, writes, allWrites, visible, view, foreign>>
  BY <1>2 DEF ServePut
<1>7. Tells(u)
  BY <1>5, PushTells DEF Tells
<1> HIDE DEF w, u, m
<1>8. Typed(toClient') /\ \A id : AsksFor(toClient, id) => AsksFor(toClient', id)
  <2>1. Typed(toClient) /\ m.type # "data"
    BY <1>1, <1>6 DEF Records
  <2>2. toClient' = toClient \o u \o <<m>>
    BY <1>6
  <2>3. QED BY <1>7, <2>1, <2>2, ToldAndAnswered
<1>9. store' \in Node
  BY <1>1, <1>5, <1>6, AppliedIsNode DEF SetStore, Records
<1>10. Records'
  BY <1>1, <1>6, <1>8, <1>9, RecordsTold
<1>11. \A id : AsksFor(toServer, id) => AsksFor(toServer', id)
  BY <1>4, <1>6, ServeAsks
<1>12. Awaits'
  BY <1>1, <1>6, <1>8, <1>11, AwaitsKept, LikeItself DEF CanSendWrites
<1>13. QED BY <1>1, <1>6, <1>10, <1>12, ShownKept, ViewPartsPrimed

-----------------------------------------------------------------------------
(* What comes from the server.                                             *)

LEMMA ReceiveDataShows ==
  ASSUME LinkInv, PutsInv, ~crashed, ViewInv, ReceiveData
  PROVE  /\ ViewInv' /\ view'.on = view.on
         /\ view'.full <=> view.full \/ (view.on /\ RootSet(Head(toClient).write))
         /\ view.on =>
              view'.node = IF ~IsOverwrite(Head(toClient).write) /\ view.node = EmptyNode /\ ~view.full
                             THEN view.node ELSE Applied(view.node, Head(toClient).write)
<1> DEFINE w == Head(toClient).write
<1>1. Shown /\ Records /\ Awaits
  BY ViewParts
<1>2. /\ toClient # <<>> /\ Head(toClient).type = "data" /\ toClient' = Tail(toClient)
      /\ view' = CASE ~view.on -> view
                   [] view.on /\ IsOverwrite(w) -> ServerOverwrite(view, visible, w.at, w.data)
                   [] OTHER -> ServerMerge(view, visible, w.data)
      /\ UNCHANGED <<conn, listens, toServer, writes, allWrites, visible, store, foreign>>
  BY DEF ReceiveData
<1>3. /\ Typed(toClient') /\ w \in WriteRecord
      /\ \A id : AsksFor(toClient, id) => AsksFor(toClient', id)
  BY <1>1, <1>2, WiresAre, HeadTaken DEF Records
<1> HIDE DEF w
<1>4. /\ view' \in ViewRecord /\ (view'.on => Shows(view', visible))
      /\ view'.on = view.on /\ (view'.full <=> view.full \/ (view.on /\ RootSet(w)))
      /\ view.on => view'.node = IF ~IsOverwrite(w) /\ view.node = EmptyNode /\ ~view.full
                                   THEN view.node ELSE Applied(view.node, w)
  <2>1. CASE ~view.on
    BY <1>1, <1>2, <2>1 DEF Shown
  <2>2. CASE view.on /\ RootSet(w)
    <3> DEFINE r == ServerOverwrite(view, visible, Top, w.data)
    <3>1. w.data \in Node /\ IsOverwrite(w) /\ w.at = Top
      BY <1>3, <2>2, WriteKinds DEF RootSet
    <3>2. Shows(r, visible) /\ r.full /\ r.on = view.on /\ r.node = w.data
      BY <1>1, <2>2, <3>1, RootShows DEF Shown
    <3>3. view' = r
      BY <1>2, <2>2, <3>1
    <3>5. Applied(view.node, w) = w.data
      BY <3>1 DEF Applied, IsOverwrite
    <3> HIDE DEF r
    <3>4. QED BY <2>2, <3>1, <3>2, <3>3, <3>5 DEF Shows, ShowsBut
  <2>3. CASE view.on /\ ~RootSet(w) /\ w.op # "merge"
    <3> DEFINE r == ServerOverwrite(view, visible, w.at, w.data)
    <3>1. w.at \in Key /\ w.data \in Value /\ IsOverwrite(w)
      BY <1>3, <2>3, WriteKinds DEF RootSet, IsOverwrite
    <3>2. ChildShown(r, view, visible, {}, w.at, w.data)
      BY <1>1, <2>3, <3>1, ChildShows DEF Shown, Shows
    <3>3. view' = r
      BY <1>2, <2>3, <3>1
    <3>4. {} \ {w.at} = {}
      OBVIOUS
    <3>6. Applied(view.node, w) = [view.node EXCEPT ![w.at] = w.data]
      BY <2>3, <3>1, PathAssumption DEF Applied
    <3> HIDE DEF r
    <3>5. QED BY <2>3, <3>1, <3>2, <3>3, <3>4, <3>6 DEF Shows, ShowsBut, Like, ChildShown
  <2>4. CASE view.on /\ w.op = "merge"
    <3> DEFINE r == ServerMerge(view, visible, w.data)
    <3>1. ~IsOverwrite(w) /\ ~RootSet(w) /\ Given(w) = w.data
      BY <1>3, <2>4, WriteKinds DEF RootSet, IsOverwrite
    <3>2. DOMAIN w.data \subseteq Key /\ \A k \in DOMAIN w.data : w.data[k] \in Value
      BY <1>3, <3>1, WriteKinds
    <3>3. /\ Shows(r, visible) /\ Like(r, view)
          /\ r.node = IF view.node = EmptyNode /\ ~view.full THEN view.node
                      ELSE Layered(view.node, w.data)
      BY <1>1, <2>4, <3>2, MergeShows DEF Shown, Shows
    <3>4. view' = r
      BY <1>2, <2>4, <3>1
    <3>6. Applied(view.node, w) = Layered(view.node, w.data)
      BY <2>4 DEF Applied
    <3> HIDE DEF r
    <3>5. QED BY <2>4, <3>1, <3>3, <3>4, <3>6 DEF Shows, ShowsBut, Like
  <2>5. QED BY <2>1, <2>2, <2>3, <2>4
<1>5. Shown'
  BY <1>1, <1>2, <1>4 DEF Shown, Pending
<1>6. Records'
  BY <1>1, <1>2, <1>3, RecordsKept
<1>7. Awaits'
  BY <1>1, <1>2, <1>3, <1>4 DEF Awaits, AsksFor, CanSendWrites
<1>8. QED BY <1>4, <1>5, <1>6, <1>7, ViewPartsPrimed DEF w

LEMMA ReceiveRevokedShows ==
  ASSUME LinkInv, PutsInv, ~crashed, ViewInv, ReceiveRevoked PROVE ViewInv'
<1>1. Shown /\ Records /\ Awaits
  BY ViewParts
<1>2. /\ toClient # <<>> /\ Head(toClient).type = "revoked" /\ toClient' = Tail(toClient)
      /\ listens' = [listens EXCEPT ![Head(toClient).query] = 0]
      /\ view' = IF Head(toClient).query = Data THEN NoView ELSE view
      /\ UNCHANGED <<conn, toServer, writes, allWrites, visible, store, foreign>>
  BY DEF ReceiveRevoked, ListenRevoked
<1>3. Typed(toClient') /\ \A id : AsksFor(toClient, id) => AsksFor(toClient', id)
  BY <1>1, <1>2, WiresAre, HeadTaken DEF Records
<1>4. Records'
  BY <1>1, <1>2, <1>3, RecordsKept
<1>5. CASE Head(toClient).query = Data
  <2>1. Shown' /\ Awaits'
    BY <1>1, <1>2, <1>5, NoViewShows DEF Shown, Pending, Awaits
  <2>2. QED BY <1>4, <2>1, ViewPartsPrimed
<1>6. CASE Head(toClient).query # Data
  <2>1. listens'[Data] = listens[Data] /\ view' = view
    <3>1. listens \in [Query -> Nat]
      BY DEF LinkInv, LinkTypeOK
    <3>2. QED BY <1>2, <1>6, <3>1, ClientAssumption
  <2>2. Awaits'
    <3>1. AsksFor(toServer, listens[Data]) \/ AsksFor(toClient, listens[Data]) =>
            AsksFor(toServer', listens'[Data]) \/ AsksFor(toClient', listens'[Data])
      BY <1>2, <1>3, <2>1
    <3>2. CanSendWrites' = CanSendWrites
      BY <1>2 DEF CanSendWrites
    <3>3. QED BY <1>1, <2>1, <3>1, <3>2 DEF Awaits, AsksFor
  <2>3. QED BY <1>1, <1>2, <1>4, <2>1, <2>2, ShownKept, ViewPartsPrimed
<1>7. QED BY <1>5, <1>6

-----------------------------------------------------------------------------
(* Answers to writes.                                                      *)

LEMMA NoAnswer ==
  ASSUME NEW v, Acknowledge(<<>>, v)
  PROVE  allWrites' = allWrites /\ visible' = visible /\ view' = v
<1> DEFINE b == [all |-> allWrites, vis |-> visible, view |-> v, stray |-> FALSE]
<1>1. /\ allWrites' = Acked(b, <<>>).all /\ visible' = Acked(b, <<>>).vis
      /\ view' = Acked(b, <<>>).view
  BY DEF Acknowledge, Acked
<1>2. b.all = allWrites /\ b.vis = visible /\ b.view = v
  OBVIOUS
<1> HIDE DEF b
<1>3. DOMAIN <<>> = 1 .. 0
  OBVIOUS
<1>4. PICK g : Chained(g, b, <<>>, 0) /\ Acked(b, <<>>) = g[0]
  BY <1>3, Folded
<1>5. Acked(b, <<>>) = b
  BY <1>4 DEF Chained
<1>6. QED BY <1>1, <1>2, <1>5

\* Answers to the first writes, for a view that knows everything.
LEMMA AnswersShow ==
  ASSUME Books, Records, Shown, NEW v \in ViewRecord, v.on => Shows(v, visible) /\ v.full,
         NEW answers, Acknowledge(answers, v), writes' = writes,
         NEW n \in Nat, DOMAIN answers = 1 .. n,
         \A i \in 1 .. n : answers[i].put \in outstanding \cup Held,
         \A i, j \in 1 .. n : i < j => answers[i].put < answers[j].put,
         \A p \in (outstanding \cup Held) \ {answers[i].put : i \in 1 .. n} :
           \A i \in 1 .. n : answers[i].put < p
  PROVE  Shown' /\ Same(view', v)
<1> DEFINE b == [all |-> allWrites, vis |-> visible, view |-> v, stray |-> FALSE]
           S == outstanding \cup Held
           e == Acked(b, answers)
<1>1. allWrites' = e.all /\ visible' = e.vis /\ view' = e.view
  BY DEF Acknowledge, Acked
<1>2. IsTree(b) /\ b.all = allWrites /\ b.vis = visible /\ b.view = v
  BY DEF IsTree
<1>3. /\ S \in SUBSET Nat /\ Lists(allWrites, S)
      /\ \A p \in S : writes[p] \in WriteRecord
  <2>1. /\ S \subseteq 1 .. Len(writes) /\ Lists(allWrites, S)
        /\ Len(writes) \in Nat /\ DOMAIN writes = 1 .. Len(writes)
    BY WireFacts DEF Books, PutsPending
  <2>2. QED BY <2>1 DEF Records
<1> HIDE DEF b, S
<1>4. Good(b)
  BY <1>2, PendingNamed DEF Good, Shown
<1>5. /\ \A i \in 1 .. n : answers[i].put \in S
      /\ \A p \in S \ {answers[i].put : i \in 1 .. n} : \A i \in 1 .. n : answers[i].put < p
  BY DEF S
<1>6. Lists(b.all, S)
  BY <1>2, <1>3
<1>7. Good(e) /\ Same(e.view, b.view)
  BY <1>2, <1>3, <1>4, <1>5, <1>6, AckInOrder
<1>8. Lists(e.all, S \ {answers[i].put : i \in 1 .. n})
  <2>1. ASSUME NEW i \in 1 .. n, NEW j \in 1 .. n, i < j PROVE answers[i].put # answers[j].put
    <3>1. answers[i].put < answers[j].put /\ answers[i].put \in Nat
      BY <1>3, <1>5, <2>1
    <3>2. QED BY <3>1
  <2>2. /\ \A i, j \in 1 .. n : i < j => answers[i].put # answers[j].put
        /\ \A i \in 1 .. n : answers[i].put \in S
    BY <1>5, <2>1
  <2>3. IsTree(b) /\ S \in SUBSET Nat
    BY <1>2, <1>3
  <2>4. /\ Lists(Acked(b, answers).all, S \ {answers[i].put : i \in 1 .. n})
        /\ Acked(b, answers).stray = b.stray
    BY <1>6, <2>2, <2>3, AckAll
  <2>5. QED BY <2>4
<1> HIDE DEF e
<1>9. e.vis \in Tree
  <2> DEFINE U == S \ {answers[i].put : i \in 1 .. n}
  <2>1. U \in SUBSET Nat /\ Lists(e.all, U) /\ \A p \in U : writes[p] \in WriteRecord
    BY <1>3, <1>8
  <2> HIDE DEF U
  <2>2. LayerTree(Named(e.all)) \in Tree
    BY <2>1, NamedWrites
  <2>3. QED BY <1>7, <2>2 DEF Good
<1>10. Pending' = Named(e.all)
  BY <1>1 DEF Pending, Named
<1>11. Shown'
  BY <1>1, <1>7, <1>9, <1>10 DEF Shown, Good
<1>12. QED BY <1>1, <1>2, <1>7, <1>11

LEMMA NoneAsked ==
  ASSUME NEW w, IsWire(w), ListensIn(w) = 0, NEW id PROVE ~AsksFor(w, id)
<1>1. ListenAt(w) = {}
  BY WireFacts, FS_EmptySet DEF ListensIn, ListenAt
<1>2. QED BY <1>1 DEF AsksFor, ListenAt

\* While every listen is answered, a view knows everything.
LEMMA AllKnown ==
  ASSUME LinkInv, Awaits, CanSendWrites, unacked = 0, view.on PROVE view.full
<1>1. ListensIn(toServer) = 0 /\ ListensIn(toClient) = 0
  BY Facts
<1>2. QED BY <1>1, WiresAre, NoneAsked DEF Awaits

LEMMA ReceivePutShows ==
  ASSUME LinkInv, PutsInv, ~crashed, ViewInv, ReceivePut PROVE ViewInv' /\ Same(view', view)
<1> DEFINE m == Head(toClient)
           p == Head(toClient).put
<1>1. Shown /\ Records /\ Awaits
  BY ViewParts
<1>2. /\ toClient # <<>> /\ m.type = "put" /\ toClient' = Tail(toClient)
      /\ Acknowledge(AckNow, view)
      /\ UNCHANGED <<conn, listens, toServer, writes, store, foreign>>
  BY DEF ReceivePut, PutAnswered
<1>3. Books /\ UnderWay
  BY BooksAndWires
<1>4. Typed(toClient') /\ \A id : AsksFor(toClient, id) => AsksFor(toClient', id)
  BY <1>1, <1>2, WiresAre, HeadTaken DEF Records
<1>5. Records'
  BY <1>1, <1>2, <1>4, RecordsKept
<1>6. Shown' /\ Same(view', view)
  <2>1. CASE p \in outstanding /\ unacked = 0
    <3>1. AckNow = <<m>>
      BY <2>1 DEF AckNow
    <3>2. CanSendWrites
      BY <1>2, <1>3, FirstAnswer
    <3>3. view \in ViewRecord /\ (view.on => Shows(view, visible) /\ view.full)
      BY <1>1, <2>1, <3>2, AllKnown DEF Shown
    <3>4. putsToAck = <<>>
      BY <2>1, <3>2 DEF LinkInv, AcksReleased
    <3>5. Held = {}
      <4>1. DOMAIN putsToAck = {}
        BY <3>4
      <4>2. QED BY <4>1 DEF Held
    <3>6. outstanding \subseteq Nat
      BY <1>3 DEF Books, PutsPending
    <3>7. ASSUME NEW q \in (outstanding \cup Held) \ {p} PROVE p < q
      BY <1>2, <1>3, <3>5, <3>6, <3>7, OthersLater
    <3>8. DOMAIN <<m>> = 1 .. 1 /\ <<m>>[1].put = p
      OBVIOUS
    <3>9. /\ {<<m>>[i].put : i \in 1 .. 1} = {p}
          /\ \A i \in 1 .. 1 : <<m>>[i].put = p
          /\ \A i, j \in 1 .. 1 : i < j => <<m>>[i].put < <<m>>[j].put
      BY <3>8
    <3> HIDE DEF m, p
    <3> DEFINE answers == <<m>>
    <3>10. /\ Acknowledge(answers, view) /\ DOMAIN answers = 1 .. 1
           /\ \A i \in 1 .. 1 : answers[i].put \in outstanding \cup Held
           /\ \A i, j \in 1 .. 1 : i < j => answers[i].put < answers[j].put
           /\ \A q \in (outstanding \cup Held) \ {answers[i].put : i \in 1 .. 1} :
                \A i \in 1 .. 1 : answers[i].put < q
      BY <1>2, <2>1, <3>1, <3>7, <3>8, <3>9
    <3> HIDE DEF answers
    <3>11. QED BY <1>1, <1>2, <1>3, <3>3, <3>10, AnswersShow
  <2>2. CASE ~(p \in outstanding /\ unacked = 0)
    <3>1. AckNow = <<>>
      BY <2>2 DEF AckNow
    <3>2. UNCHANGED <<allWrites, visible, view>>
      BY <1>2, <3>1, NoAnswer
    <3>3. QED BY <1>1, <1>2, <3>2, ShownKept, SameItself
  <2>3. QED BY <2>1, <2>2
<1>7. Awaits'
  BY <1>1, <1>2, <1>4, <1>6, AwaitsKept DEF CanSendWrites, Same
<1>8. QED BY <1>5, <1>6, <1>7, ViewPartsPrimed

LEMMA CompleteIsView ==
  ASSUME NEW vis \in Tree, NEW v \in ViewRecord
  PROVE  /\ ListenComplete(v, vis) \in ViewRecord /\ ListenComplete(v, vis).on = v.on
         /\ ListenComplete(v, vis).node = v.node
<1> DEFINE u == [v EXCEPT !.full = TRUE]
           c == CompleteEventCache(vis, v.node)
           t == [u EXCEPT !.ev = c, !.evFull = TRUE]
<1>1. u \in ViewRecord /\ u.on = v.on /\ u.node = v.node /\ v.node \in Node
  BY DEF ViewRecord
<1>2. c \in Node
  BY <1>1, Cached, AppliedTo
<1> HIDE DEF u, c
<1>3. t \in ViewRecord /\ t.on = v.on /\ t.node = v.node
  BY <1>1, <1>2 DEF ViewRecord
<1>4. ListenComplete(v, vis) = u \/ ListenComplete(v, vis) = t
  BY <1>1 DEF ListenComplete, EventsAt, u, c
<1> HIDE DEF t
<1>5. QED BY <1>1, <1>3, <1>4

LEMMA ReceiveListenShows ==
  ASSUME LinkInv, PutsInv, ~crashed, ViewInv, ReceiveListen
  PROVE  /\ ViewInv' /\ CanSendWrites
         /\ ~Own(Head(toClient)) => Same(view', view)
         /\ Own(Head(toClient)) /\ ~Head(toClient).ok => ~view'.on
         /\ Own(Head(toClient)) /\ Head(toClient).ok =>
              view'.on = view.on /\ view'.node = view.node /\ (view.on => view'.full)
<1> DEFINE m == Head(toClient)
           own == m.query = Data /\ Current(m)
           v == IF m.query # Data \/ ~Current(m) THEN view
                ELSE IF m.ok THEN ListenComplete(view, visible) ELSE NoView
<1>1. Shown /\ Records /\ Awaits
  BY ViewParts
<1>2. /\ toClient # <<>> /\ m.type = "listen" /\ toClient' = Tail(toClient)
      /\ listens' = IF Current(m) /\ ~m.ok THEN [listens EXCEPT ![m.query] = 0] ELSE listens
      /\ Acknowledge(AckPuts, v)
      /\ UNCHANGED <<conn, toServer, writes, store, foreign>>
  BY DEF ReceiveListen, ListenAnswered
<1>3. /\ Typed(toClient')
      /\ \A id : AsksFor(toClient, id) =>
           AsksFor(toClient', id) \/ (m.query = Data /\ m.id = id)
  BY <1>1, <1>2, WiresAre, HeadTaken DEF Records
<1>4. Records'
  BY <1>1, <1>2, <1>3, RecordsKept
<1>5. Books /\ UnderWay
  BY BooksAndWires
<1>6. CanSendWrites
  <2>1. Connected
    BY <1>2, Facts
  <2>2. QED BY <1>2, <2>1 DEF LinkInv, RestoreNext, Connected, CanSendWrites
<1>7. listens[Data] \in Nat /\ listens \in [Query -> Nat]
  BY ClientAssumption DEF LinkInv, LinkTypeOK
<1>8. /\ v \in ViewRecord /\ (v.on => view.on /\ Shows(v, visible))
      /\ own => (v.on => v.full)
      /\ ~own => v = view
      /\ own /\ m.ok => v.on = view.on /\ v.node = view.node
      /\ own /\ ~m.ok => ~v.on
  <2>1. CASE ~own
    BY <1>1, <2>1 DEF Shown
  <2>2. CASE own /\ ~m.ok
    <3>1. v = NoView
      BY <2>2
    <3>2. QED BY <2>2, <3>1, NoViewShows
  <2>3. CASE own /\ m.ok
    <3> DEFINE c == ListenComplete(view, visible)
    <3>1. v = c
      BY <2>3
    <3>2. c \in ViewRecord /\ c.on = view.on /\ c.node = view.node
      BY <1>1, CompleteIsView DEF Shown
    <3>3. ASSUME view.on PROVE Shows(c, visible) /\ c.full
      BY <1>1, <3>3, ListenCompleteShows DEF Shown
    <3> HIDE DEF c
    <3>4. QED BY <2>3, <3>1, <3>2, <3>3
  <2>4. QED BY <2>1, <2>2, <2>3
<1> HIDE DEF v
<1>9. Shown' /\ Same(view', v)
  <2>1. CASE unacked # 1 \/ putsToAck = <<>>
    <3>1. AckPuts = <<>>
      BY <2>1 DEF AckPuts
    <3>2. allWrites' = allWrites /\ visible' = visible /\ view' = v
      BY <1>2, <3>1, NoAnswer
    <3>3. QED BY <1>1, <1>2, <1>8, <3>2, SameItself DEF Shown, Pending
  <2>2. CASE unacked = 1 /\ putsToAck # <<>>
    <3> DEFINE n == Len(putsToAck)
    <3>1. AckPuts = putsToAck
      BY <2>2 DEF AckPuts
    <3>2. /\ n \in Nat /\ DOMAIN putsToAck = 1 .. n
          /\ \A i, j \in 1 .. n : i < j => putsToAck[i].put < putsToAck[j].put
          /\ \A h \in Held, q \in outstanding : h < q
      BY <1>5, WireFacts DEF Books, PutsPending
    <3>3. Held = {putsToAck[i].put : i \in 1 .. n}
      BY <3>2 DEF Held
    <3>4. v.on => Shows(v, visible) /\ v.full
      <4>1. ListensIn(toServer) = 0 /\ ListensIn(Tail(toClient)) = 0
        <5>1. ListensIn(toClient) = ListensIn(Tail(toClient)) + 1 /\ IsWire(Tail(toClient))
          BY <1>2, WiresAre, FirstTaken
        <5>2. ListensIn(Tail(toClient)) \in Nat
          BY <5>1, WireFacts
        <5>3. 1 = ListensIn(toServer) + ListensIn(toClient) /\ ListensIn(toServer) \in Nat
          BY <2>2, Facts
        <5>4. QED BY <5>1, <5>2, <5>3
      <4>2. ~AsksFor(toServer, listens[Data]) /\ ~AsksFor(Tail(toClient), listens[Data])
        BY <1>2, <4>1, WiresAre, FirstTaken, NoneAsked
      <4>3. ASSUME ~own PROVE view.on => view.full
        <5>1. ~AsksFor(toClient, listens[Data])
          BY <1>2, <1>3, <4>2, <4>3 DEF Current
        <5>2. QED BY <1>1, <1>6, <4>2, <5>1 DEF Awaits
      <4>4. QED BY <1>8, <4>3
    <3> HIDE DEF n
    <3>5. /\ Acknowledge(putsToAck, v)
          /\ \A i \in 1 .. n : putsToAck[i].put \in outstanding \cup Held
          /\ \A p \in (outstanding \cup Held) \ {putsToAck[i].put : i \in 1 .. n} :
               \A i \in 1 .. n : putsToAck[i].put < p
      BY <1>2, <3>1, <3>2, <3>3
    <3>6. QED BY <1>1, <1>2, <1>5, <1>8, <3>2, <3>4, <3>5, AnswersShow
  <2>3. QED BY <2>1, <2>2
<1>10. Awaits'
  <2>1. CASE ~own
    <3>1. v = view /\ Same(view', view)
      BY <1>8, <1>9, <2>1
    <3>2. listens'[Data] = listens[Data]
      BY <1>2, <1>7, <2>1, ClientAssumption
    <3>3. AsksFor(toClient, listens[Data]) => AsksFor(toClient', listens[Data])
      BY <1>3, <2>1 DEF Current
    <3> HIDE DEF own
    <3>4. QED BY <1>1, <1>2, <1>6, <3>1, <3>2, <3>3 DEF Awaits, AsksFor, Same, Like
  <2>2. CASE own /\ m.ok
    <3>1. listens' = listens
      BY <1>2, <2>2
    <3>2. view'.on => view.on /\ view'.full
      BY <1>8, <1>9, <2>2 DEF Same, Like
    <3>3. QED BY <1>1, <3>1, <3>2 DEF Awaits
  <2>3. CASE own /\ ~m.ok
    <3>1. v = NoView
      BY <2>3 DEF v
    <3>2. ~view'.on
      BY <1>9, <3>1, NoViewShows DEF Same, Like
    <3>3. QED BY <3>2 DEF Awaits
  <2>4. QED BY <2>1, <2>2, <2>3
<1>11. ViewInv'
  BY <1>4, <1>9, <1>10, ViewPartsPrimed
<1>12. Own(m) <=> own
  BY <1>2, <1>7 DEF Own, Current
<1> HIDE DEF own, m
<1>13. QED BY <1>6, <1>8, <1>9, <1>11, <1>12 DEF Same, Like, m

-----------------------------------------------------------------------------
(* Every step, and what follows.                                           *)

LEMMA StepShows == ASSUME LinkInv, PutsInv, ViewInv, Next PROVE ViewInv'
<1> ~crashed
  BY DEF Next
<1>1. CASE User
  BY <1>1, ObserveShows, RemoveObserverShows, PurgeShows, WriteShows DEF User
<1>2. CASE Receive
  BY <1>2, ReceivePutShows, ReceiveListenShows, ReceiveDataShows, ReceiveRevokedShows,
     AuthAnsweredShows DEF Receive, ReceiveAuth
<1>3. CASE ServerStep
  BY <1>3, ServerPutShows, ServerListenShows, ServeAuthShows, ServeSilentShows DEF ServerStep
<1>4. CASE Refuse
  BY <1>4, ServerPutShows, ServerListenShows, ServeAuthShows, RevokeShows DEF Refuse
<1>5. CASE Connect
  BY <1>5, RetryFiresShows, ReadyShows, TokenFetchedShows DEF Connect
<1>6. CASE Trouble
  BY <1>6, TokenFailedShows, ConnectionLostShows, RefreshAuthTokenShows, InterruptShows
     DEF Trouble
<1>7. CASE GoOnline
  BY <1>7, ResumeShows DEF GoOnline
<1>8. CASE \E f \in foreign : OtherClient(f[1], f[2])
  BY <1>8, OtherClientShows
<1>9. QED BY <1>1, <1>2, <1>3, <1>4, <1>5, <1>6, <1>7, <1>8 DEF Next

LEMMA StutterShows == ASSUME ViewInv, UNCHANGED vars PROVE ViewInv'
<1>1. UNCHANGED <<writes, allWrites, visible, view, store, foreign, conn, listens, toServer,
                  toClient>>
  BY DEF vars, linkVars, dataVars, server, wires
<1>2. Pending' = Pending /\ CanSendWrites' = CanSendWrites
  BY <1>1 DEF Pending, CanSendWrites
<1>3. ViewTypeOK'
  BY <1>1 DEF ViewInv, ViewTypeOK
<1>4. ViewAwaits'
  BY <1>1, <1>2 DEF ViewInv, ViewAwaits, Asked, Own
<1>5. ViewExact'
  BY <1>1, <1>2 DEF ViewInv, ViewExact
<1>6. QED BY <1>3, <1>4, <1>5 DEF ViewInv

LEMMA InitShows == ASSUME Init PROVE ViewInv
<1>1. /\ writes = <<>> /\ allWrites = <<>> /\ toClient = <<>> /\ visible = EmptyWrite
      /\ view = NoView /\ store = [k \in Key |-> First] /\ foreign = Foreign
  BY DEF Init, LinkInit
<1>2. NoView \in ViewRecord /\ ~NoView.on
  BY NoViewShows
<1>3. ViewTypeOK
  <2>1. DOMAIN writes = {} /\ DOMAIN toClient = {}
    BY <1>1
  <2>2. store \in Node /\ foreign \subseteq Key \X Value
    BY <1>1, ClientAssumption DEF Node
  <2>3. QED BY <1>1, <1>2, <2>1, <2>2 DEF ViewTypeOK, ViewRecord
<1>4. Pending = <<>>
  BY <1>1 DEF Pending
<1>5. QED BY <1>1, <1>2, <1>3, <1>4, NothingLayered DEF ViewInv, ViewAwaits, ViewExact

-----------------------------------------------------------------------------
(* What the view follows, wire by wire.                                    *)

Mine(m, id) == m.type = "listen" /\ m.query = Data /\ m.id = id
ForData(m) == m.type = "listen" /\ m.query = Data
EndsFor(m, id) == (m.type = "revoked" /\ m.query = Data) \/ (Mine(m, id) /\ ~m.ok)

NumberedIn(w, n) == \A i \in DOMAIN w : w[i].type = "listen" => w[i].id \in 0 .. n

Word(s, id) ==
  \A j \in DOMAIN s : s[j].type = "unlisten" /\ s[j].query = Data =>
    \E i \in DOMAIN s : j < i /\ Mine(s[i], id)

Hashed(s, id, n, quiet) ==
  \A i \in DOMAIN s : Mine(s[i], id) /\ s[i].hash # EmptyNode =>
    s[i].hash = n /\ quiet /\ \A j \in DOMAIN s \ {i} : ~ForData(s[j])

Whole(c, id) ==
  \A i \in DOMAIN c : Mine(c[i], id) /\ c[i].ok =>
    \/ \E j \in DOMAIN c : j < i /\ SaysAll(c[j])
    \/ \A j \in DOMAIN c : j < i => c[j].type # "data"

Over(c, id) == \E i \in DOMAIN c : EndsFor(c[i], id)

Reach(c, n, st, k) ==
  /\ (\A i \in DOMAIN c : ~Says(c[i], k)) => n[k] = st[k]
  /\ \A i \in DOMAIN c :
       Says(c[i], k) /\ (\A j \in DOMAIN c : i < j => ~Says(c[j], k)) =>
         Applied(st, c[i].write)[k] = st[k]

Quiet(c) == Data \notin session /\ Untold(c)

Numbers ==
  /\ \A q \in Query : listens[q] <= made
  /\ NumberedIn(toServer, made) /\ NumberedIn(toClient, made)

Started(id) ==
  CanSendWrites /\ ~AsksFor(toServer, id) /\ ~Over(toClient, id) =>
    Data \in session /\ \A k \in Key : Reach(toClient, view.node, store, k)

Follows(id) ==
  /\ Word(toServer, id)
  /\ ~CanSendWrites /\ view.node # EmptyNode => Quiet(toClient) /\ Unasked(toServer)
  /\ Hashed(toServer, id, view.node, Quiet(toClient))
  /\ ~view.full => Whole(toClient, id)
  /\ Started(id)

Tracks == Numbers /\ (view.on => Follows(listens[Data]))

LEMMA TracksIs == ViewFollows <=> Tracks
<1>1. Numbered <=> Numbers
  BY DEF Numbered, Numbers, NumberedIn
<1>2. LastWord <=> Word(toServer, listens[Data])
  BY DEF LastWord, Word, Own, Mine
<1>3. HashHolds <=> /\ ~CanSendWrites /\ view.node # EmptyNode => Quiet(toClient) /\ Unasked(toServer)
                    /\ Hashed(toServer, listens[Data], view.node, Quiet(toClient))
  BY DEF HashHolds, Hashed, Quiet, Own, Mine, ForData
<1>4. CompleteFirst <=> (~view.full => Whole(toClient, listens[Data]))
  BY DEF CompleteFirst, Whole, Own, Mine
<1>5. Served <=> Started(listens[Data])
  BY DEF Served, Started, Asked, AsksFor, Own, Mine, Over, Ends, EndsFor, Reaches, Reach
<1>6. QED BY <1>1, <1>2, <1>3, <1>4, <1>5 DEF ViewFollows, Tracks, Follows

LEMMA TracksIsPrimed == ViewFollows' <=> Tracks'
<1>1. Numbered' <=> Numbers'
  BY DEF Numbered, Numbers, NumberedIn
<1>2. LastWord' <=> Word(toServer', listens'[Data])
  BY DEF LastWord, Word, Own, Mine
<1>3. HashHolds' <=> /\ ~CanSendWrites' /\ view'.node # EmptyNode => Quiet(toClient)' /\ Unasked(toServer')
                     /\ Hashed(toServer', listens'[Data], view'.node, Quiet(toClient)')
  BY DEF HashHolds, Hashed, Quiet, Own, Mine, ForData
<1>4. CompleteFirst' <=> (~view'.full => Whole(toClient', listens'[Data]))
  BY DEF CompleteFirst, Whole, Own, Mine
<1>5. Served' <=> Started(listens[Data])'
  BY DEF Served, Started, Asked, AsksFor, Own, Mine, Over, Ends, EndsFor, Reaches, Reach
<1>6. QED BY <1>1, <1>2, <1>3, <1>4, <1>5 DEF ViewFollows, Tracks, Follows

-----------------------------------------------------------------------------
(* A message put at the end of a wire, or taken out of it.                 *)

LEMMA AppendedAt ==
  ASSUME NEW w, IsWire(w), NEW m
  PROVE  LET u == Append(w, m)
         IN /\ Len(w) \in Nat /\ DOMAIN w = 1 .. Len(w) /\ DOMAIN u = 1 .. Len(w) + 1
            /\ u[Len(w) + 1] = m /\ \A i \in 1 .. Len(w) : u[i] = w[i]
<1>1. Len(w) \in Nat /\ DOMAIN w = 1 .. Len(w) /\ w \in Seq({w[i] : i \in DOMAIN w})
  BY WireFacts DEF IsWire
<1>2. QED BY <1>1

\* u is w without w[i], and f tells where its messages were.
Without(f, u, w, i) ==
  /\ \A j \in DOMAIN u : f[j] \in DOMAIN w /\ f[j] # i /\ u[j] = w[f[j]]
  /\ \A l \in DOMAIN w : l # i => \E j \in DOMAIN u : f[j] = l
  /\ \A a, b \in DOMAIN u : a < b <=> f[a] < f[b]

LEMMA TakenOut ==
  ASSUME NEW w, IsWire(w), NEW i \in DOMAIN w
  PROVE  \E f : Without(f, RemoveAt(w, i), w, i)
<1> DEFINE u == RemoveAt(w, i)
           n == Len(w)
           f == [j \in DOMAIN u |-> IF j < i THEN j ELSE j + 1]
<1>1. /\ n \in Nat /\ DOMAIN w = 1 .. n /\ i \in 1 .. n
      /\ DOMAIN u = 1 .. n - 1
      /\ \A j \in 1 .. i - 1 : u[j] = w[j]
      /\ \A j \in i .. n - 1 : u[j] = w[j + 1]
  BY RemovedAt
<1> HIDE DEF u, n
<1>2. ASSUME NEW j \in DOMAIN u PROVE f[j] \in DOMAIN w /\ f[j] # i /\ u[j] = w[f[j]]
  <2>1. CASE j < i
    <3>1. j \in 1 .. i - 1 /\ f[j] = j
      BY <1>1, <2>1
    <3>2. QED BY <1>1, <3>1
  <2>2. CASE ~(j < i)
    <3>1. j \in i .. n - 1 /\ f[j] = j + 1
      BY <1>1, <2>2
    <3>2. QED BY <1>1, <3>1
  <2>3. QED BY <2>1, <2>2
<1>3. ASSUME NEW l \in DOMAIN w, l # i PROVE \E j \in DOMAIN u : f[j] = l
  <2>1. CASE l < i
    <3>1. l \in DOMAIN u /\ f[l] = l
      BY <1>1, <2>1
    <3>2. QED BY <3>1
  <2>2. CASE ~(l < i)
    <3>1. l - 1 \in DOMAIN u /\ ~(l - 1 < i) /\ (l - 1) + 1 = l
      BY <1>1, <1>3, <2>2
    <3>2. f[l - 1] = l
      BY <3>1
    <3>3. QED BY <3>1, <3>2
  <2>3. QED BY <2>1, <2>2
<1>4. ASSUME NEW a \in DOMAIN u, NEW b \in DOMAIN u PROVE a < b <=> f[a] < f[b]
  <2>1. a \in Nat /\ b \in Nat /\ i \in Nat
    BY <1>1
  <2>2. QED BY <2>1
<1> HIDE DEF f
<1>5. QED BY <1>2, <1>3, <1>4 DEF Without, u

-----------------------------------------------------------------------------
(* Requests.                                                               *)

\* What is sent that is neither a listen nor an unlisten.
LEMMA OtherRequest ==
  ASSUME NEW s, IsWire(s), NEW m, m.type \notin {"listen", "unlisten"}
  PROVE  /\ \A n : NumberedIn(s, n) => NumberedIn(Append(s, m), n)
         /\ \A id : Word(s, id) => Word(Append(s, m), id)
         /\ \A id, n, q : Hashed(s, id, n, q) => Hashed(Append(s, m), id, n, q)
         /\ Unasked(s) => Unasked(Append(s, m))
         /\ \A id : AsksFor(s, id) <=> AsksFor(Append(s, m), id)
<1> DEFINE u == Append(s, m)
           k == Len(s)
<1>1. /\ k \in Nat /\ DOMAIN s = 1 .. k /\ DOMAIN u = 1 .. k + 1
      /\ u[k + 1] = m /\ \A i \in 1 .. k : u[i] = s[i]
  BY AppendedAt
<1> HIDE DEF u, k
<1>2. /\ \A i \in DOMAIN s : i \in DOMAIN u /\ u[i] = s[i]
      /\ \A i \in DOMAIN u : i \in DOMAIN s \/ u[i] = m
  BY <1>1
<1>3. \A n : NumberedIn(s, n) => NumberedIn(u, n)
  BY <1>2 DEF NumberedIn
<1>4. \A id : Word(s, id) => Word(u, id)
  BY <1>2 DEF Word
<1>5. \A id, n, q : Hashed(s, id, n, q) => Hashed(u, id, n, q)
  BY <1>2 DEF Hashed, Mine, ForData
<1>6. Unasked(s) => Unasked(u)
  BY <1>2 DEF Unasked
<1>7. \A id : AsksFor(s, id) <=> AsksFor(u, id)
  BY <1>2 DEF AsksFor
<1>8. QED BY <1>3, <1>4, <1>5, <1>6, <1>7 DEF u

\* A request the server takes.
LEMMA RequestTaken ==
  ASSUME NEW s, IsWire(s), NEW i \in DOMAIN s
  PROVE  LET u == RemoveAt(s, i)
         IN /\ \A n : NumberedIn(s, n) => NumberedIn(u, n)
            /\ \A id : Word(s, id) /\ (i = 1 \/ ~Mine(s[i], id)) => Word(u, id)
            /\ \A id, n, q : Hashed(s, id, n, q) => Hashed(u, id, n, q /\ ~ForData(s[i]))
            /\ Unasked(s) => Unasked(u)
            /\ \A id : AsksFor(u, id) => AsksFor(s, id)
            /\ \A id : AsksFor(s, id) /\ ~AsksFor(u, id) => Mine(s[i], id)
<1> DEFINE u == RemoveAt(s, i)
<1>1. PICK f : Without(f, u, s, i)
  BY TakenOut
<1>2. \A l \in DOMAIN s : l \in Nat /\ l >= 1
  BY WireFacts
<1> HIDE DEF u
<1>3. \A n : NumberedIn(s, n) => NumberedIn(u, n)
  BY <1>1 DEF NumberedIn, Without
<1>4. ASSUME NEW id, Word(s, id), i = 1 \/ ~Mine(s[i], id) PROVE Word(u, id)
  <2>1. SUFFICES ASSUME NEW j \in DOMAIN u, u[j].type = "unlisten", u[j].query = Data
                 PROVE  \E a \in DOMAIN u : j < a /\ Mine(u[a], id)
    BY DEF Word
  <2>2. f[j] \in DOMAIN s /\ u[j] = s[f[j]]
    BY <1>1 DEF Without
  <2>3. PICK l \in DOMAIN s : f[j] < l /\ Mine(s[l], id)
    BY <1>4, <2>1, <2>2 DEF Word
  <2>4. l # i
    BY <1>2, <1>4, <2>2, <2>3
  <2>5. PICK a \in DOMAIN u : f[a] = l
    BY <1>1, <2>4 DEF Without
  <2>6. QED BY <1>1, <2>3, <2>5 DEF Without
<1>5. ASSUME NEW id, NEW n, NEW q, Hashed(s, id, n, q) PROVE Hashed(u, id, n, q /\ ~ForData(s[i]))
  <2>1. SUFFICES ASSUME NEW j \in DOMAIN u, Mine(u[j], id), u[j].hash # EmptyNode
                 PROVE  /\ u[j].hash = n /\ q /\ ~ForData(s[i])
                        /\ \A a \in DOMAIN u \ {j} : ~ForData(u[a])
    BY DEF Hashed
  <2>2. f[j] \in DOMAIN s /\ u[j] = s[f[j]] /\ f[j] # i
    BY <1>1 DEF Without
  <2>3. s[f[j]].hash = n /\ q /\ \A l \in DOMAIN s \ {f[j]} : ~ForData(s[l])
    BY <1>5, <2>1, <2>2 DEF Hashed
  <2>4. ASSUME NEW a \in DOMAIN u \ {j} PROVE ~ForData(u[a])
    <3>1. f[a] \in DOMAIN s /\ u[a] = s[f[a]] /\ (a < j <=> f[a] < f[j]) /\ (j < a <=> f[j] < f[a])
      BY <1>1 DEF Without
    <3>2. a < j \/ j < a
      BY WireFacts, Taken DEF u
    <3>3. f[a] # f[j]
      BY <1>2, <2>2, <3>1, <3>2
    <3>4. QED BY <2>3, <3>1, <3>3
  <2>5. QED BY <2>2, <2>3, <2>4
<1>6. Unasked(s) => Unasked(u)
  BY <1>1 DEF Unasked, Without
<1>7. \A id : AsksFor(u, id) => AsksFor(s, id)
  BY <1>1 DEF AsksFor, Without
<1>8. \A id : AsksFor(s, id) /\ ~AsksFor(u, id) => Mine(s[i], id)
  BY <1>1 DEF AsksFor, Mine, Without
<1>9. QED BY <1>3, <1>4, <1>5, <1>6, <1>7, <1>8 DEF u

-----------------------------------------------------------------------------
(* Answers and pushes.                                                     *)

\* What reaches the wire to the client.
LEMMA Arriving ==
  ASSUME NEW c, IsWire(c), NEW m
  PROVE  LET u == Append(c, m)
         IN /\ \A n : NumberedIn(c, n) /\ (m.type = "listen" => m.id \in 0 .. n) => NumberedIn(u, n)
            /\ Untold(c) /\ m.type # "data" => Untold(u)
            /\ \A id : Whole(c, id)
                         /\ (Mine(m, id) /\ m.ok => (\E j \in DOMAIN c : SaysAll(c[j])) \/ Untold(c))
                       => Whole(u, id)
            /\ \A id : Over(c, id) \/ EndsFor(m, id) => Over(u, id)
            /\ SaysAll(m) => \E j \in DOMAIN u : SaysAll(u[j])
            /\ \A n, st, k : Reach(c, n, st, k) /\ ~Says(m, k) => Reach(u, n, st, k)
            /\ \A n, st, k : Says(m, k) /\ Applied(st, m.write)[k] = st[k] => Reach(u, n, st, k)
<1> DEFINE u == Append(c, m)
           e == Len(c) + 1
<1>1. /\ Len(c) \in Nat /\ DOMAIN c = 1 .. Len(c) /\ DOMAIN u = 1 .. e
      /\ u[e] = m /\ \A i \in 1 .. Len(c) : u[i] = c[i]
  BY AppendedAt
<1> HIDE DEF u
<1>2. /\ e \in DOMAIN u /\ u[e] = m /\ e \notin DOMAIN c
      /\ \A i \in DOMAIN c : i \in DOMAIN u /\ u[i] = c[i] /\ i < e /\ ~(e < i)
      /\ \A i \in DOMAIN u : i \in DOMAIN c \/ i = e
      /\ ~(e < e)
  BY <1>1
<1> HIDE DEF e
<1>3. \A n : NumberedIn(c, n) /\ (m.type = "listen" => m.id \in 0 .. n) => NumberedIn(u, n)
  BY <1>2 DEF NumberedIn
<1>4. Untold(c) /\ m.type # "data" => Untold(u)
  BY <1>2 DEF Untold
<1>5. ASSUME NEW id, Whole(c, id),
             Mine(m, id) /\ m.ok => (\E j \in DOMAIN c : SaysAll(c[j])) \/ Untold(c)
      PROVE  Whole(u, id)
  <2>1. SUFFICES ASSUME NEW i \in DOMAIN u, Mine(u[i], id), u[i].ok
                 PROVE  \/ \E j \in DOMAIN u : j < i /\ SaysAll(u[j])
                        \/ \A j \in DOMAIN u : j < i => u[j].type # "data"
    BY DEF Whole
  <2>2. CASE i = e
    <3>1. (\E j \in DOMAIN c : SaysAll(c[j])) \/ Untold(c)
      BY <1>2, <1>5, <2>1, <2>2
    <3>2. CASE \E j \in DOMAIN c : SaysAll(c[j])
      BY <1>2, <2>2, <3>2
    <3>3. CASE Untold(c)
      BY <1>2, <2>2, <3>3 DEF Untold
    <3>4. QED BY <3>1, <3>2, <3>3
  <2>3. CASE i \in DOMAIN c
    <3>1. \/ \E j \in DOMAIN c : j < i /\ SaysAll(c[j])
          \/ \A j \in DOMAIN c : j < i => c[j].type # "data"
      BY <1>2, <1>5, <2>1, <2>3 DEF Whole
    <3>2. ~(e < i)
      BY <1>2, <2>3
    <3>3. QED BY <1>2, <3>1, <3>2
  <2>4. QED BY <1>2, <2>2, <2>3
<1>6. \A id : Over(c, id) \/ EndsFor(m, id) => Over(u, id)
  BY <1>2 DEF Over
<1>7. SaysAll(m) => \E j \in DOMAIN u : SaysAll(u[j])
  BY <1>2
<1>8. ASSUME NEW n, NEW st, NEW k, Reach(c, n, st, k), ~Says(m, k) PROVE Reach(u, n, st, k)
  <2>1. (\A i \in DOMAIN u : ~Says(u[i], k)) => n[k] = st[k]
    BY <1>2, <1>8 DEF Reach
  <2>2. ASSUME NEW i \in DOMAIN u, Says(u[i], k), \A j \in DOMAIN u : i < j => ~Says(u[j], k)
        PROVE  Applied(st, u[i].write)[k] = st[k]
    <3>1. i \in DOMAIN c /\ u[i] = c[i]
      BY <1>2, <1>8, <2>2
    <3>2. \A j \in DOMAIN c : i < j => ~Says(c[j], k)
      BY <1>2, <2>2
    <3>3. QED BY <1>8, <2>2, <3>1, <3>2 DEF Reach
  <2>3. QED BY <2>1, <2>2 DEF Reach
<1>9. ASSUME NEW n, NEW st, NEW k, Says(m, k), Applied(st, m.write)[k] = st[k] PROVE Reach(u, n, st, k)
  <2>1. ~ \A i \in DOMAIN u : ~Says(u[i], k)
    BY <1>2, <1>9
  <2>2. ASSUME NEW i \in DOMAIN u, Says(u[i], k), \A j \in DOMAIN u : i < j => ~Says(u[j], k)
        PROVE  i = e
    <3>1. ASSUME i \in DOMAIN c PROVE FALSE
      <4>1. i < e
        BY <1>2, <3>1
      <4>2. QED BY <1>2, <1>9, <2>2, <4>1
    <3>2. QED BY <1>2, <3>1
  <2>3. QED BY <1>2, <1>9, <2>1, <2>2 DEF Reach
<1>10. QED BY <1>3, <1>4, <1>5, <1>6, <1>7, <1>8, <1>9 DEF u

\* What the client takes from it.
LEMMA Arrived ==
  ASSUME NEW c, IsWire(c), c # <<>>
  PROVE  /\ \A n : NumberedIn(c, n) => NumberedIn(Tail(c), n)
         /\ Untold(c) => Untold(Tail(c))
         /\ \A id : Whole(c, id) /\ ~SaysAll(Head(c)) => Whole(Tail(c), id)
         /\ \A id : Over(c, id) => Over(Tail(c), id) \/ EndsFor(Head(c), id)
         /\ \A n, p, st, k :
              Reach(c, n, st, k)
                /\ (~Says(Head(c), k) => p[k] = n[k])
                /\ (Says(Head(c), k) /\ Applied(st, Head(c).write)[k] = st[k]
                      /\ (\A i \in DOMAIN Tail(c) : ~Says(Tail(c)[i], k)) => p[k] = st[k])
              => Reach(Tail(c), p, st, k)
<1> DEFINE u == RemoveAt(c, 1)
           m == c[1]
<1>1. Head(c) = m /\ 1 \in DOMAIN c /\ Tail(c) = u
  BY FirstTaken
<1>2. PICK f : Without(f, u, c, 1)
  BY <1>1, TakenOut
<1>3. \A l \in DOMAIN c : l \in Nat /\ l >= 1
  BY WireFacts
<1> HIDE DEF u
<1>4. \A n : NumberedIn(c, n) => NumberedIn(u, n)
  BY <1>2 DEF NumberedIn, Without
<1>5. Untold(c) => Untold(u)
  BY <1>2 DEF Untold, Without
<1>6. ASSUME NEW id, Whole(c, id), ~SaysAll(m) PROVE Whole(u, id)
  <2>1. SUFFICES ASSUME NEW i \in DOMAIN u, Mine(u[i], id), u[i].ok
                 PROVE  \/ \E j \in DOMAIN u : j < i /\ SaysAll(u[j])
                        \/ \A j \in DOMAIN u : j < i => u[j].type # "data"
    BY DEF Whole
  <2>2. f[i] \in DOMAIN c /\ u[i] = c[f[i]]
    BY <1>2 DEF Without
  <2>3. CASE \E l \in DOMAIN c : l < f[i] /\ SaysAll(c[l])
    <3>1. PICK l \in DOMAIN c : l < f[i] /\ SaysAll(c[l])
      BY <2>3
    <3>2. PICK j \in DOMAIN u : f[j] = l
      BY <1>2, <1>6, <3>1 DEF Without
    <3>3. u[j] = c[l] /\ j < i
      BY <1>2, <3>1, <3>2 DEF Without
    <3>4. QED BY <3>1, <3>3
  <2>4. CASE \A l \in DOMAIN c : l < f[i] => c[l].type # "data"
    BY <1>2, <2>4 DEF Without
  <2>5. QED BY <1>6, <2>1, <2>2, <2>3, <2>4 DEF Whole
<1>7. \A id : Over(c, id) => Over(u, id) \/ EndsFor(m, id)
  BY <1>2 DEF Over, Without
<1>8. ASSUME NEW n, NEW p, NEW st, NEW k, Reach(c, n, st, k), ~Says(m, k) => p[k] = n[k],
             Says(m, k) /\ Applied(st, m.write)[k] = st[k]
               /\ (\A i \in DOMAIN u : ~Says(u[i], k)) => p[k] = st[k]
      PROVE  Reach(u, p, st, k)
  <2>1. ASSUME NEW i \in DOMAIN u, Says(u[i], k), \A j \in DOMAIN u : i < j => ~Says(u[j], k)
        PROVE  Applied(st, u[i].write)[k] = st[k]
    <3>1. f[i] \in DOMAIN c /\ u[i] = c[f[i]] /\ f[i] # 1
      BY <1>2 DEF Without
    <3>2. ASSUME NEW l \in DOMAIN c, f[i] < l PROVE ~Says(c[l], k)
      <4>1. l # 1
        BY <1>3, <3>1, <3>2
      <4>2. PICK j \in DOMAIN u : f[j] = l
        BY <1>2, <4>1 DEF Without
      <4>3. u[j] = c[l] /\ i < j
        BY <1>2, <3>2, <4>2 DEF Without
      <4>4. QED BY <2>1, <4>3
    <3>3. QED BY <1>8, <2>1, <3>1, <3>2 DEF Reach
  <2>2. ASSUME \A i \in DOMAIN u : ~Says(u[i], k) PROVE p[k] = st[k]
    <3>1. \A l \in DOMAIN c : l # 1 => ~Says(c[l], k)
      BY <1>2, <2>2 DEF Without
    <3>2. CASE Says(m, k)
      <4>1. \A l \in DOMAIN c : 1 < l => ~Says(c[l], k)
        BY <3>1
      <4>2. Applied(st, m.write)[k] = st[k]
        BY <1>1, <1>8, <3>2, <4>1 DEF Reach
      <4>3. QED BY <1>8, <2>2, <3>2, <4>2
    <3>3. CASE ~Says(m, k)
      <4>1. n[k] = st[k]
        BY <1>8, <3>1, <3>3 DEF Reach
      <4>2. QED BY <1>8, <3>3, <4>1
    <3>4. QED BY <3>2, <3>3
  <2>3. QED BY <2>1, <2>2 DEF Reach
<1> HIDE DEF m
<1>9. QED BY <1>1, <1>4, <1>5, <1>6, <1>7, <1>8

-----------------------------------------------------------------------------
(* What a write says of a child.                                           *)

LEMMA SaidOf ==
  ASSUME NEW w \in WriteRecord, NEW n \in Node, NEW p \in Node, NEW k \in Key
  PROVE  /\ k \in Children(w) => Applied(n, w)[k] = Applied(p, w)[k]
         /\ k \notin Children(w) => Applied(n, w)[k] = n[k]
         /\ RootSet(w) => k \in Children(w)
<1>1. CASE RootSet(w)
  <2>1. w.op = "set" /\ w.at = Top /\ IsOverwrite(w)
    BY <1>1 DEF RootSet, IsOverwrite
  <2>2. Applied(n, w) = w.data /\ Applied(p, w) = w.data /\ Children(w) = Key
    BY <2>1 DEF Applied, Children
  <2>3. QED BY <2>2
<1>2. CASE w.op = "merge"
  <2>1. ~RootSet(w)
    BY <1>2 DEF RootSet, IsOverwrite
  <2>2. /\ Applied(n, w) = Layered(n, w.data) /\ Applied(p, w) = Layered(p, w.data)
        /\ Children(w) = DOMAIN w.data
    BY <1>2 DEF Applied, Children, IsOverwrite
  <2>3. QED BY <2>1, <2>2 DEF Layered
<1>3. CASE ~RootSet(w) /\ w.op # "merge"
  <2>1. w.op = "set" /\ w.at \in Key /\ w.at # Top
    BY <1>3, WriteKinds, PathAssumption DEF RootSet, IsOverwrite
  <2>2. /\ Applied(n, w) = [n EXCEPT ![w.at] = w.data] /\ Applied(p, w) = [p EXCEPT ![w.at] = w.data]
        /\ Children(w) = {w.at}
    BY <2>1 DEF Applied, Children, IsOverwrite
  <2>3. QED BY <1>3, <2>1, <2>2 DEF Node
<1>4. QED BY <1>1, <1>2, <1>3

\* The server's data changes, but not this child.
LEMMA ElsewhereChanged ==
  ASSUME NEW c, Typed(c), NEW n, NEW st \in Node, NEW q \in Node, NEW k \in Key, q[k] = st[k],
         Reach(c, n, st, k)
  PROVE  Reach(c, n, q, k)
<1>1. ASSUME NEW i \in DOMAIN c, Says(c[i], k) PROVE Applied(q, c[i].write)[k] = Applied(st, c[i].write)[k]
  <2>1. c[i].write \in WriteRecord /\ k \in Children(c[i].write)
    BY <1>1 DEF Typed, Says
  <2>2. QED BY <2>1, SaidOf
<1>2. QED BY <1>1 DEF Reach

-----------------------------------------------------------------------------
(* The connection comes and goes.                                          *)

LEMMA TracksKept ==
  ASSUME Tracks, Same(view', view), CanSendWrites' = CanSendWrites,
         UNCHANGED <<listens, made, wires, session, store>>
  PROVE  Tracks'
<1>1. /\ listens' = listens /\ made' = made /\ toServer' = toServer /\ toClient' = toClient
      /\ session' = session /\ store' = store
      /\ view'.on = view.on /\ view'.full = view.full /\ view'.node = view.node
  BY DEF wires, Same, Like
<1>2. Numbers'
  BY <1>1 DEF Tracks, Numbers
<1>3. view'.on => Follows(listens[Data])'
  BY <1>1 DEF Tracks, Follows, Started, Quiet
<1>4. QED BY <1>2, <1>3 DEF Tracks

LEMMA TracksFresh ==
  ASSUME Tracks, ~CanSendWrites', toClient' = <<>>, session' = {},
         \A i \in DOMAIN toServer' : toServer'[i].type \notin {"listen", "unlisten"},
         UNCHANGED <<listens, made>>
  PROVE  Tracks'
<1>1. DOMAIN toClient' = {}
  OBVIOUS
<1>2. Numbers'
  BY <1>1 DEF Tracks, Numbers, NumberedIn
<1>3. Follows(listens[Data])'
  BY <1>1 DEF Follows, Word, Untold, Quiet, Unasked, Hashed, Mine, Whole, Started
<1>4. QED BY <1>2, <1>3 DEF Tracks

LEMMA NothingSent ==
  ASSUME LinkInv, ~Connected
  PROVE  /\ toClient = <<>> /\ toServer = <<>> /\ session = {} /\ ~CanSendWrites
         /\ \A i \in DOMAIN toServer : toServer[i].type \notin {"listen", "unlisten"}
<1>1. toServer = <<>> /\ toClient = <<>> /\ session = {}
  BY DEF LinkInv
<1>2. QED BY <1>1 DEF Connected, CanSendWrites

LEMMA RetryFiresTracks ==
  ASSUME LinkInv, Tracks, RetryFires, UNCHANGED dataVars PROVE Tracks'
<1>1. ~Connected
  BY DEF RetryFires, LinkInv, NeverStranded, Connected
<1>2. conn'.state = "GettingToken"
  BY WiresAre DEF RetryFires, Conn
<1>3. QED BY <1>1, <1>2, NothingSent, TracksFresh DEF RetryFires, CanSendWrites, wires, server

LEMMA TokenFetchedTracks ==
  ASSUME LinkInv, Tracks, TokenFetched, UNCHANGED dataVars PROVE Tracks'
<1>1. ~Connected
  BY DEF TokenFetched, LinkInv, NeverStranded, Connected, Realtime
<1>2. ~CanSendWrites'
  BY <1>1, WiresAre DEF TokenFetched, Conn, CanSendWrites, Connected
<1>3. QED BY <1>1, <1>2, NothingSent, TracksFresh DEF TokenFetched, wires, server

LEMMA TokenFailedTracks ==
  ASSUME LinkInv, Tracks, TokenFailed, UNCHANGED dataVars PROVE Tracks'
<1>1. ~Connected
  BY DEF TokenFailed, LinkInv, NeverStranded, Connected, Realtime
<1>2. ~CanSendWrites'
  BY WiresAre DEF TokenFailed, CanSendWrites, Conn, TryScheduleReconnect
<1>3. QED BY <1>1, <1>2, NothingSent, TracksFresh DEF TokenFailed, wires, server

LEMMA ResumeTracks ==
  ASSUME LinkInv, Tracks, NEW r, Resume(r), UNCHANGED dataVars PROVE Tracks'
<1>1. conn'.state = conn.state
  BY WiresAre DEF Resume, Conn, TryScheduleReconnect
<1>2. view' = view /\ store' = store
  BY DEF dataVars
<1>3. Same(view', view)
  BY <1>2, SameItself
<1>4. QED BY <1>1, <1>2, <1>3, TracksKept DEF Resume, CanSendWrites, server

LEMMA DisconnectedTracks ==
  ASSUME LinkInv, Tracks, NEW c \in Conn, Disconnected(c), UNCHANGED <<listens, made>>
  PROVE  Tracks'
<1>1. ~CanSendWrites'
  BY DEF Disconnected, TryScheduleReconnect, CanSendWrites, Conn
<1>2. toServer' = <<>> /\ toClient' = <<>> /\ session' = {}
  BY DEF Disconnected
<1>3. DOMAIN toServer' = {}
  BY <1>2
<1>4. QED BY <1>1, <1>2, <1>3, TracksFresh

LEMMA ConnectionLostTracks ==
  ASSUME LinkInv, Tracks, ConnectionLost PROVE Tracks'
BY WiresAre, DisconnectedTracks DEF ConnectionLost

LEMMA InterruptTracks ==
  ASSUME LinkInv, Tracks, NEW r \in Reason, Interrupt(r) PROVE Tracks'
<1> DEFINE c == [conn EXCEPT !.reasons = conn.reasons \cup {r},
                             !.retry = conn.retry /\ Realtime(conn)]
<1>1. c \in Conn
  <2>1. (conn.retry /\ Realtime(conn)) \in BOOLEAN
    OBVIOUS
  <2>2. QED BY <2>1, WiresAre DEF Conn
<1>2. Disconnected(c) /\ UNCHANGED <<listens, made>>
  BY DEF Interrupt
<1> HIDE DEF c
<1>3. QED BY <1>1, <1>2, DisconnectedTracks

\* A request that is no listen and no unlisten.
LEMMA TracksSent ==
  ASSUME LinkInv, Tracks, Same(view', view), CanSendWrites' = CanSendWrites,
         NEW m, m.type \notin {"listen", "unlisten"}, toServer' = Append(toServer, m),
         UNCHANGED <<listens, made, toClient, session, store>>
  PROVE  Tracks'
<1>1. /\ listens' = listens /\ made' = made /\ toClient' = toClient
      /\ session' = session /\ store' = store
      /\ view'.on = view.on /\ view'.full = view.full /\ view'.node = view.node
  BY DEF Same, Like
<1>2. /\ \A n : NumberedIn(toServer, n) => NumberedIn(toServer', n)
      /\ \A id : Word(toServer, id) => Word(toServer', id)
      /\ \A id, n, q : Hashed(toServer, id, n, q) => Hashed(toServer', id, n, q)
      /\ Unasked(toServer) => Unasked(toServer')
      /\ \A id : AsksFor(toServer, id) <=> AsksFor(toServer', id)
  BY WiresAre, OtherRequest
<1>3. Numbers'
  BY <1>1, <1>2 DEF Tracks, Numbers
<1>4. view'.on => Follows(listens[Data])'
  BY <1>1, <1>2 DEF Tracks, Follows, Started, Quiet
<1>5. QED BY <1>3, <1>4 DEF Tracks

LEMMA RefreshAuthTokenTracks ==
  ASSUME LinkInv, Tracks, RefreshAuthToken, UNCHANGED dataVars PROVE Tracks'
<1> DEFINE m == IF conn.user THEN [type |-> "unauth"] ELSE Auth(FALSE)
<1>1. /\ conn'.state = conn.state
      /\ toServer' = (IF Connected THEN Append(toServer, m) ELSE toServer)
      /\ UNCHANGED <<listens, made, toClient, session, store, view>>
  BY WiresAre DEF RefreshAuthToken, Conn, dataVars, server
<1>2. m.type \notin {"listen", "unlisten"}
  BY DEF Auth
<1>3. Same(view', view) /\ CanSendWrites' = CanSendWrites
  BY <1>1, SameItself DEF CanSendWrites
<1> HIDE DEF m
<1>4. CASE Connected
  BY <1>1, <1>2, <1>3, <1>4, TracksSent
<1>5. CASE ~Connected
  BY <1>1, <1>3, <1>5, TracksKept DEF wires
<1>6. QED BY <1>4, <1>5

\* restoreState: the listen of the data names it by its hash, and is the first.
LEMMA RestoreTracks ==
  ASSUME LinkInv, PutsInv, ~crashed, ViewInv, Tracks, ~CanSendWrites, CanSendWrites', RestoreState(Hash),
         UNCHANGED <<listens, made, session, dataVars>>,
         \A n : NumberedIn(toClient, n) => NumberedIn(toClient', n),
         Untold(toClient) => Untold(toClient'),
         \A id : Whole(toClient, id) => Whole(toClient', id)
  PROVE  Tracks'
<1>1. Awaits
  BY ViewParts
<1>2. PICK order \in SetToSeqs(Listened) :
        toServer' = toServer
             \o [i \in DOMAIN order |-> Listen(order[i], listens[order[i]], Hash[order[i]])]
             \o RestoredPuts
  BY DEF RestoreState
<1> DEFINE f == [i \in DOMAIN order |-> Listen(order[i], listens[order[i]], Hash[order[i]])]
           x == toServer \o f
           id == listens[Data]
<1>3. /\ Cardinality(Listened) \in Nat /\ DOMAIN order = 1 .. Cardinality(Listened)
      /\ \A i \in DOMAIN order : order[i] \in Query
      /\ \A i, j \in DOMAIN order : i # j => order[i] # order[j]
  BY PermanentListened, FS_CardinalityType DEF SetToSeqs, Listened
<1>4. IsWire(f) /\ DOMAIN f = DOMAIN order
  <2>1. f \in Seq({f[i] : i \in DOMAIN order})
    BY <1>3
  <2> HIDE DEF f
  <2>2. IsWire(f)
    BY <2>1, SeqIsWire
  <2>3. QED BY <2>2 DEF f
<1>5. ASSUME NEW i \in DOMAIN f
      PROVE  /\ f[i].type = "listen" /\ f[i].query = order[i]
             /\ f[i].id = listens[order[i]] /\ f[i].hash = Hash[order[i]]
  BY <1>4, <1>5 DEF Listen
<1>6. ASSUME NEW i \in DOMAIN RestoredPuts PROVE RestoredPuts[i].type = "put"
  BY DEF RestoredPuts, Put
<1>7. toServer' = x \o RestoredPuts /\ IsWire(x)
  BY <1>2, <1>4, WiresAre, Joined
<1>8. /\ Len(toServer) \in Nat /\ Len(f) \in Nat /\ DOMAIN toServer = 1 .. Len(toServer)
      /\ DOMAIN f = 1 .. Len(f) /\ DOMAIN x = 1 .. Len(toServer) + Len(f)
      /\ \A i \in 1 .. Len(toServer) : x[i] = toServer[i]
      /\ \A i \in 1 .. Len(f) : x[Len(toServer) + i] = f[i]
  BY <1>4, WiresAre, JoinedAt
<1>9. /\ Len(x) = Len(toServer) + Len(f) /\ Len(RestoredPuts) \in Nat
      /\ DOMAIN RestoredPuts = 1 .. Len(RestoredPuts)
      /\ DOMAIN toServer' = 1 .. Len(x) + Len(RestoredPuts)
      /\ \A i \in 1 .. Len(x) : toServer'[i] = x[i]
      /\ \A i \in 1 .. Len(RestoredPuts) : toServer'[Len(x) + i] = RestoredPuts[i]
  <2>1. Len(x) \in Nat /\ DOMAIN x = 1 .. Len(x)
    BY <1>7, WireFacts
  <2>2. Len(x) = Len(toServer) + Len(f)
    BY <1>8, <2>1
  <2>3. QED BY <1>7, <2>2, RestoredIsWire, JoinedAt
<1> HIDE DEF f, x
<1> DEFINE a == Len(toServer)
           b == a + Len(f)
<1>10. /\ \A i \in DOMAIN toServer : i \in DOMAIN toServer' /\ toServer'[i] = toServer[i] /\ i <= a
       /\ \A i \in DOMAIN f : /\ a + i \in DOMAIN toServer' /\ toServer'[a + i] = f[i]
                              /\ a < a + i
       /\ \A i \in DOMAIN toServer' :
            \/ i \in DOMAIN toServer /\ toServer'[i] = toServer[i]
            \/ i - a \in DOMAIN f /\ toServer'[i] = f[i - a]
            \/ toServer'[i].type = "put"
  <2>1. \A i \in DOMAIN toServer : i \in DOMAIN toServer' /\ toServer'[i] = toServer[i] /\ i <= a
    BY <1>8, <1>9
  <2>2. \A i \in DOMAIN f : a + i \in DOMAIN toServer' /\ toServer'[a + i] = f[i] /\ a < a + i
    BY <1>8, <1>9
  <2>3. ASSUME NEW i \in DOMAIN toServer'
        PROVE  \/ i \in DOMAIN toServer /\ toServer'[i] = toServer[i]
               \/ i - a \in DOMAIN f /\ toServer'[i] = f[i - a]
               \/ toServer'[i].type = "put"
    <3>1. CASE i \in 1 .. a
      BY <1>8, <2>1, <3>1
    <3>2. CASE i - a \in 1 .. Len(f)
      <4>1. a + (i - a) = i
        BY <1>8, <1>9
      <4>2. QED BY <1>8, <2>2, <3>2, <4>1
    <3>3. CASE i - b \in 1 .. Len(RestoredPuts)
      <4>1. b + (i - b) = i
        BY <1>8, <1>9
      <4>2. toServer'[i] = RestoredPuts[i - b]
        BY <1>9, <3>3, <4>1
      <4>3. QED BY <1>6, <1>9, <3>3, <4>2
    <3>4. QED BY <1>8, <1>9, <3>1, <3>2, <3>3
  <2>4. QED BY <2>1, <2>2, <2>3
<1> HIDE DEF a, b
<1>11. view' = view /\ store' = store /\ listens' = listens /\ made' = made /\ session' = session
  BY DEF dataVars
<1>12. Numbers'
  <2>1. \A q \in Query : listens[q] \in 0 .. made
    <3>1. listens \in [Query -> Nat] /\ made \in Nat
      BY DEF LinkInv, LinkTypeOK
    <3>2. QED BY <3>1 DEF Tracks, Numbers
  <2>2. ASSUME NEW i \in DOMAIN toServer', toServer'[i].type = "listen" PROVE toServer'[i].id \in 0 .. made
    BY <1>3, <1>4, <1>5, <1>10, <2>1, <2>2 DEF Tracks, Numbers, NumberedIn
  <2>3. QED BY <1>11, <2>2 DEF Tracks, Numbers, NumberedIn
<1>13. ASSUME view.on PROVE Follows(id)'
  <2>1. Follows(id) /\ id # 0
    BY <1>1, <1>13 DEF Tracks, Awaits
  <2>2. PICK d \in DOMAIN f : Mine(f[d], id) /\ f[d].hash = view.node /\ order[d] = Data
    <3>1. PICK d \in DOMAIN order : order[d] = Data
      <4> DEFINE n == Cardinality(Listened)
      <4>1. n \in Nat /\ IsFiniteSet(Listened) /\ Data \in Listened
        BY <2>1, PermanentListened, FS_CardinalityType, ClientAssumption DEF Listened
      <4>2. order \in [1 .. n -> Listened] /\ \A i, j \in 1 .. n : i # j => order[i] # order[j]
        BY <1>2 DEF SetToSeqs
      <4> HIDE DEF n
      <4>3. order \in Injection(1 .. n, Listened)
        BY <4>2 DEF Injection, IsInjective
      <4>4. IsFiniteSet(1 .. n) /\ Cardinality(1 .. n) = n
        BY <4>1, FS_Interval
      <4>5. order \in Surjection(1 .. n, Listened)
        BY <4>1, <4>3, <4>4, FS_Injection DEF n
      <4>6. QED BY <4>1, <4>2, <4>5 DEF Surjection
    <3>2. Hash[Data] = view.node
      BY ClientAssumption DEF Hash
    <3>3. QED BY <1>4, <1>5, <3>1, <3>2 DEF Mine
  <2>3. Word(toServer', id)
    <3>1. SUFFICES ASSUME NEW j \in DOMAIN toServer', toServer'[j].type = "unlisten"
                   PROVE  \E i \in DOMAIN toServer' : j < i /\ Mine(toServer'[i], id)
      BY DEF Word
    <3>2. j \in DOMAIN toServer
      BY <1>5, <1>10, <3>1
    <3>3. a + d \in DOMAIN toServer' /\ toServer'[a + d] = f[d] /\ j <= a /\ a < a + d
      BY <1>10, <3>2
    <3>4. j < a + d
      BY <1>8, <3>2, <3>3 DEF a
    <3>5. QED BY <2>2, <3>3, <3>4
  <2>4. Hashed(toServer', id, view.node, Quiet(toClient'))
    <3>1. SUFFICES ASSUME NEW i \in DOMAIN toServer', Mine(toServer'[i], id), toServer'[i].hash # EmptyNode
                   PROVE  /\ toServer'[i].hash = view.node /\ Quiet(toClient')
                          /\ \A j \in DOMAIN toServer' \ {i} : ~ForData(toServer'[j])
      BY DEF Hashed
    <3>2. view.node # EmptyNode
      <4>1. SUFFICES ASSUME view.node = EmptyNode PROVE FALSE
        OBVIOUS
      <4>2. CASE i \in DOMAIN toServer /\ toServer'[i] = toServer[i]
        BY <2>1, <3>1, <4>1, <4>2 DEF Follows, Hashed
      <4>3. CASE i - a \in DOMAIN f /\ toServer'[i] = f[i - a]
        <5>1. order[i - a] = Data
          BY <1>5, <3>1, <4>3 DEF Mine
        <5>2. Hash[Data] = view.node
          BY ClientAssumption DEF Hash
        <5>3. QED BY <1>5, <3>1, <4>1, <4>3, <5>1, <5>2
      <4>4. CASE toServer'[i].type = "put"
        BY <3>1, <4>4 DEF Mine
      <4>5. QED BY <1>10, <4>2, <4>3, <4>4
    <3>3. Quiet(toClient) /\ Unasked(toServer)
      BY <2>1, <3>2 DEF Follows
    <3>4. ASSUME NEW j \in DOMAIN toServer', ForData(toServer'[j])
          PROVE  j - a \in DOMAIN f /\ j - a = d /\ toServer'[j] = f[d]
      <4>1. ~(j \in DOMAIN toServer /\ toServer'[j] = toServer[j]) /\ toServer'[j].type # "put"
        BY <3>3, <3>4 DEF Unasked, ForData
      <4>2. j - a \in DOMAIN f /\ toServer'[j] = f[j - a]
        BY <1>10, <4>1
      <4>3. order[j - a] = Data
        BY <1>5, <3>4, <4>2 DEF ForData
      <4>4. QED BY <1>3, <1>4, <2>2, <4>2, <4>3
    <3>5. ForData(toServer'[i])
      BY <3>1 DEF Mine, ForData
    <3>6. toServer'[i].hash = view.node
      BY <2>2, <3>4, <3>5
    <3>7. Quiet(toClient')
      BY <3>3 DEF Quiet
    <3>8. ASSUME NEW j \in DOMAIN toServer' \ {i} PROVE ~ForData(toServer'[j])
      <4>1. SUFFICES ASSUME ForData(toServer'[j]) PROVE FALSE
        OBVIOUS
      <4>2. j - a = d /\ i - a = d
        BY <3>4, <3>5, <4>1
      <4>3. QED BY <1>8, <1>9, <4>2 DEF a
    <3>9. QED BY <3>6, <3>7, <3>8
  <2>5. ~view.full => Whole(toClient', id)
    BY <2>1 DEF Follows
  <2>6. AsksFor(toServer', id)
    BY <1>10, <2>2 DEF AsksFor, Mine
  <2>7. Hashed(toServer', id, view.node, Quiet(toClient)')
    BY <1>11, <2>4 DEF Quiet
  <2>8. Started(id)'
    BY <1>11, <2>6 DEF Started
  <2>9. QED BY <1>11, <2>3, <2>5, <2>7, <2>8 DEF Follows
<1>14. QED BY <1>11, <1>12, <1>13 DEF Tracks

LEMMA ReadyTracks ==
  ASSUME LinkInv, PutsInv, ~crashed, ViewInv, Tracks, Ready(Hash), UNCHANGED dataVars PROVE Tracks'
<1>1. ~Connected /\ listens' = listens /\ made' = made /\ toClient' = toClient /\ session' = session
  BY DEF Ready, Connected, server
<1>2. toClient = <<>> /\ toServer = <<>> /\ session = {} /\ ~CanSendWrites
  BY <1>1, NothingSent
<1>3. CASE conn.token
  <2>1. ~CanSendWrites'
    BY <1>3, WiresAre DEF Ready, CanSendWrites, Conn
  <2>2. toServer' = <<Auth(TRUE)>>
    <3>1. toServer' = Append(<<>>, Auth(TRUE))
      BY <1>2, <1>3 DEF Ready
    <3>2. \A m : Append(<<>>, m) = <<m>>
      OBVIOUS
    <3>3. QED BY <3>1, <3>2
  <2>3. \A i \in DOMAIN toServer' : toServer'[i].type \notin {"listen", "unlisten"}
    BY <2>2 DEF Auth
  <2>4. QED BY <1>1, <1>2, <2>1, <2>3, TracksFresh
<1>4. CASE ~conn.token
  <2>1. CanSendWrites' /\ RestoreState(Hash)
    BY <1>4, WiresAre DEF Ready, CanSendWrites, Conn
  <2>2. QED BY <1>1, <1>2, <2>1, RestoreTracks
<1>5. QED BY <1>3, <1>4

-----------------------------------------------------------------------------
(* What the client takes that is not data.                                 *)

LEMMA TracksArrived ==
  ASSUME LinkInv, Tracks, CanSendWrites' = CanSendWrites,
         toClient # <<>>, toClient' = Tail(toClient), Head(toClient).type # "data",
         UNCHANGED <<made, toServer, session, store>>,
         \A q \in Query : listens'[q] <= made,
         view'.on => /\ view.on /\ view'.node = view.node /\ (view'.full = view.full \/ view'.full)
                     /\ listens'[Data] = listens[Data] /\ ~EndsFor(Head(toClient), listens[Data])
  PROVE  Tracks'
<1> DEFINE m == Head(toClient)
           c == Tail(toClient)
<1>1. ~SaysAll(m) /\ \A k : ~Says(m, k)
  BY DEF SaysAll, Says
<1>2. /\ \A n : NumberedIn(toClient, n) => NumberedIn(c, n)
      /\ Untold(toClient) => Untold(c)
      /\ \A id : Whole(toClient, id) => Whole(c, id)
      /\ \A id : Over(toClient, id) => Over(c, id) \/ EndsFor(m, id)
      /\ \A n, st, k : Reach(toClient, n, st, k) => Reach(c, n, st, k)
  BY <1>1, WiresAre, Arrived
<1> HIDE DEF m, c
<1>3. toClient' = c /\ made' = made /\ toServer' = toServer /\ session' = session /\ store' = store
  BY DEF c
<1>4. Numbers'
  BY <1>2, <1>3 DEF Tracks, Numbers
<1>5. ASSUME view'.on PROVE Follows(listens[Data])'
  <2>1. /\ view'.node = view.node /\ (view'.full = view.full \/ view'.full)
        /\ listens'[Data] = listens[Data] /\ ~EndsFor(m, listens[Data]) /\ Follows(listens[Data])
    BY <1>5 DEF Tracks, m
  <2>3. Started(listens[Data])'
    BY <1>2, <1>3, <2>1 DEF Follows, Started
  <2>4. Quiet(toClient) => Quiet(toClient)'
    BY <1>2, <1>3 DEF Quiet
  <2>5. Hashed(toServer', listens[Data], view.node, Quiet(toClient)')
    BY <1>3, <2>1, <2>4 DEF Follows, Hashed
  <2>6. QED BY <1>2, <1>3, <2>1, <2>3, <2>4, <2>5 DEF Follows
<1>6. QED BY <1>4, <1>5 DEF Tracks

LEMMA AuthAnsweredTracks ==
  ASSUME LinkInv, PutsInv, ~crashed, ViewInv, Tracks, AuthAnswered(Hash), UNCHANGED dataVars
  PROVE  Tracks'
<1> DEFINE m == Head(toClient)
<1>1. /\ toClient # <<>> /\ m.type = "auth" /\ listens' = listens /\ made' = made /\ Connected
  BY Facts DEF AuthAnswered
<1>2. view' = view /\ store' = store
  BY DEF dataVars
<1>3. CASE ~m.ok
  <2> DEFINE c == [conn EXCEPT !.token = FALSE]
  <2>1. Disconnected(c) /\ c \in Conn
    BY <1>3, WiresAre DEF AuthAnswered, Conn
  <2> HIDE DEF c
  <2>2. QED BY <1>1, <2>1, DisconnectedTracks
<1>4. CASE m.ok
  <2>1. /\ toClient' = Tail(toClient) /\ session' = session /\ CanSendWrites'
        /\ IF m.restore THEN RestoreState(Hash) ELSE UNCHANGED <<toServer, unacked>>
    BY <1>4, WiresAre DEF AuthAnswered, server, CanSendWrites, Conn
  <2>2. ~SaysAll(m)
    BY <1>1 DEF SaysAll
  <2>3. CASE m.restore
    <3>1. ~CanSendWrites
      <4>1. 1 \in Restores(toClient)
        BY <1>1, <2>3, WiresAre, FirstTaken DEF Restores
      <4>2. QED BY <4>1 DEF PutsInv, PutsUnderWay
    <3>2. /\ \A n : NumberedIn(toClient, n) => NumberedIn(toClient', n)
          /\ Untold(toClient) => Untold(toClient')
          /\ \A id : Whole(toClient, id) => Whole(toClient', id)
      BY <1>1, <2>1, <2>2, WiresAre, Arrived
    <3>3. RestoreState(Hash)
      BY <2>1, <2>3
    <3>4. QED BY <1>1, <2>1, <3>1, <3>2, <3>3, RestoreTracks
  <2>4. CASE ~m.restore
    <3>1. CanSendWrites
      BY <1>1, <2>4 DEF LinkInv, RestoreNext, Connected, CanSendWrites
    <3>2. toServer' = toServer
      BY <2>1, <2>4
    <3>3. \A id : ~EndsFor(m, id)
      BY <1>1 DEF EndsFor, Mine
    <3>4. \A q \in Query : listens'[q] <= made
      BY <1>1 DEF Tracks, Numbers
    <3>5. CanSendWrites' = CanSendWrites
      BY <2>1, <3>1 DEF CanSendWrites
    <3>6. m.type # "data" /\ ~EndsFor(m, listens[Data])
      BY <1>1, <3>3
    <3>7. QED BY <1>1, <1>2, <2>1, <3>2, <3>4, <3>5, <3>6, TracksArrived
  <2>5. QED BY <2>3, <2>4
<1>5. QED BY <1>3, <1>4

LEMMA ReceivePutTracks ==
  ASSUME LinkInv, PutsInv, ~crashed, ViewInv, Tracks, ReceivePut PROVE Tracks'
<1> DEFINE m == Head(toClient)
<1>1. /\ toClient # <<>> /\ m.type = "put" /\ toClient' = Tail(toClient)
      /\ UNCHANGED <<conn, listens, made, toServer, session, store>>
  BY DEF ReceivePut, PutAnswered, server
<1>2. Same(view', view)
  BY ReceivePutShows
<1>3. m.type # "data" /\ ~EndsFor(m, listens[Data])
  BY <1>1 DEF EndsFor, Mine
<1>4. /\ CanSendWrites' = CanSendWrites /\ \A q \in Query : listens'[q] <= made
      /\ view'.on = view.on /\ view'.node = view.node /\ view'.full = view.full
  BY <1>1, <1>2 DEF CanSendWrites, Tracks, Numbers, Same, Like
<1>5. QED BY <1>1, <1>3, <1>4, TracksArrived

LEMMA ReceiveRevokedTracks ==
  ASSUME LinkInv, PutsInv, ~crashed, ViewInv, Tracks, ReceiveRevoked PROVE Tracks'
<1> DEFINE m == Head(toClient)
<1>1. /\ toClient # <<>> /\ m.type = "revoked" /\ toClient' = Tail(toClient)
      /\ listens' = [listens EXCEPT ![m.query] = 0]
      /\ view' = IF m.query = Data THEN NoView ELSE view
      /\ UNCHANGED <<conn, made, toServer, session, store>>
  BY DEF ReceiveRevoked, ListenRevoked, server
<1>2. listens \in [Query -> Nat] /\ made \in Nat
  BY DEF LinkInv, LinkTypeOK
<1>3. \A q \in Query : listens'[q] <= made
  BY <1>1, <1>2 DEF Tracks, Numbers
<1>4. CanSendWrites' = CanSendWrites /\ m.type # "data"
  BY <1>1 DEF CanSendWrites
<1>5. ASSUME view'.on
      PROVE  /\ view.on /\ view'.node = view.node /\ view'.full = view.full
             /\ listens'[Data] = listens[Data] /\ ~EndsFor(m, listens[Data])
  <2>1. m.query # Data
    BY <1>1, <1>5, NoViewShows
  <2>2. listens'[Data] = listens[Data]
    BY <1>1, <1>2, <2>1, ClientAssumption
  <2>3. QED BY <1>1, <1>5, <2>1, <2>2 DEF EndsFor, Mine
<1>6. QED BY <1>1, <1>3, <1>4, <1>5, TracksArrived

LEMMA ReceiveListenTracks ==
  ASSUME LinkInv, PutsInv, ~crashed, ViewInv, Tracks, ReceiveListen PROVE Tracks'
<1> DEFINE m == Head(toClient)
<1>1. /\ toClient # <<>> /\ m.type = "listen" /\ toClient' = Tail(toClient)
      /\ listens' = IF Current(m) /\ ~m.ok THEN [listens EXCEPT ![m.query] = 0] ELSE listens
      /\ UNCHANGED <<conn, made, toServer, session, store>>
  BY DEF ReceiveListen, ListenAnswered, server
<1>2. listens \in [Query -> Nat] /\ made \in Nat
  BY DEF LinkInv, LinkTypeOK
<1>3. \A q \in Query : listens'[q] <= made
  BY <1>1, <1>2 DEF Tracks, Numbers
<1>4. CanSendWrites' = CanSendWrites /\ m.type # "data"
  BY <1>1 DEF CanSendWrites
<1>5. /\ ~Own(m) => Same(view', view)
      /\ Own(m) /\ ~m.ok => ~view'.on
      /\ Own(m) /\ m.ok => view'.on = view.on /\ view'.node = view.node /\ (view.on => view'.full)
  BY ReceiveListenShows
<1>6. Own(m) <=> Mine(m, listens[Data])
  BY DEF Own, Mine
<1>7. ASSUME view'.on
      PROVE  /\ view.on /\ view'.node = view.node /\ (view'.full = view.full \/ view'.full)
             /\ listens'[Data] = listens[Data] /\ ~EndsFor(m, listens[Data])
  <2>1. ~EndsFor(m, listens[Data])
    BY <1>1, <1>5, <1>6, <1>7 DEF EndsFor
  <2>2. CASE Own(m)
    <3>1. m.ok /\ listens' = listens
      BY <1>1, <1>5, <1>7, <2>2
    <3>2. QED BY <1>5, <1>7, <2>1, <2>2, <3>1
  <2>3. CASE ~Own(m)
    <3>1. listens'[Data] = listens[Data]
      BY <1>1, <1>2, <2>3, ClientAssumption DEF Own, Current
    <3>2. QED BY <1>5, <1>7, <2>1, <2>3, <3>1 DEF Same, Like
  <2>4. QED BY <2>2, <2>3
<1>8. QED BY <1>1, <1>3, <1>4, <1>7, TracksArrived

-----------------------------------------------------------------------------
(* The user's calls.                                                       *)

LEMMA ObserveTracks ==
  ASSUME LinkInv, PutsInv, ~crashed, ViewInv, Tracks, Observe PROVE Tracks'
<1> DEFINE m == Listen(Data, made + 1, EmptyNode)
           e == Len(toServer) + 1
<1>1. /\ listens[Data] = 0 /\ listens' = [listens EXCEPT ![Data] = made + 1] /\ made' = made + 1
      /\ conn' = conn /\ toClient' = toClient /\ view' = NewView(visible)
      /\ toServer' = IF Connected THEN Append(toServer, m) ELSE toServer
  BY ClientAssumption DEF Observe, StartListen
<1>2. listens \in [Query -> Nat] /\ made \in Nat
  BY DEF LinkInv, LinkTypeOK
<1>3. m.type = "listen" /\ m.query = Data /\ m.id = made + 1 /\ m.hash = EmptyNode
  BY DEF Listen
<1>4. listens'[Data] = made + 1
  BY <1>1, <1>2, ClientAssumption
<1>5. view'.node = EmptyNode
  <2>1. Shown
    BY ViewParts
  <2>2. QED BY <1>1, <2>1, NewViewShows DEF Shown
<1>6. \A n \in 0 .. made : n \in 0 .. made + 1 /\ n # made + 1
  BY <1>2
<1> HIDE DEF m
<1>7. /\ \A i \in DOMAIN toServer' :
           \/ i \in DOMAIN toServer /\ toServer'[i] = toServer[i]
           \/ Connected /\ i = e /\ toServer'[i] = m
      /\ Connected => e \in DOMAIN toServer' /\ toServer'[e] = m /\ \A i \in DOMAIN toServer : i < e
  <2>1. CASE Connected
    <3>1. toServer' = Append(toServer, m) /\ IsWire(toServer)
      BY <1>1, <2>1, WiresAre
    <3>2. /\ Len(toServer) \in Nat /\ DOMAIN toServer = 1 .. Len(toServer)
          /\ DOMAIN toServer' = 1 .. Len(toServer) + 1
          /\ toServer'[Len(toServer) + 1] = m
          /\ \A i \in 1 .. Len(toServer) : toServer'[i] = toServer[i]
      BY <3>1, AppendedAt
    <3>3. QED BY <2>1, <3>2
  <2>2. CASE ~Connected
    BY <1>1, <2>2
  <2>3. QED BY <2>1, <2>2
<1> HIDE DEF e
<1>8. Numbers'
  <2>1. \A q \in Query : listens'[q] <= made + 1
    <3>1. \A q \in Query : listens[q] <= made /\ listens[q] \in Nat
      BY <1>2 DEF Tracks, Numbers
    <3>2. \A q \in Query : listens'[q] = made + 1 \/ listens'[q] = listens[q]
      BY <1>1, <1>2
    <3>3. QED BY <1>2, <3>1, <3>2
  <2>2. NumberedIn(toServer', made + 1)
    <3>1. made + 1 \in 0 .. made + 1
      BY <1>2
    <3>2. QED BY <1>3, <1>6, <1>7, <3>1 DEF Tracks, Numbers, NumberedIn
  <2>3. NumberedIn(toClient, made + 1)
    BY <1>6 DEF Tracks, Numbers, NumberedIn
  <2>4. QED BY <1>1, <2>1, <2>2, <2>3 DEF Numbers
<1>9. Follows(listens[Data])'
  <2>1. ASSUME NEW i \in DOMAIN toServer', Mine(toServer'[i], made + 1) PROVE toServer'[i] = m
    BY <1>6, <1>7, <2>1 DEF Tracks, Numbers, NumberedIn, Mine
  <2>2. \A i \in DOMAIN toClient : ~Mine(toClient[i], made + 1)
    BY <1>6 DEF Tracks, Numbers, NumberedIn, Mine
  <2>3. Connected => \A i \in DOMAIN toServer : i < e
    BY <1>7
  <2>4. Connected => e \in DOMAIN toServer' /\ Mine(toServer'[e], made + 1)
    BY <1>3, <1>7 DEF Mine
  <2>5. Word(toServer', made + 1)
    <3>1. SUFFICES ASSUME NEW j \in DOMAIN toServer', toServer'[j].type = "unlisten"
                   PROVE  \E i \in DOMAIN toServer' : j < i /\ Mine(toServer'[i], made + 1)
      BY DEF Word
    <3>2. j \in DOMAIN toServer
      BY <1>3, <1>7, <3>1
    <3>3. Connected
      <4>1. toServer # <<>>
        BY <3>2
      <4>2. QED BY <4>1, Facts
    <3>4. QED BY <2>3, <2>4, <3>2, <3>3
  <2>6. Hashed(toServer', made + 1, view'.node, Quiet(toClient)')
    BY <1>3, <2>1 DEF Hashed
  <2>7. Whole(toClient', made + 1)
    BY <1>1, <2>2 DEF Whole
  <2>8. CanSendWrites' => AsksFor(toServer', made + 1)
    <3>1. CanSendWrites' => Connected
      BY <1>1 DEF CanSendWrites, Connected
    <3>2. QED BY <2>4, <3>1 DEF AsksFor, Mine
  <2>9. Started(listens[Data])'
    BY <1>4, <2>8 DEF Started
  <2>10. QED BY <1>4, <1>5, <2>5, <2>6, <2>7, <2>9 DEF Follows
<1>10. QED BY <1>8, <1>9 DEF Tracks

LEMMA RemoveObserverTracks ==
  ASSUME LinkInv, Tracks, RemoveObserver PROVE Tracks'
<1>1. /\ listens' = [listens EXCEPT ![Data] = 0] /\ made' = made /\ toClient' = toClient
      /\ view' = NoView
      /\ toServer' = IF Connected THEN Append(toServer, [type |-> "unlisten", query |-> Data])
                                  ELSE toServer
  BY DEF RemoveObserver, Unlisten
<1>2. listens \in [Query -> Nat] /\ made \in Nat
  BY DEF LinkInv, LinkTypeOK
<1>3. \A q \in Query : listens'[q] <= made
  BY <1>1, <1>2 DEF Tracks, Numbers
<1>4. NumberedIn(toServer', made)
  <2> DEFINE m == [type |-> "unlisten", query |-> Data]
             k == Len(toServer)
  <2>1. CASE Connected
    <3>1. toServer' = Append(toServer, m) /\ IsWire(toServer) /\ m.type = "unlisten"
      BY <1>1, <2>1, WiresAre
    <3> HIDE DEF m
    <3>2. /\ k \in Nat /\ DOMAIN toServer = 1 .. k /\ DOMAIN toServer' = 1 .. k + 1
          /\ toServer'[k + 1] = m /\ \A i \in 1 .. k : toServer'[i] = toServer[i]
      BY <3>1, AppendedAt
    <3> HIDE DEF k
    <3>3. \A i \in DOMAIN toServer' : i = k + 1 \/ i \in DOMAIN toServer
      BY <3>2
    <3>4. QED BY <3>1, <3>2, <3>3 DEF Tracks, Numbers, NumberedIn
  <2>2. CASE ~Connected
    BY <1>1, <2>2 DEF Tracks, Numbers
  <2>3. QED BY <2>1, <2>2
<1>5. QED BY <1>1, <1>3, <1>4, NoViewShows DEF Tracks, Numbers

LEMMA WriteTracks ==
  ASSUME LinkInv, PutsInv, ~crashed, ViewInv, Tracks, NEW script \in Scripts, Write(script)
  PROVE  Tracks'
<1> DEFINE n == Len(writes) + 1
           m == Put(n)
<1>1. Same(view', view)
  BY WriteShows
<1>2. /\ toServer' = (IF CanSendWrites THEN Append(toServer, m) ELSE toServer)
      /\ UNCHANGED <<conn, listens, made, toClient, session, store>>
  BY DEF Write, PutInternal, server
<1>3. m.type \notin {"listen", "unlisten"}
  BY DEF Put
<1>4. CanSendWrites' = CanSendWrites
  BY <1>2 DEF CanSendWrites
<1> HIDE DEF m
<1>5. CASE CanSendWrites
  BY <1>1, <1>2, <1>3, <1>4, <1>5, TracksSent
<1>6. CASE ~CanSendWrites
  BY <1>1, <1>2, <1>4, <1>6, TracksKept DEF wires
<1>7. QED BY <1>5, <1>6

LEMMA PurgeTracks ==
  ASSUME LinkInv, PutsInv, ~crashed, ViewInv, Tracks, Purge PROVE Tracks'
<1>1. Same(view', view)
  BY PurgeShows
<1>2. UNCHANGED <<conn, listens, made, wires, session, store>>
  BY DEF Purge, PurgePuts, server
<1>3. QED BY <1>1, <1>2, TracksKept DEF CanSendWrites

-----------------------------------------------------------------------------
(* The server's side.                                                      *)

LEMMA ServeAuthTracks ==
  ASSUME LinkInv, Tracks, NEW ok, ServeAuth(ok), UNCHANGED dataVars PROVE Tracks'
<1> DEFINE m == [type |-> "auth", restore |-> Head(toServer).restore, ok |-> ok]
<1>1. 1 \in DOMAIN toServer /\ toServer[1].type = "auth"
  BY NextAtHead DEF ServeAuth
<1>2. /\ toServer' = RemoveAt(toServer, 1) /\ toClient' = Append(toClient, m)
      /\ UNCHANGED <<conn, listens, made, session, view, store>>
  BY DEF ServeAuth, Take, server, dataVars
<1>3. m.type = "auth"
  OBVIOUS
<1> HIDE DEF m
<1>4. ~SaysAll(m) /\ (\A k : ~Says(m, k)) /\ (\A id : ~Mine(m, id)) /\ \A id : ~Mine(toServer[1], id)
  BY <1>1, <1>3 DEF SaysAll, Says, Mine
<1>5. /\ \A n : NumberedIn(toServer, n) => NumberedIn(toServer', n)
      /\ \A id : Word(toServer, id) => Word(toServer', id)
      /\ \A id, n, q : Hashed(toServer, id, n, q) => Hashed(toServer', id, n, q /\ ~ForData(toServer[1]))
      /\ Unasked(toServer) => Unasked(toServer')
      /\ \A id : AsksFor(toServer, id) => AsksFor(toServer', id)
  BY <1>1, <1>2, <1>4, WiresAre, RequestTaken
<1>6. /\ \A n : NumberedIn(toClient, n) => NumberedIn(toClient', n)
      /\ Untold(toClient) => Untold(toClient')
      /\ \A id : Whole(toClient, id) => Whole(toClient', id)
      /\ \A id : Over(toClient, id) => Over(toClient', id)
      /\ \A n, st, k : Reach(toClient, n, st, k) => Reach(toClient', n, st, k)
  BY <1>2, <1>3, <1>4, WiresAre, Arriving
<1>7. Numbers'
  BY <1>2, <1>5, <1>6 DEF Tracks, Numbers
<1>8. ASSUME view.on PROVE Follows(listens[Data])'
  <2> DEFINE id == listens[Data]
  <2>1. Follows(id)
    BY <1>8 DEF Tracks
  <2>2. Quiet(toClient) => Quiet(toClient)'
    BY <1>2, <1>6 DEF Quiet
  <2>3. Hashed(toServer', id, view.node, Quiet(toClient)')
    <3>1. Hashed(toServer', id, view.node, Quiet(toClient) /\ ~ForData(toServer[1]))
      BY <1>5, <2>1 DEF Follows
    <3>2. QED BY <2>2, <3>1 DEF Hashed
  <2>4. Started(id)'
    BY <1>2, <1>5, <1>6, <2>1 DEF Follows, Started, CanSendWrites
  <2>5. CanSendWrites' = CanSendWrites /\ listens' = listens /\ view' = view
    BY <1>2 DEF CanSendWrites
  <2>6. QED BY <1>5, <1>6, <2>1, <2>2, <2>3, <2>4, <2>5 DEF Follows
<1>9. QED BY <1>2, <1>7, <1>8 DEF Tracks

LEMMA ServeSilentTracks ==
  ASSUME LinkInv, Tracks, ServeSilent, UNCHANGED dataVars PROVE Tracks'
<1> DEFINE h == toServer[1]
<1>1. 1 \in DOMAIN toServer /\ h.type \in {"unauth", "unlisten"} /\ h = Head(toServer)
  BY NextAtHead DEF ServeSilent
<1>2. /\ toServer' = RemoveAt(toServer, 1)
      /\ session' = IF h.type = "unlisten" THEN session \ {h.query} ELSE session
      /\ UNCHANGED <<conn, listens, made, toClient, view, store>>
  BY <1>1 DEF ServeSilent, Take, dataVars
<1>3. \A id : ~Mine(h, id)
  BY <1>1 DEF Mine
<1>4. /\ \A n : NumberedIn(toServer, n) => NumberedIn(toServer', n)
      /\ \A id : Word(toServer, id) => Word(toServer', id)
      /\ \A id, n, q : Hashed(toServer, id, n, q) => Hashed(toServer', id, n, q /\ ~ForData(h))
      /\ Unasked(toServer) => Unasked(toServer')
      /\ \A id : AsksFor(toServer, id) => AsksFor(toServer', id)
  BY <1>1, <1>2, <1>3, WiresAre, RequestTaken
<1>5. Numbers'
  BY <1>2, <1>4 DEF Tracks, Numbers
<1>6. ASSUME view.on PROVE Follows(listens[Data])'
  <2> DEFINE id == listens[Data]
  <2>1. Follows(id)
    BY <1>6 DEF Tracks
  <2>2. Quiet(toClient) => Quiet(toClient)'
    BY <1>2 DEF Quiet
  <2>3. Hashed(toServer', id, view.node, Quiet(toClient)')
    <3>1. Hashed(toServer', id, view.node, Quiet(toClient) /\ ~ForData(h))
      BY <1>4, <2>1 DEF Follows
    <3>2. QED BY <2>2, <3>1 DEF Hashed
  <2>4. h.type = "unlisten" /\ h.query = Data => AsksFor(toServer, id)
    BY <1>1, <2>1 DEF Follows, Word, AsksFor, Mine
  <2>5. Started(id)'
    <3>1. ~AsksFor(toServer', id) => ~AsksFor(toServer, id) /\ (Data \in session => Data \in session')
      BY <1>2, <1>4, <2>4
    <3>2. QED BY <1>2, <2>1, <3>1 DEF Follows, Started, CanSendWrites
  <2>6. CanSendWrites' = CanSendWrites /\ listens' = listens /\ view' = view /\ toClient' = toClient
    BY <1>2 DEF CanSendWrites
  <2>7. QED BY <1>4, <2>1, <2>2, <2>3, <2>5, <2>6 DEF Follows
<1>7. QED BY <1>2, <1>5, <1>6 DEF Tracks

LEMMA RevokeTracks ==
  ASSUME LinkInv, Tracks, NEW q, Revoke(q), UNCHANGED dataVars PROVE Tracks'
<1> DEFINE m == [type |-> "revoked", query |-> q]
<1>1. /\ toClient' = Append(toClient, m) /\ session' = session \ {q}
      /\ UNCHANGED <<conn, listens, made, toServer, view, store>>
  BY DEF Revoke, dataVars
<1>2. m.type = "revoked" /\ m.query = q
  OBVIOUS
<1> HIDE DEF m
<1>3. ~SaysAll(m) /\ (\A k : ~Says(m, k)) /\ (\A id : ~Mine(m, id)) /\ (q = Data => \A id : EndsFor(m, id))
  BY <1>2 DEF SaysAll, Says, Mine, EndsFor
<1>4. /\ \A n : NumberedIn(toClient, n) => NumberedIn(toClient', n)
      /\ Untold(toClient) => Untold(toClient')
      /\ \A id : Whole(toClient, id) => Whole(toClient', id)
      /\ \A id : Over(toClient, id) \/ EndsFor(m, id) => Over(toClient', id)
      /\ \A n, st, k : Reach(toClient, n, st, k) => Reach(toClient', n, st, k)
  BY <1>1, <1>2, <1>3, WiresAre, Arriving
<1>5. Numbers'
  BY <1>1, <1>4 DEF Tracks, Numbers
<1>6. ASSUME view.on PROVE Follows(listens[Data])'
  <2> DEFINE id == listens[Data]
  <2>1. Follows(id)
    BY <1>6 DEF Tracks
  <2>2. Quiet(toClient) => Quiet(toClient)'
    BY <1>1, <1>4 DEF Quiet
  <2>3. Hashed(toServer', id, view.node, Quiet(toClient)')
    BY <1>1, <2>1, <2>2 DEF Follows, Hashed
  <2>4. Started(id)'
    <3>1. ~Over(toClient', id) => ~Over(toClient, id) /\ (Data \in session => Data \in session')
      BY <1>1, <1>3, <1>4
    <3>2. QED BY <1>1, <1>4, <2>1, <3>1 DEF Follows, Started, CanSendWrites
  <2>5. CanSendWrites' = CanSendWrites /\ listens' = listens /\ view' = view /\ toServer' = toServer
    BY <1>1 DEF CanSendWrites
  <2>6. QED BY <1>4, <2>1, <2>2, <2>3, <2>4, <2>5 DEF Follows
<1>7. QED BY <1>1, <1>5, <1>6 DEF Tracks

\* z is c with data d, if any, and then an answer a.
Carries(z, c, d, any, a) ==
  /\ \A n : NumberedIn(c, n) /\ (a.type = "listen" => a.id \in 0 .. n) => NumberedIn(z, n)
  /\ ~any /\ Untold(c) => Untold(z)
  /\ \A id : Whole(c, id) /\ (Mine(a, id) /\ a.ok => (~any /\ Untold(c)) \/ (any /\ SaysAll(d)))
             => Whole(z, id)
  /\ \A id : Over(c, id) \/ EndsFor(a, id) => Over(z, id)
  /\ \A n, st, k : Reach(c, n, st, k) /\ (~any \/ ~Says(d, k)) => Reach(z, n, st, k)
  /\ \A n, st, k : any /\ Says(d, k) /\ Applied(st, d.write)[k] = st[k] => Reach(z, n, st, k)

LEMMA Delivered ==
  ASSUME NEW c, IsWire(c), NEW d, d.type = "data", NEW a, a.type # "data",
         NEW u, u \in {<<>>, <<d>>}
  PROVE  Carries(c \o u \o <<a>>, c, d, u # <<>>, a)
<1> DEFINE z == c \o u \o <<a>>
           x == Append(c, d)
<1>1. <<d>> # <<>>
  OBVIOUS
<1>2. ~SaysAll(a) /\ \A k : ~Says(a, k)
  BY DEF SaysAll, Says
<1>3. z = IF u = <<>> THEN Append(c, a) ELSE Append(x, a)
  <2>1. c \in Seq({c[i] : i \in DOMAIN c} \cup {d, a})
    BY DEF IsWire
  <2>2. CASE u = <<>>
    BY <2>1, <2>2
  <2>3. CASE u = <<d>>
    BY <1>1, <2>1, <2>3
  <2>4. QED BY <1>1, <2>2, <2>3
<1>4. IsWire(x)
  BY Appended
<1> HIDE DEF z, x
<1>5. CASE u = <<>>
  <2>1. z = Append(c, a)
    BY <1>3, <1>5
  <2>2. /\ \A n : NumberedIn(c, n) /\ (a.type = "listen" => a.id \in 0 .. n) => NumberedIn(z, n)
        /\ Untold(c) => Untold(z)
        /\ \A id : Whole(c, id) /\ (Mine(a, id) /\ a.ok => Untold(c)) => Whole(z, id)
        /\ \A id : Over(c, id) \/ EndsFor(a, id) => Over(z, id)
        /\ \A n, st, k : Reach(c, n, st, k) => Reach(z, n, st, k)
    BY <1>2, <2>1, Arriving
  <2>3. QED BY <1>5, <2>2 DEF Carries, z
<1>6. CASE u # <<>>
  <2>1. /\ \A n : NumberedIn(c, n) => NumberedIn(x, n)
        /\ \A id : Whole(c, id) => Whole(x, id)
        /\ \A id : Over(c, id) => Over(x, id)
        /\ SaysAll(d) => \E j \in DOMAIN x : SaysAll(x[j])
        /\ \A n, st, k : Reach(c, n, st, k) /\ ~Says(d, k) => Reach(x, n, st, k)
        /\ \A n, st, k : Says(d, k) /\ Applied(st, d.write)[k] = st[k] => Reach(x, n, st, k)
    <3>1. d.type # "listen" /\ \A id : ~Mine(d, id)
      BY DEF Mine
    <3>2. QED BY <3>1, Arriving DEF x
  <2>2. z = Append(x, a)
    BY <1>3, <1>6
  <2>3. /\ \A n : NumberedIn(x, n) /\ (a.type = "listen" => a.id \in 0 .. n) => NumberedIn(z, n)
        /\ \A id : Whole(x, id) /\ (Mine(a, id) /\ a.ok => \E j \in DOMAIN x : SaysAll(x[j]))
                     => Whole(z, id)
        /\ \A id : Over(x, id) \/ EndsFor(a, id) => Over(z, id)
        /\ \A n, st, k : Reach(x, n, st, k) => Reach(z, n, st, k)
    BY <1>2, <1>4, <2>2, Arriving
  <2>4. QED BY <1>6, <2>1, <2>3 DEF Carries, z
<1>7. QED BY <1>5, <1>6

LEMMA ServerListenTracks ==
  ASSUME LinkInv, PutsInv, ~crashed, ViewInv, Tracks, NEW ok, ServerListen(ok) PROVE Tracks'
<1> DEFINE all == [op |-> "set", at |-> Top, data |-> store]
           d == [type |-> "data", write |-> all]
           h == toServer[1]
           u == IF ok /\ h.query = Data /\ (h.hash = EmptyNode \/ h.hash # store)
                  THEN <<d>> ELSE <<>>
           m == [type |-> "listen", query |-> h.query, id |-> h.id, ok |-> ok]
           id == listens[Data]
<1>1. 1 \in DOMAIN toServer /\ h.type = "listen" /\ h = Head(toServer)
  BY NextAtHead DEF ServerListen
<1>2. /\ toServer' = RemoveAt(toServer, 1) /\ toClient' = toClient \o u \o <<m>>
      /\ session' = IF ok THEN session \cup {h.query} ELSE session
      /\ UNCHANGED <<conn, listens, made, view, store>>
  BY <1>1 DEF ServerListen, ServeListen, Take, dataVars
<1>3. /\ m.type = "listen" /\ m.query = h.query /\ m.id = h.id /\ m.ok = ok
      /\ m.type # "data" /\ d.type = "data" /\ d.write = all /\ u \in {<<>>, <<d>>}
      /\ u = <<>> <=> ~(ok /\ h.query = Data /\ (h.hash = EmptyNode \/ h.hash # store))
  OBVIOUS
<1>4. /\ SaysAll(d) /\ \A k \in Key : Says(d, k)
      /\ Applied(store, all) = store
  BY DEF SaysAll, Says, Children, IsOverwrite, Applied
<1> HIDE DEF all, h, u, m, d
<1>5. /\ \A n : NumberedIn(toServer, n) => NumberedIn(toServer', n)
      /\ Word(toServer, id) => Word(toServer', id)
      /\ \A n, q : Hashed(toServer, id, n, q) => Hashed(toServer', id, n, q /\ ~ForData(h))
      /\ Unasked(toServer) => Unasked(toServer')
      /\ AsksFor(toServer, id) /\ ~AsksFor(toServer', id) => Mine(h, id)
  BY <1>1, <1>2, WiresAre, RequestTaken DEF h
<1>6. Carries(toClient', toClient, d, u # <<>>, m)
  BY <1>2, <1>3, WiresAre, Delivered
<1>7. Numbers'
  <2>1. m.id \in 0 .. made
    BY <1>1, <1>3 DEF Tracks, Numbers, NumberedIn, h
  <2>2. QED BY <1>2, <1>5, <1>6, <2>1 DEF Carries, Tracks, Numbers
<1>8. ASSUME view.on PROVE Follows(listens[Data])'
  <2>1. Follows(id)
    BY <1>8 DEF Tracks
  <2>2. CanSendWrites' = CanSendWrites /\ listens' = listens /\ view' = view
    BY <1>2 DEF CanSendWrites
  <2>3. Quiet(toClient) /\ ~ForData(h) => Quiet(toClient)'
    BY <1>1, <1>2, <1>3, <1>6 DEF Carries, Quiet, ForData
  <2>4. ~CanSendWrites /\ view.node # EmptyNode => Quiet(toClient)' /\ Unasked(toServer')
    <3>1. Unasked(toServer) => ~ForData(h)
      BY <1>1 DEF Unasked, ForData, h
    <3>2. QED BY <1>5, <2>1, <2>3, <3>1 DEF Follows
  <2>5. Hashed(toServer', id, view.node, Quiet(toClient)')
    <3>1. Hashed(toServer', id, view.node, Quiet(toClient) /\ ~ForData(h))
      BY <1>5, <2>1 DEF Follows
    <3>2. QED BY <2>3, <3>1 DEF Hashed
  <2>6. Mine(h, id) /\ ok /\ u = <<>> => store = view.node /\ Untold(toClient)
    <3>1. Mine(h, id) /\ ok /\ u = <<>> => h.hash # EmptyNode /\ h.hash = store
      BY <1>3 DEF Mine
    <3>2. Mine(h, id) /\ h.hash # EmptyNode => h.hash = view.node /\ Quiet(toClient)
      BY <1>1, <2>1 DEF Follows, Hashed, h
    <3>3. QED BY <3>1, <3>2 DEF Quiet
  <2>7. Mine(m, id) <=> Mine(h, id)
    BY <1>1, <1>3 DEF Mine
  <2>8. ~view.full => Whole(toClient', id)
    BY <1>3, <1>4, <1>6, <2>1, <2>6, <2>7 DEF Carries, Follows
  <2>9. ASSUME CanSendWrites', ~AsksFor(toServer', id), ~Over(toClient', id)
        PROVE  Data \in session' /\ \A k \in Key : Reach(toClient', view.node, store, k)
    <3>1. ASSUME u # <<>>, NEW k \in Key PROVE Reach(toClient', view.node, store, k)
      BY <1>3, <1>4, <1>6, <3>1 DEF Carries
    <3>2. CASE Mine(h, id)
      <4>1. ok
        BY <1>3, <1>6, <2>7, <2>9, <3>2 DEF Carries, EndsFor
      <4>2. Data \in session'
        BY <1>2, <3>2, <4>1 DEF Mine
      <4>3. ASSUME u = <<>>, NEW k \in Key PROVE Reach(toClient', view.node, store, k)
        <5>1. store = view.node /\ Untold(toClient')
          BY <1>6, <2>6, <3>2, <4>1, <4>3 DEF Carries
        <5>2. QED BY <5>1 DEF Reach, Untold, Says
      <4>4. QED BY <3>1, <4>2, <4>3
    <3>3. CASE ~Mine(h, id)
      <4>1. Data \in session /\ \A k \in Key : Reach(toClient, view.node, store, k)
        BY <1>5, <1>6, <2>1, <2>2, <2>9, <3>3 DEF Carries, Follows, Started
      <4>2. Data \in session'
        BY <1>2, <4>1
      <4>3. QED BY <1>6, <3>1, <4>1, <4>2 DEF Carries
    <3>4. QED BY <3>2, <3>3
  <2>10. Started(listens[Data])'
    BY <1>2, <2>2, <2>9 DEF Started
  <2>11. QED BY <1>5, <2>1, <2>2, <2>4, <2>5, <2>8, <2>10 DEF Follows
<1>9. QED BY <1>2, <1>7, <1>8 DEF Tracks

\* The server's data changes by a write it tells about.
LEMMA ServerPutTracks ==
  ASSUME LinkInv, PutsInv, ~crashed, ViewInv, Tracks, NEW ok, ServerPut(ok) PROVE Tracks'
<1>1. PICK i \in NextPut :
        LET w == writes[toServer[i].put]
        IN /\ ServePut(i, IF ok THEN Push(w) ELSE <<>>, ok)
           /\ IF ok THEN SetStore(Applied(store, w)) ELSE UNCHANGED <<store, past>>
           /\ UNCHANGED <<writes, allWrites, visible, view, foreign, crashed>>
  BY DEF ServerPut
<1> DEFINE w == writes[toServer[i].put]
           d == [type |-> "data", write |-> w]
           u == IF ok THEN Push(w) ELSE <<>>
           m == [type |-> "put", put |-> toServer[i].put, ok |-> ok]
           id == listens[Data]
<1>2. Books /\ UnderWay /\ Records
  BY BooksAndWires, ViewParts
<1>3. i \in DOMAIN toServer /\ toServer[i].type = "put" /\ toServer[i].put \in PutsIn(toServer) /\ CanSendWrites
  BY <1>2, NextPutFirst
<1>4. w \in WriteRecord
  <2>1. toServer[i].put \in cursor + 1 .. Len(writes) /\ cursor \in Nat
    BY <1>2, <1>3, PutTypes DEF UnderWay, PutsOrdered
  <2>2. DOMAIN writes = 1 .. Len(writes) /\ Len(writes) \in Nat
    BY <1>2, WireFacts DEF Books, PutsPending
  <2>3. toServer[i].put \in DOMAIN writes
    BY <2>1, <2>2
  <2>4. QED BY <1>2, <2>3 DEF Records
<1>5. /\ toClient' = toClient \o u \o <<m>> /\ toServer' = RemoveAt(toServer, i)
      /\ store' = IF ok THEN Applied(store, w) ELSE store
      /\ UNCHANGED <<conn, listens, made, session, view>>
  BY <1>1 DEF ServePut, SetStore, Take
<1>6. /\ m.type = "put" /\ d.type = "data" /\ d.write = w /\ <<d>> # <<>>
      /\ u = IF ok /\ Data \in session THEN <<d>> ELSE <<>>
  BY DEF Push
<1> HIDE DEF w, d, u, m
<1>7. (~SaysAll(m)) /\ (\A j : ~Mine(m, j)) /\ (\A j : ~EndsFor(m, j)) /\ (\A j : ~Mine(toServer[i], j))
  BY <1>3, <1>6 DEF SaysAll, Mine, EndsFor
<1>8. /\ \A n : NumberedIn(toServer, n) => NumberedIn(toServer', n)
      /\ \A j : Word(toServer, j) => Word(toServer', j)
      /\ \A j, n, q : Hashed(toServer, j, n, q) => Hashed(toServer', j, n, q /\ ~ForData(toServer[i]))
      /\ \A j : AsksFor(toServer, j) => AsksFor(toServer', j)
  BY <1>3, <1>5, <1>7, WiresAre, RequestTaken
<1>9. Carries(toClient', toClient, d, u # <<>>, m)
  <2>1. m.type # "data" /\ u \in {<<>>, <<d>>}
    BY <1>6
  <2>2. QED BY <1>5, <1>6, <2>1, WiresAre, Delivered
<1>10. u # <<>> <=> ok /\ Data \in session
  BY <1>6
<1>11. Numbers'
  <2>1. NumberedIn(toClient, made) => NumberedIn(toClient', made)
    BY <1>6, <1>9 DEF Carries
  <2>2. QED BY <1>5, <1>8, <2>1 DEF Tracks, Numbers
<1>12. ASSUME view.on PROVE Follows(listens[Data])'
  <2>1. Follows(id)
    BY <1>12 DEF Tracks
  <2>2. CanSendWrites' = CanSendWrites /\ listens' = listens /\ view' = view
    BY <1>5 DEF CanSendWrites
  <2>3. Quiet(toClient) => Quiet(toClient)'
    BY <1>5, <1>9, <1>10 DEF Quiet, Carries
  <2>4. Hashed(toServer', id, view.node, Quiet(toClient)')
    <3>1. Hashed(toServer', id, view.node, Quiet(toClient) /\ ~ForData(toServer[i]))
      BY <1>8, <2>1 DEF Follows
    <3>2. QED BY <2>3, <3>1 DEF Hashed
  <2>5. ~view.full => Whole(toClient', id)
    BY <1>7, <1>9, <2>1 DEF Follows, Carries
  <2>6. ASSUME ~AsksFor(toServer', id), ~Over(toClient', id)
        PROVE  Data \in session' /\ \A k \in Key : Reach(toClient', view.node, store', k)
    <3>1. Data \in session /\ \A k \in Key : Reach(toClient, view.node, store, k)
      BY <1>3, <1>8, <1>9, <2>1, <2>6 DEF Follows, Started, Carries
    <3>2. ASSUME NEW k \in Key PROVE Reach(toClient', view.node, store', k)
      <4>1. CASE ~ok
        BY <1>5, <1>9, <1>10, <3>1, <4>1 DEF Carries
      <4>2. CASE ok
        <5>1. store \in Node /\ store' = Applied(store, w) /\ store' \in Node /\ u # <<>>
          BY <1>2, <1>4, <1>5, <1>10, <3>1, <4>2, AppliedIsNode DEF Records
        <5>2. /\ k \in Children(w) => Applied(store', w)[k] = store'[k]
              /\ k \notin Children(w) => store'[k] = store[k]
          BY <1>4, <5>1, SaidOf
        <5>3. Says(d, k) <=> k \in Children(w)
          BY <1>6 DEF Says
        <5>4. CASE k \in Children(w)
          BY <1>6, <1>9, <5>1, <5>2, <5>3, <5>4 DEF Carries
        <5>5. CASE k \notin Children(w)
          <6>1. Reach(toClient, view.node, store', k)
            BY <1>2, <3>1, <5>1, <5>2, <5>5, ElsewhereChanged DEF Records
          <6>2. QED BY <1>9, <5>3, <5>5, <6>1 DEF Carries
        <5>6. QED BY <5>4, <5>5
      <4>3. QED BY <4>1, <4>2
    <3>3. QED BY <1>5, <3>1, <3>2
  <2>7. Started(listens[Data])'
    BY <1>5, <2>2, <2>6 DEF Started
  <2>8. QED BY <1>3, <1>8, <2>1, <2>2, <2>4, <2>5, <2>7 DEF Follows
<1>13. QED BY <1>5, <1>11, <1>12 DEF Tracks

LEMMA OtherClientTracks ==
  ASSUME LinkInv, PutsInv, ~crashed, ViewInv, Tracks, NEW p, NEW v, OtherClient(p, v)
  PROVE  Tracks'
<1> DEFINE w == [op |-> "set", at |-> p, data |-> v]
           d == [type |-> "data", write |-> w]
           n == [store EXCEPT ![p] = v]
           id == listens[Data]
<1>1. Records
  BY ViewParts
<1>2. /\ toClient' = toClient \o Push(w) /\ store' = n
      /\ UNCHANGED <<conn, listens, made, toServer, session, view>>
  BY DEF OtherClient, SetStore, server
<1>3. /\ p \in Key /\ p # Top /\ w \in WriteRecord /\ n \in Node /\ n[p] = v /\ Children(w) = {p}
      /\ \A k \in Key \ {p} : n[k] = store[k]
  <2>1. p \in Key /\ v \in Value /\ store \in Node
    BY <1>1 DEF OtherClient, Records
  <2>2. p # Top
    BY <2>1, PathAssumption
  <2>3. QED BY <2>1, <2>2 DEF WriteRecord, Node, Children, IsOverwrite
<1>4. Applied(n, w)[p] = n[p]
  <2>1. Applied(n, w) = [n EXCEPT ![p] = v]
    BY <1>3 DEF Applied
  <2>2. QED BY <1>3, <2>1 DEF Node
<1>5. d.type = "data" /\ d.write = w
  OBVIOUS
<1> HIDE DEF w, n
<1>6. toClient' = IF Data \in session THEN Append(toClient, d) ELSE toClient
  <2>1. toClient \in Seq({toClient[i] : i \in DOMAIN toClient} \cup {d})
    BY WiresAre DEF IsWire
  <2> HIDE DEF d
  <2>2. Push(w) = IF Data \in session THEN <<d>> ELSE <<>>
    BY DEF Push, d
  <2>3. QED BY <1>2, <2>1, <2>2
<1> HIDE DEF d
<1>7. \A k : Says(d, k) <=> k = p
  BY <1>3, <1>5 DEF Says
<1>8. /\ \A k \in Key : k # p /\ Reach(toClient, view.node, store, k) => Reach(toClient, view.node, n, k)
  BY <1>1, <1>3, ElsewhereChanged DEF Records
<1>9. CASE Data \in session
  <2>1. /\ \A j : NumberedIn(toClient, j) => NumberedIn(toClient', j)
        /\ \A j : Whole(toClient, j) => Whole(toClient', j)
        /\ \A j : Over(toClient, j) => Over(toClient', j)
        /\ \A x, st, k : Reach(toClient, x, st, k) /\ ~Says(d, k) => Reach(toClient', x, st, k)
        /\ \A x, st, k : Says(d, k) /\ Applied(st, d.write)[k] = st[k] => Reach(toClient', x, st, k)
    <3>1. d.type # "listen" /\ \A j : ~Mine(d, j)
      BY <1>5 DEF Mine
    <3>2. QED BY <1>6, <1>9, <3>1, WiresAre, Arriving
  <2>2. Numbers'
    BY <1>2, <2>1 DEF Tracks, Numbers
  <2>3. ASSUME view.on PROVE Follows(listens[Data])'
    <3>1. Follows(id)
      BY <2>3 DEF Tracks
    <3>2. CanSendWrites' = CanSendWrites /\ listens' = listens /\ view' = view /\ ~Quiet(toClient)
      BY <1>2, <1>9 DEF CanSendWrites, Quiet
    <3>3. ASSUME NEW k \in Key, Reach(toClient, view.node, store, k)
          PROVE  Reach(toClient', view.node, store', k)
      <4>1. CASE k = p
        BY <1>2, <1>4, <1>5, <1>7, <2>1, <4>1
      <4>2. CASE k # p
        BY <1>2, <1>7, <1>8, <2>1, <3>3, <4>2
      <4>3. QED BY <4>1, <4>2
    <3>4. Started(listens[Data])'
      BY <1>2, <2>1, <3>1, <3>2, <3>3 DEF Follows, Started
    <3>5. Hashed(toServer', id, view.node, Quiet(toClient)')
      BY <1>2, <3>1, <3>2 DEF Follows, Hashed
    <3>6. QED BY <1>2, <2>1, <3>1, <3>2, <3>4, <3>5 DEF Follows
  <2>4. QED BY <1>2, <2>2, <2>3 DEF Tracks
<1>10. CASE Data \notin session
  <2>1. toClient' = toClient /\ CanSendWrites' = CanSendWrites
    BY <1>2, <1>6, <1>10 DEF CanSendWrites
  <2>2. Numbers'
    BY <1>2, <2>1 DEF Tracks, Numbers
  <2>3. view.on => Follows(id)
    BY DEF Tracks
  <2>4. view.on => Started(listens[Data])'
    BY <1>2, <1>10, <2>1, <2>3 DEF Follows, Started
  <2>5. Quiet(toClient)' = Quiet(toClient)
    BY <1>2, <2>1 DEF Quiet
  <2>6. view.on => Follows(listens[Data])'
    BY <1>2, <2>1, <2>3, <2>4, <2>5 DEF Follows
  <2>7. QED BY <1>2, <2>2, <2>6 DEF Tracks
<1>11. QED BY <1>9, <1>10

\* A merge for a view with nothing is skipped, and does not matter: the complete
\* data comes after it.
LEMMA SaidAgain ==
  ASSUME LinkInv, PutsInv, ~crashed, ViewInv, view.on, ~view.full, CanSendWrites,
         toClient # <<>>, Head(toClient).type = "data", ~SaysAll(Head(toClient)),
         Whole(toClient, listens[Data]), ~AsksFor(toServer, listens[Data]),
         ~Over(toClient, listens[Data]), NEW k \in Key
  PROVE  \E i \in DOMAIN Tail(toClient) : Says(Tail(toClient)[i], k)
<1> DEFINE id == listens[Data]
           u == RemoveAt(toClient, 1)
<1>1. Head(toClient) = toClient[1] /\ 1 \in DOMAIN toClient /\ Tail(toClient) = u /\ IsWire(toClient)
  BY WiresAre, FirstTaken
<1>2. PICK f : Without(f, u, toClient, 1)
  BY <1>1, TakenOut
<1>3. \A l \in DOMAIN toClient : l \in Nat /\ l >= 1
  BY <1>1, WireFacts
<1> HIDE DEF u
<1>4. PICK i \in DOMAIN toClient : Mine(toClient[i], id)
  BY ViewParts DEF Awaits, AsksFor, Mine
<1>5. toClient[i].ok
  BY <1>4 DEF Over, EndsFor
<1>6. 1 < i
  <2>1. i # 1
    BY <1>1, <1>4 DEF Mine
  <2>2. QED BY <1>3, <1>4, <2>1
<1>7. PICK j \in DOMAIN toClient : j < i /\ SaysAll(toClient[j])
  BY <1>1, <1>4, <1>5, <1>6 DEF Whole
<1>8. j # 1
  BY <1>1, <1>7
<1>9. PICK l \in DOMAIN u : f[l] = j
  BY <1>2, <1>7, <1>8 DEF Without
<1>10. u[l] = toClient[j]
  BY <1>2, <1>9 DEF Without
<1>11. Says(u[l], k)
  BY <1>7, <1>10 DEF SaysAll, Says, Children, IsOverwrite
<1>12. QED BY <1>1, <1>9, <1>11

LEMMA ReceiveDataTracks ==
  ASSUME LinkInv, PutsInv, ~crashed, ViewInv, Tracks, ReceiveData PROVE Tracks'
<1> DEFINE m == Head(toClient)
           w == Head(toClient).write
           c == Tail(toClient)
           id == listens[Data]
           skipped == ~IsOverwrite(w) /\ view.node = EmptyNode /\ ~view.full
<1>1. Shown /\ Records /\ Awaits
  BY ViewParts
<1>2. /\ toClient # <<>> /\ m.type = "data" /\ toClient' = c
      /\ UNCHANGED <<conn, listens, made, toServer, session, store>>
  BY DEF ReceiveData, server
<1>3. CanSendWrites /\ CanSendWrites' = CanSendWrites
  <2>1. Connected
    BY <1>2, Facts
  <2>2. QED BY <1>2, <2>1 DEF LinkInv, RestoreNext, Connected, CanSendWrites
<1>4. /\ view'.on = view.on
      /\ view'.full <=> view.full \/ (view.on /\ RootSet(w))
      /\ view.on => view'.node = IF skipped THEN view.node ELSE Applied(view.node, w)
  BY ReceiveDataShows
<1>5. w \in WriteRecord
  BY <1>1, <1>2, WiresAre, HeadTaken DEF Records
<1>6. /\ SaysAll(m) <=> RootSet(w)
      /\ \A k : Says(m, k) <=> k \in Children(w)
      /\ \A j : ~EndsFor(m, j)
  BY <1>2 DEF SaysAll, RootSet, Says, EndsFor, Mine
<1>7. /\ \A n : NumberedIn(toClient, n) => NumberedIn(c, n)
      /\ ~SaysAll(m) /\ Whole(toClient, id) => Whole(c, id)
      /\ Over(toClient, id) => Over(c, id) \/ EndsFor(m, id)
      /\ \A n, p, st, k :
           Reach(toClient, n, st, k)
             /\ (~Says(m, k) => p[k] = n[k])
             /\ (Says(m, k) /\ Applied(st, w)[k] = st[k]
                   /\ (\A i \in DOMAIN c : ~Says(c[i], k)) => p[k] = st[k])
           => Reach(c, p, st, k)
  BY <1>2, WiresAre, Arrived
<1>8. ~Untold(toClient)
  BY <1>2, WiresAre, FirstTaken DEF Untold
<1> HIDE DEF m, w, c, skipped
<1>9. Numbers'
  BY <1>2, <1>7 DEF Tracks, Numbers
<1>10. ASSUME view.on PROVE Follows(listens[Data])'
  <2>1. Follows(id)
    BY <1>10 DEF Tracks
  <2>2. Hashed(toServer', id, view'.node, Quiet(toClient)')
    BY <1>2, <1>8, <2>1 DEF Follows, Hashed, Quiet
  <2>3. ~view'.full => Whole(toClient', id)
    BY <1>2, <1>4, <1>6, <1>7, <1>10, <2>1 DEF Follows
  <2>4. ASSUME ~AsksFor(toServer, id), ~Over(c, id)
        PROVE  Data \in session /\ \A k \in Key : Reach(c, view'.node, store, k)
    <3>1. ~Over(toClient, id)
      BY <1>6, <1>7, <2>4
    <3>2. Data \in session /\ \A k \in Key : Reach(toClient, view.node, store, k)
      BY <1>3, <2>1, <2>4, <3>1 DEF Follows, Started
    <3>3. ASSUME NEW k \in Key PROVE Reach(c, view'.node, store, k)
      <4>1. CASE skipped
        <5>1. view'.node = view.node /\ ~view.full /\ ~SaysAll(m)
          BY <1>4, <1>6, <1>10, <4>1 DEF skipped, RootSet
        <5>2. \E i \in DOMAIN c : Says(c[i], k)
          BY <1>2, <1>3, <1>10, <2>1, <2>4, <3>1, <5>1, SaidAgain DEF Follows, m, c
        <5>3. QED BY <1>7, <3>2, <5>1, <5>2
      <4>2. CASE ~skipped
        <5>1. view.node \in Node /\ store \in Node /\ view'.node = Applied(view.node, w)
          BY <1>1, <1>4, <1>10, <4>2 DEF Shown, ViewRecord, Records
        <5>2. /\ k \in Children(w) => Applied(view.node, w)[k] = Applied(store, w)[k]
              /\ k \notin Children(w) => Applied(view.node, w)[k] = view.node[k]
          BY <1>5, <5>1, SaidOf
        <5>3. QED BY <1>6, <1>7, <3>2, <5>1, <5>2
      <4>3. QED BY <4>1, <4>2
    <3>4. QED BY <3>2, <3>3
  <2>5. Started(listens[Data])'
    BY <1>2, <2>4 DEF Started
  <2>6. QED BY <1>2, <1>3, <2>1, <2>2, <2>3, <2>5 DEF Follows
<1>11. QED BY <1>2, <1>4, <1>9, <1>10 DEF Tracks

-----------------------------------------------------------------------------
(* Every step, and what follows.                                           *)

LEMMA StepTracks ==
  ASSUME LinkInv, PutsInv, ViewInv, Tracks, Next PROVE Tracks'
<1> ~crashed
  BY DEF Next
<1>1. CASE User
  BY <1>1, ObserveTracks, RemoveObserverTracks, PurgeTracks, WriteTracks DEF User
<1>2. CASE Receive
  BY <1>2, ReceivePutTracks, ReceiveListenTracks, ReceiveDataTracks, ReceiveRevokedTracks,
     AuthAnsweredTracks DEF Receive, ReceiveAuth
<1>3. CASE ServerStep
  BY <1>3, ServerPutTracks, ServerListenTracks, ServeAuthTracks, ServeSilentTracks DEF ServerStep
<1>4. CASE Refuse
  BY <1>4, ServerPutTracks, ServerListenTracks, ServeAuthTracks, RevokeTracks DEF Refuse
<1>5. CASE Connect
  BY <1>5, RetryFiresTracks, ReadyTracks, TokenFetchedTracks DEF Connect
<1>6. CASE Trouble
  BY <1>6, TokenFailedTracks, ConnectionLostTracks, RefreshAuthTokenTracks, InterruptTracks
     DEF Trouble
<1>7. CASE GoOnline
  BY <1>7, ResumeTracks DEF GoOnline
<1>8. CASE \E f \in foreign : OtherClient(f[1], f[2])
  BY <1>8, OtherClientTracks
<1>9. QED BY <1>1, <1>2, <1>3, <1>4, <1>5, <1>6, <1>7, <1>8 DEF Next

LEMMA StutterTracks == ASSUME Tracks, UNCHANGED vars PROVE Tracks'
<1>1. /\ view' = view
      /\ UNCHANGED <<conn, listens, made, wires, session, store>>
  BY DEF vars, linkVars, dataVars, server
<1>2. Same(view', view) /\ CanSendWrites' = CanSendWrites
  BY <1>1, SameItself DEF CanSendWrites
<1>3. QED BY <1>1, <1>2, TracksKept

LEMMA InitTracks == ASSUME Init PROVE Tracks
<1>1. /\ listens = [q \in Query |-> IF q \in Permanent THEN 1 ELSE 0] /\ made = 1
      /\ toServer = <<>> /\ toClient = <<>> /\ view = NoView
  BY DEF Init, LinkInit
<1>2. DOMAIN toServer = {} /\ DOMAIN toClient = {}
  BY <1>1
<1>3. \A q \in Query : listens[q] <= made
  BY <1>1
<1>4. Numbers
  BY <1>2, <1>3 DEF Numbers, NumberedIn
<1>5. QED BY <1>1, <1>4, NoViewShows DEF Tracks

\* The invariant on which the client's promises rest, for all queries, scripts
\* of writes, values and numbers of faults: what is outstanding is on the wires
\* in the order of the writes, on either side of the last one the server
\* handled (putInternal, onDisconnect, restoreState, ackPuts); a view that does
\* not know everything still has its listen under way (startListening); tree and
\* view hold what the pending writes make of the server's data; and what is on
\* the wires still makes the view's data the server's, child by child.
THEOREM Inductive == Spec => []IInv
<1>1. Init => PutsInv /\ ViewInv /\ Tracks
  BY InitReplays, InitShows, InitTracks
<1>2. LinkInv /\ PutsInv /\ ViewInv /\ Tracks /\ [Next]_vars => PutsInv' /\ ViewInv' /\ Tracks'
  BY StepReplays, StutterReplays, StepShows, StutterShows, StepTracks, StutterTracks
<1>3. Spec => [](PutsInv /\ ViewInv /\ Tracks)
  BY <1>1, <1>2, Linked, PTL DEF Spec
<1>4. LinkInv /\ PutsInv /\ ViewInv /\ Tracks => IInv
  BY TracksIs DEF IInv, ViewInv
<1>5. QED BY <1>3, <1>4, Linked, PTL

\* The writes the repository shows as pending are those whose answer is still to
\* come or held back, in order, so that every answer finds its write
\* (ackWriteWithWriteId's assertion), unless a purge has emptied the tree before
\* the held answers reached it (purgeOutstandingWrites).
THEOREM AllPending == Spec => []PendingExact
<1>1. IInv => PendingExact
  BY DEF IInv, PutsInv
<1>2. QED BY <1>1, Inductive, PTL

\* However the writes are answered, refused, purged, removed from under one
\* another, sent again and overtaken by pushes, visibleWrites is what layering
\* those still pending from nothing gives (removeWriteWithId's fast path and
\* its rebuild alike), and the view's events have told the server's data as far
\* as it is known with them on top (FViewProcessor's partial updates).
THEOREM Exact == Spec => []ViewExact
<1>1. IInv => ViewExact
  BY DEF IInv
<1>2. QED BY <1>1, Inductive, PTL

\* However often the connection is lost, the writes reach the server as Replay
\* promises: in order over every connection, none skipped that still waits, and
\* their answers are told in order, each once and never before the server has
\* handled them.
THEOREM Replayed == Spec => ReplaySpec
<1>1. Init => R!Init
  BY InitReplays
<1>2. IInv /\ [Next]_vars => [R!Next]_(R!replayVars)
  BY StepReplays, StutterReplays DEF IInv, Replays
<1>3. QED BY <1>1, <1>2, Inductive, PTL DEF Spec, ReplaySpec, R!Spec

LEMMA NothingPending ==
  ASSUME PutsInv, ~crashed, outstanding = {}, putsToAck = <<>> PROVE Pending = <<>>
<1>1. Held = {} /\ IsWire(allWrites)
  BY BooksAndWires DEF Held, Books, PutsPending
<1>2. {allWrites[i] : i \in DOMAIN allWrites} = {}
  BY <1>1 DEF PutsInv, PendingExact
<1>3. DOMAIN allWrites = {}
  BY <1>2
<1>4. allWrites = <<>>
  BY <1>1, <1>3 DEF IsWire
<1>5. QED BY <1>4 DEF Pending

LEMMA Quiesced ==
  ASSUME IInv, ~crashed, conn.state = "Connected", toServer = <<>>, toClient = <<>>
  PROVE  outstanding = {} /\ putsToAck = <<>> /\ (view.on => view.evFull /\ view.ev = store)
<1>1. LinkInv /\ PutsInv /\ ViewInv /\ Tracks /\ CanSendWrites
  BY TracksIs DEF IInv, ViewInv, CanSendWrites
<1>2. Shown /\ Records /\ Awaits
  BY <1>1, ViewParts
<1>3. outstanding = {}
  BY <1>1, NoPuts DEF PutsInv, PutsUnderWay
<1>4. unacked = 0
  BY <1>1, Facts, EmptyWire
<1>5. putsToAck = <<>>
  BY <1>1, <1>4 DEF LinkInv, AcksReleased
<1>6. visible = EmptyWrite
  BY <1>1, <1>2, <1>3, <1>5, NothingPending, NothingLayered DEF Shown
<1>7. ASSUME view.on PROVE view.evFull /\ view.ev = store
  <2>1. view.full /\ Shows(view, EmptyWrite)
    BY <1>1, <1>2, <1>4, <1>6, <1>7, AllKnown DEF Shown
  <2>2. \A k \in Key : view.node[k] = store[k]
    <3>1. DOMAIN toServer = {} /\ DOMAIN toClient = {}
      OBVIOUS
    <3>2. ~AsksFor(toServer, listens[Data]) /\ ~Over(toClient, listens[Data])
      BY <3>1 DEF AsksFor, Over
    <3>3. Follows(listens[Data])
      BY <1>1, <1>7 DEF Tracks
    <3>4. \A k \in Key : Reach(toClient, view.node, store, k)
      BY <1>1, <3>2, <3>3 DEF Follows, Started
    <3>5. QED BY <3>1, <3>4 DEF Reach
  <2>3. view.ev \in Node /\ view.node \in Node /\ store \in Node
    BY <1>2 DEF Shown, ViewRecord, Records
  <2>4. \A k \in Key : view.ev[k] = view.node[k]
    BY <2>1, <2>3, AppliedTo, NoRoot DEF Shows, ShowsBut
  <2>5. view.ev = store
    BY <2>2, <2>3, <2>4 DEF Node
  <2>6. view.evFull
    BY <2>1 DEF Shows, ShowsBut
  <2>7. QED BY <2>5, <2>6
<1>8. QED BY <1>3, <1>5, <1>7

\* Whatever was lost, sent again, refused, revoked or purged on the way, once
\* nothing is under way on a connection no write waits for its answer and the
\* view shows the server's data: restoreState sends what is outstanding and
\* names the data by its hash, and the pushes and answers that follow bring the
\* view to what the server has.
THEOREM Quiescent == Spec => []Converges
<1>1. IInv => Converges
  BY Quiesced DEF Converges
<1>2. QED BY <1>1, Inductive, PTL

=============================================================================

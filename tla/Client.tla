------------------------------- MODULE Client -------------------------------
(***************************************************************************)
(* The database client of the app, FRepo and FSyncTree over the connection *)
(* of Link, with the pending writes of WriteTree and the views of View,    *)
(* the server's data, and another client that changes it.                  *)
(*                                                                         *)
(* One query's data is followed, at one location; the others only take     *)
(* part in the traffic.  Nothing is persisted and no transaction is run,   *)
(* as in the app.                                                          *)
(***************************************************************************)
EXTENDS Link, View

CONSTANTS
  Data,       \* the query whose data is followed
  Scripts,    \* the sequences of writes the user may make
  First,      \* the first value of every child
  Foreign     \* what another client writes, each once: <<child, value>>

ASSUME ClientAssumption ==
  /\ Data \in Query \ Permanent
  /\ \A s \in Scripts : Len(s) <= MaxPuts /\ \A i \in DOMAIN s : s[i] \in WriteRecord
  /\ First \in Value /\ Foreign \subseteq Key \X Value

VARIABLES
  writes,     \* the writes made, by number
  allWrites,  \* the numbers of those still pending
  visible,    \* visibleWrites
  view,       \* the view of Data
  store,      \* the server's data
  foreign,    \* those of Foreign not written yet
  past,       \* per child, the values the server has ever given up
  crashed     \* an assertion stopped the program

dataVars == <<writes, allWrites, visible, view, store, foreign, past, crashed>>
vars == <<linkVars, dataVars>>

Pending == [i \in DOMAIN allWrites |-> writes[allWrites[i]]]

Init ==
  /\ LinkInit
  /\ writes = <<>> /\ allWrites = <<>> /\ visible = EmptyWrite
  /\ view = NoView
  /\ store = [k \in Key |-> First]
  /\ foreign = Foreign
  /\ past = [k \in Key |-> {}]
  /\ crashed = FALSE

\* Mutated Hash: the data the user sees is hashed, pending writes included.
HashOfEvents == [q \in Query |-> IF q = Data THEN view.ev ELSE EmptyNode]

\* FListenContainer simpleHash: two caches hash alike when they are equal.
Hash == [q \in Query |-> IF q = Data THEN view.node ELSE EmptyNode]

-----------------------------------------------------------------------------
(* The user's calls.                                                       *)

Observe ==
  /\ StartListen(Data, [q \in Query |-> EmptyNode])
  /\ view' = NewView(visible)
  /\ UNCHANGED <<writes, allWrites, visible, store, foreign, past, crashed>>

RemoveObserver ==
  /\ Unlisten(Data)
  /\ view' = NoView
  /\ UNCHANGED <<writes, allWrites, visible, store, foreign, past, crashed>>

\* set and update: into the write tree, the view, and the connection.
Write(script) ==
  LET n == Len(writes) + 1
      w == script[n]
  IN /\ n \in DOMAIN script /\ SubSeq(script, 1, n - 1) = writes
     /\ writes' = Append(writes, w)
     /\ allWrites' = Append(allWrites, n)
     /\ visible' = AddWrite(visible, w)
     /\ view' = IF view.on THEN UserWrite(view, w) ELSE view
     /\ PutInternal(n)
     /\ UNCHANGED <<store, foreign, past, crashed>>

\* purgeOutstandingWrites: the tree forgets every write and then the held
\* answers are given to it, which asserts that it has the write.
Purge ==
  /\ PurgePuts
  /\ crashed' = (putsToAck # <<>>)
  /\ allWrites' = <<>> /\ visible' = EmptyWrite
  /\ view' = IF view.on /\ allWrites # <<>>
               THEN RevertUserWrite(view, EmptyWrite, Top) ELSE view
  /\ UNCHANGED <<writes, store, foreign, past>>

-----------------------------------------------------------------------------
(* What comes from the server.                                             *)

\* ackWrite on the pending writes, the tree and the view: s is [all, vis, view,
\* stray], m an answer.
AckWrite(s, m) ==
  LET all == [i \in DOMAIN s.all |-> writes[s.all[i]]]
      w == writes[m.put]
      at == {i \in DOMAIN s.all : s.all[i] = m.put}
      i == CHOOSE j \in at : TRUE
      vis == RemoveWrite(all, s.vis, i)
  IN IF at = {} THEN [s EXCEPT !.stray = TRUE]
     ELSE [s EXCEPT !.all = RemoveAt(@, i),
                    !.vis = vis,
                    !.view = IF ~s.view.on \/ Shadowed(all, i) THEN @
                             ELSE IF m.ok THEN AckUserWrite(@, vis, w)
                             ELSE RevertUserWrite(@, vis, w.at)]

Acknowledge(answers, v) ==
  LET s == FoldLeft(AckWrite,
                    [all |-> allWrites, vis |-> visible, view |-> v, stray |-> FALSE],
                    answers)
  IN /\ allWrites' = s.all /\ visible' = s.vis /\ view' = s.view
     /\ crashed' = s.stray

ReceivePut ==
  /\ PutAnswered
  /\ Acknowledge(AckNow, view)
  /\ UNCHANGED <<writes, store, foreign, past>>

\* The listen's onComplete comes first, then the answers that waited for it.
ReceiveListen ==
  /\ ListenAnswered
  /\ LET m == Head(toClient)
     IN Acknowledge(AckPuts,
          IF m.query # Data \/ ~Current(m) THEN view
          ELSE IF m.ok THEN ListenComplete(view, visible) ELSE NoView)
  /\ UNCHANGED <<writes, store, foreign, past>>

\* onDataUpdate; without a view there is nothing to update.
ReceiveData ==
  /\ toClient # <<>> /\ Head(toClient).type = "data"
  /\ LET w == Head(toClient).write
     IN view' = CASE ~view.on -> view
                  [] view.on /\ IsOverwrite(w) -> ServerOverwrite(view, visible, w.at, w.data)
                  [] OTHER -> ServerMerge(view, visible, w.data)
  /\ toClient' = Tail(toClient)
  /\ UNCHANGED <<conn, listens, made, unacked, outstanding, putsToAck, toServer,
                 server, faults>>
  /\ UNCHANGED <<writes, allWrites, visible, store, foreign, past, crashed>>

ReceiveRevoked ==
  /\ ListenRevoked
  /\ view' = IF Head(toClient).query = Data THEN NoView ELSE view
  /\ UNCHANGED <<writes, allWrites, visible, store, foreign, past, crashed>>

ReceiveAuth == AuthAnswered(Hash) /\ UNCHANGED dataVars

-----------------------------------------------------------------------------
(* The server's data.                                                      *)

\* A write as the server applies it and as it tells those who listen.
Applied(n, w) ==
  CASE w.op = "merge" -> Layered(n, w.data)
    [] w.op = "set" /\ w.at = Top -> w.data
    [] OTHER -> [n EXCEPT ![w.at] = w.data]

Push(w) == IF Data \in session THEN <<[type |-> "data", write |-> w]>> ELSE <<>>

SetStore(n) ==
  /\ store' = n
  /\ past' = [k \in Key |-> past[k] \cup ({store[k]} \ {n[k]})]

ServerPut(ok) ==
  \E i \in NextPut :
    LET w == writes[toServer[i].put]
    IN /\ ServePut(i, IF ok THEN Push(w) ELSE <<>>, ok)
       /\ IF ok THEN SetStore(Applied(store, w)) ELSE UNCHANGED <<store, past>>
       /\ UNCHANGED <<writes, allWrites, visible, view, foreign, crashed>>

\* Only data that differs from what the client has, by its hash, is sent; but
\* FEmptyNode hashes to nothing, and a view without a cache counts on the
\* complete data (FViewProcessor.m:591).
ServerListen(ok) ==
  /\ NextIs({"listen"})
  /\ LET m == Head(toServer)
         all == [op |-> "set", at |-> Top, data |-> store]
     IN /\ (m.query \in Permanent => ok)
        /\ ServeListen(IF ok /\ m.query = Data /\ (m.hash = EmptyNode \/ m.hash # store)
                         THEN <<[type |-> "data", write |-> all]>> ELSE <<>>, ok)
  /\ UNCHANGED dataVars

OtherClient(k, v) ==
  /\ <<k, v>> \in foreign
  /\ foreign' = foreign \ {<<k, v>>}
  /\ SetStore([store EXCEPT ![k] = v])
  /\ toClient' = toClient \o Push([op |-> "set", at |-> k, data |-> v])
  /\ UNCHANGED <<conn, listens, made, unacked, outstanding, putsToAck, toServer,
                 server, faults>>
  /\ UNCHANGED <<writes, allWrites, visible, view, crashed>>

-----------------------------------------------------------------------------
User ==
  \/ Observe \/ RemoveObserver \/ Purge
  \/ \E s \in Scripts : Write(s)

Receive == ReceivePut \/ ReceiveListen \/ ReceiveData \/ ReceiveRevoked \/ ReceiveAuth

ServerStep ==
  \/ ServerPut(TRUE) \/ ServerListen(TRUE)
  \/ ServeAuth(TRUE) /\ UNCHANGED dataVars
  \/ ServeSilent /\ UNCHANGED dataVars

Refuse ==
  \/ ServerPut(FALSE) \/ ServerListen(FALSE)
  \/ (ServeAuth(FALSE) \/ \E q \in Query : Revoke(q)) /\ UNCHANGED dataVars

Connect ==
  /\ RetryFires \/ Ready(Hash) \/ TokenFetched
  /\ UNCHANGED dataVars

Trouble ==
  /\ \/ TokenFailed \/ ConnectionLost \/ RefreshAuthToken
     \/ \E r \in Reason : Interrupt(r)
  /\ UNCHANGED dataVars

GoOnline == Resume("repo_interrupt") /\ UNCHANGED dataVars

Next ==
  /\ ~crashed
  /\ \/ User \/ Receive \/ ServerStep \/ Refuse \/ Connect \/ Trouble \/ GoOnline
     \/ \E f \in foreign : OtherClient(f[1], f[2])

Spec == Init /\ [][Next]_vars

-----------------------------------------------------------------------------

Held == {putsToAck[i].put : i \in DOMAIN putsToAck}

\* The writes the repository shows as pending are those the connection still
\* has to hear about or holds the answer of, each once and in the order they
\* were made, so that every answer finds its write (the assertion of
\* FWriteTree.m:147).  The one exception stops the program: a purge, which
\* empties the tree before the held answers reach it.
PendingExact ==
  IF crashed THEN putsToAck # <<>> /\ outstanding = {} /\ allWrites = <<>>
  ELSE /\ {allWrites[i] : i \in DOMAIN allWrites} = outstanding \cup Held
       /\ \A i, j \in DOMAIN allWrites : i < j => allWrites[i] < allWrites[j]
       /\ \A i, j \in DOMAIN putsToAck : i < j => putsToAck[i].put < putsToAck[j].put
       /\ outstanding \cap Held = {}

PutsIn(wire) == {wire[i].put : i \in {j \in DOMAIN wire : wire[j].type = "put"}}

InOrder(wire) ==
  \A i, j \in DOMAIN wire :
    wire[i].type = "put" /\ wire[j].type = "put" /\ i < j => wire[i].put < wire[j].put

Restores(wire) == {i \in DOMAIN wire : wire[i].type = "auth" /\ wire[i].restore}

\* The puts of this connection go up through the wires, past the cursor: those
\* still to be handled above it, the answers below.
PutsOrdered ==
  /\ InOrder(toServer) /\ InOrder(toClient)
  /\ cursor \in 0 .. Len(writes)
  /\ PutsIn(toServer) \subseteq cursor + 1 .. Len(writes)
  /\ PutsIn(toClient) \subseteq 1 .. cursor
  /\ PutsIn(toClient) \subseteq handled

\* Every outstanding put is under way while there is a connection for it, and
\* nothing is sent on one before the state is restored, which happens once.
PutsUnderWay ==
  IF CanSendWrites
    THEN /\ outstanding \subseteq PutsIn(toServer) \cup PutsIn(toClient)
         /\ Restores(toServer) = {} /\ Restores(toClient) = {}
    ELSE /\ PutsIn(toServer) = {} /\ PutsIn(toClient) = {} /\ cursor = 0
         /\ Restores(toServer) \subseteq {1} /\ Restores(toClient) \subseteq {1}
         /\ Restores(toServer) = {} \/ Restores(toClient) = {}

\* The pending writes are the held ones and then the outstanding ones.
PutsPending ==
  /\ IsWire(writes) /\ IsWire(allWrites) /\ IsWire(putsToAck)
  /\ outstanding \cup Held \subseteq 1 .. Len(writes)
  /\ Held \subseteq handled
  /\ \A h \in Held, p \in outstanding : h < p

PutsInv ==
  PendingExact /\ (~crashed => PutsOrdered /\ PutsUnderWay /\ PutsPending)

\* visibleWrites is what layering the pending writes gives, though it is
\* maintained write by write and a child write lives folded in its parent's;
\* and what the view's events have told is the server's data, as far as it is
\* known, with the pending writes on top, though pushes, answers and refusals
\* only touch parts of it.
ViewExact ==
  LET layered == LayerTree(Pending)
  IN /\ visible = layered
     /\ view.on =>
          /\ view.evFull <=> CompleteEventCache(layered, IF view.full THEN view.node ELSE None) # None
          /\ view.ev = ApplyToNode(layered, view.node)

ViewTypeOK ==
  /\ \A i \in DOMAIN writes : writes[i] \in WriteRecord
  /\ \A i \in DOMAIN toClient : toClient[i].type = "data" => toClient[i].write \in WriteRecord
  /\ view \in [on: BOOLEAN, node: Node, full: BOOLEAN, ev: Node, evFull: BOOLEAN]
  /\ store \in Node /\ foreign \subseteq Key \X Value

\* The listen that the query has now, or the answer to it.
Own(m) == m.type = "listen" /\ m.query = Data /\ m.id = listens[Data]
Asked(wire) == \E i \in DOMAIN wire : Own(wire[i])

\* A view that does not know everything waits for the answer of its listen, so
\* no write is acknowledged to it.
ViewAwaits ==
  view.on => /\ listens[Data] # 0
             /\ CanSendWrites /\ ~view.full => Asked(toServer) \/ Asked(toClient)

\* Listens are numbered as they are made.
Numbered ==
  /\ \A q \in Query : listens[q] <= made
  /\ \A i \in DOMAIN toServer : toServer[i].type = "listen" => toServer[i].id \in 0 .. made
  /\ \A i \in DOMAIN toClient : toClient[i].type = "listen" => toClient[i].id \in 0 .. made

\* The server is not told to stop without being told to start again.
LastWord ==
  \A j \in DOMAIN toServer :
    toServer[j].type = "unlisten" /\ toServer[j].query = Data =>
      \E i \in DOMAIN toServer : j < i /\ Own(toServer[i])

Untold(wire) == \A i \in DOMAIN wire : wire[i].type # "data"
Unasked(wire) == \A i \in DOMAIN wire : ~(wire[i].type = "listen" /\ wire[i].query = Data)

\* Nothing is asked or told over a connection about a view with data, until the
\* state is restored; and then the listen that names this data by its hash is
\* the first, and no push changes the data before the server compares.
HashHolds ==
  /\ ~CanSendWrites /\ view.node # EmptyNode =>
       Data \notin session /\ Untold(toClient) /\ Unasked(toServer)
  /\ \A i \in DOMAIN toServer : Own(toServer[i]) /\ toServer[i].hash # EmptyNode =>
       /\ toServer[i].hash = view.node
       /\ Data \notin session /\ Untold(toClient)
       /\ \A j \in DOMAIN toServer \ {i} :
            ~(toServer[j].type = "listen" /\ toServer[j].query = Data)

\* The children a push says something about.
Children(w) ==
  CASE w.op = "merge" -> DOMAIN w.data
    [] IsOverwrite(w) /\ w.at = Top -> Key
    [] OTHER -> {w.at}
Says(m, k) == m.type = "data" /\ k \in Children(m.write)
SaysAll(m) == m.type = "data" /\ IsOverwrite(m.write) /\ m.write.at = Top

\* A view that does not know everything is told it before the answer; or
\* nothing at all, when the hash was right.
CompleteFirst ==
  ~view.full =>
    \A i \in DOMAIN toClient : Own(toClient[i]) /\ toClient[i].ok =>
      \/ \E j \in DOMAIN toClient : j < i /\ SaysAll(toClient[j])
      \/ \A j \in DOMAIN toClient : j < i => toClient[j].type # "data"

\* What ends the view when it arrives.
Ends(m) == (m.type = "revoked" /\ m.query = Data) \/ (Own(m) /\ ~m.ok)

\* The last push about a child makes it what the server has; without one it
\* is that already.
Reaches(k) ==
  /\ (\A i \in DOMAIN toClient : ~Says(toClient[i], k)) => view.node[k] = store[k]
  /\ \A i \in DOMAIN toClient :
       Says(toClient[i], k) /\ (\A j \in DOMAIN toClient : i < j => ~Says(toClient[j], k)) =>
         Applied(store, toClient[i].write)[k] = store[k]

\* Once the server has begun the listen it goes on with it, and what is on the
\* wire makes the view's data the server's.
Served ==
  CanSendWrites /\ ~Asked(toServer) /\ (\A i \in DOMAIN toClient : ~Ends(toClient[i])) =>
    Data \in session /\ \A k \in Key : Reaches(k)

ViewFollows ==
  Numbered /\ (view.on => LastWord /\ HashHolds /\ CompleteFirst /\ Served)

\* The inductive invariant.
IInv == LinkInv /\ PutsInv /\ ViewTypeOK /\ ViewAwaits /\ ViewExact /\ ViewFollows

\* Once nothing is under way any more, whatever was lost, sent twice, refused or
\* purged on the way, no write waits for its answer and the view shows the
\* server's data.
Converges ==
  (~crashed /\ conn.state = "Connected" /\ toServer = <<>> /\ toClient = <<>>)
  => /\ outstanding = {} /\ putsToAck = <<>>
     /\ view.on => view.evFull /\ view.ev = store

\* An answer to accepted writes changes what the user sees of a child only when
\* the server has replaced that since: it never brings back what was there
\* before them.  Answers are held back while a listen is under way for that.
Accepted ==
  /\ allWrites' # allWrites /\ toClient' = Tail(toClient)
  /\ \A i \in DOMAIN putsToAck : putsToAck[i].ok
  /\ Head(toClient).type = "put" => Head(toClient).ok
NeverOlder ==
  [][toClient # <<>> /\ Accepted /\ view.on /\ view'.on =>
       \A k \in Key : view'.ev[k] # view.ev[k] => view.ev[k] \in past[k]]_vars

\* The writes reach the server as Replay says: in order over every connection,
\* none skipped, repeated after a lost answer, and told in order, each once.
\* After a stop nothing is told any more.
R == INSTANCE Replay WITH
  issued <- Len(writes),
  over <- (1 .. Len(writes)) \ IF crashed THEN {} ELSE outstanding \cup Held
ReplaySpec == R!Spec

=============================================================================

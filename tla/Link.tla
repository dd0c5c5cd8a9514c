-------------------------------- MODULE Link --------------------------------
(***************************************************************************)
(* FPersistentConnection: the connection to the database server, the       *)
(* listens and puts that are sent over it and sent again over the next     *)
(* one.  Everything here runs on one serial queue, so an action is one     *)
(* callback.  The module holds the connection's state and the actions on   *)
(* it; Client adds what the answers do to the data.                        *)
(*                                                                         *)
(* Puts are numbered in the order they were made (putCounter), listens as  *)
(* well: the number stands for the identity of FOutstandingQuery.  A       *)
(* callback in requestCBHash is the answer still expected in the two       *)
(* wires, which end with the connection as the callbacks do.               *)
(***************************************************************************)
EXTENDS Naturals, Sequences, SequencesExt, FiniteSets

CONSTANTS
  Query,      \* the queries of the app
  Permanent,  \* those observed from the start and for good
  MaxPuts,    \* bound on puts
  MaxListens, \* bound on listens added after the start
  MaxFaults   \* bound on lost connections, failed tokens and the like

ASSUME LinkAssumption ==
  /\ Permanent # {} /\ Permanent \subseteq Query /\ IsFiniteSet(Query)
  /\ MaxPuts \in Nat /\ MaxListens \in Nat /\ MaxFaults \in Nat

VARIABLES
  conn,        \* connectionState, interruptReasons, scheduledRetry, token
  listens,     \* self.listens: the number of the listen on a query, or 0
  made,        \* listens made so far
  unacked,     \* unackedListensCount
  outstanding, \* the keys of outstandingPuts
  putsToAck,   \* answers held back
  toServer,    \* requests on their way
  toClient,    \* answers and pushes on their way
  session,     \* the queries the server serves over this connection
  cursor,      \* the last put it handled over this connection, or 0
  handled,     \* the puts it handled at all, some of them more than once
  faults       \* faults so far

wires == <<toServer, toClient>>
server == <<session, cursor, handled>>
linkVars == <<conn, listens, made, unacked, outstanding, putsToAck,
              wires, server, faults>>

Reason == {"repo_interrupt", "server_kill"}
ConnectionState ==
  {"Disconnected", "GettingToken", "Connecting", "Authenticating", "Connected"}

\* fetch: what the latest token fetch read ("nil" when nobody was signed in), or
\* "none" once its callback ran.  Those of earlier fetches change nothing
\* (currentFetchTokenAttempt).  user: somebody is signed in.
Conn == [state: ConnectionState, reasons: SUBSET Reason, retry: BOOLEAN,
         fetch: {"none", "nil", "token"}, token: BOOLEAN, user: BOOLEAN]

\* The repository has been set up and open has been called.
LinkInit ==
  /\ conn = [state |-> "Disconnected", reasons |-> {}, retry |-> TRUE,
             fetch |-> "none", token |-> FALSE, user |-> TRUE]
  /\ listens = [q \in Query |-> IF q \in Permanent THEN 1 ELSE 0]
  /\ made = 1
  /\ unacked = 0
  /\ outstanding = {}
  /\ putsToAck = <<>>
  /\ toServer = <<>> /\ toClient = <<>>
  /\ session = {} /\ cursor = 0 /\ handled = {}
  /\ faults = 0

-----------------------------------------------------------------------------
(* Helpers.                                                                *)

Connected == conn.state \in {"Authenticating", "Connected"}
CanSendWrites == conn.state = "Connected"

\* self.realtime is there.
Realtime(c) == c.state \in {"Connecting", "Authenticating", "Connected"}

TryScheduleReconnect(c) == IF c.reasons = {} THEN [c EXCEPT !.retry = TRUE] ELSE c

\* Mutated Disconnected: the count of the listens stays.
DisconnectedCounting(c) ==
  /\ conn' = TryScheduleReconnect([c EXCEPT !.state = "Disconnected"])
  /\ toServer' = <<>> /\ toClient' = <<>>
  /\ session' = {} /\ cursor' = 0
  /\ UNCHANGED <<unacked, handled>>

\* onDisconnect, which close of the connection runs before it returns: the
\* callbacks go, held answers and outstanding puts stay.
Disconnected(c) ==
  /\ conn' = TryScheduleReconnect([c EXCEPT !.state = "Disconnected"])
  /\ unacked' = 0
  /\ toServer' = <<>> /\ toClient' = <<>>
  /\ session' = {} /\ cursor' = 0
  /\ UNCHANGED handled

Listen(q, id, hash) == [type |-> "listen", query |-> q, id |-> id, hash |-> hash]
Put(w) == [type |-> "put", put |-> w]
Auth(restore) == [type |-> "auth", restore |-> restore]

Fault == faults < MaxFaults /\ faults' = faults + 1

Listened == {q \in Query : listens[q] # 0}

\* Mutated RestoredPuts: the latest put first.
LatestFirst ==
  [i \in 1 .. Cardinality(outstanding) |->
     Put(CHOOSE p \in outstanding : Cardinality({q \in outstanding : q > p}) = i - 1)]

\* The keys of outstandingPuts, sorted: the i-th has i - 1 below it.
RestoredPuts ==
  [i \in 1 .. Cardinality(outstanding) |->
     Put(CHOOSE p \in outstanding : Cardinality({q \in outstanding : q < p}) = i - 1)]

\* restoreState: every listen, in the order of the dictionary, then the puts
\* in theirs.  hash[q] is the hash of what the client has of q.
RestoreState(hash) ==
  \E order \in SetToSeqs(Listened) :
    /\ toServer' = toServer
         \o [i \in DOMAIN order |-> Listen(order[i], listens[order[i]], hash[order[i]])]
         \o RestoredPuts
    /\ unacked' = unacked + Len(order)

-----------------------------------------------------------------------------
(* The connection comes and goes.                                          *)

RetryFires ==
  /\ conn.retry
  /\ conn' = [conn EXCEPT !.retry = FALSE, !.state = "GettingToken",
                          !.fetch = IF conn.user THEN "token" ELSE "nil"]
  /\ UNCHANGED <<listens, made, unacked, outstanding, putsToAck, wires, server, faults>>

\* Mutated TokenFetched: the interruption is not looked at.
OpensAnyway ==
  /\ conn.fetch # "none"
  /\ conn' = [conn EXCEPT !.fetch = "none", !.token = conn.fetch = "token",
                          !.state = "Connecting"]
  /\ UNCHANGED <<listens, made, unacked, outstanding, putsToAck, wires, server, faults>>

\* The token arrives.  An interruption in between has set the state back, and
\* then nothing is opened.
TokenFetched ==
  /\ conn.fetch # "none"
  /\ conn' = IF conn.state = "GettingToken"
               THEN [conn EXCEPT !.fetch = "none", !.token = conn.fetch = "token",
                                 !.state = "Connecting"]
               ELSE [conn EXCEPT !.fetch = "none"]
  /\ UNCHANGED <<listens, made, unacked, outstanding, putsToAck, wires, server, faults>>

\* Mutated TokenFailed: nobody tries again.
GivesUp ==
  /\ conn.fetch # "none" /\ Fault
  /\ conn' = [conn EXCEPT !.fetch = "none", !.state = "Disconnected"]
  /\ UNCHANGED <<listens, made, unacked, outstanding, putsToAck, wires, server>>

TokenFailed ==
  /\ conn.fetch # "none" /\ Fault
  /\ conn' = TryScheduleReconnect([conn EXCEPT !.fetch = "none", !.state = "Disconnected"])
  /\ UNCHANGED <<listens, made, unacked, outstanding, putsToAck, wires, server>>

\* onReady and restoreAuth.
Ready(hash) ==
  /\ conn.state = "Connecting"
  /\ IF conn.token
       THEN /\ conn' = [conn EXCEPT !.state = "Authenticating"]
            /\ toServer' = Append(toServer, Auth(TRUE))
            /\ UNCHANGED unacked
       ELSE /\ conn' = [conn EXCEPT !.state = "Connected"]
            /\ RestoreState(hash)
  /\ UNCHANGED <<listens, made, outstanding, putsToAck, toClient, server, faults>>

\* The answer to an auth request; a refusal closes the connection.
AuthAnswered(hash) ==
  /\ toClient # <<>> /\ Head(toClient).type = "auth"
  /\ IF Head(toClient).ok
       THEN /\ conn' = [conn EXCEPT !.state = "Connected"]
            /\ IF Head(toClient).restore THEN RestoreState(hash)
                                         ELSE UNCHANGED <<toServer, unacked>>
            /\ toClient' = Tail(toClient)
            /\ UNCHANGED server
       ELSE Disconnected([conn EXCEPT !.token = FALSE])
  /\ UNCHANGED <<listens, made, outstanding, putsToAck, faults>>

\* refreshAuthToken: the user signs out, or in again.
RefreshAuthToken ==
  /\ Fault
  /\ conn' = [conn EXCEPT !.user = ~conn.user, !.token = ~conn.user]
  /\ toServer' = IF Connected
                   THEN Append(toServer, IF conn.user THEN [type |-> "unauth"] ELSE Auth(FALSE))
                   ELSE toServer
  /\ UNCHANGED <<listens, made, unacked, outstanding, putsToAck, toClient, server>>

\* The socket breaks, before or after the handshake, or the server resets the
\* connection or takes the token back, which closes it.
ConnectionLost ==
  /\ Realtime(conn) /\ Fault
  /\ Disconnected(conn)
  /\ UNCHANGED <<listens, made, outstanding, putsToAck>>

\* interruptForReason, by goOffline or by a server that shuts the client out;
\* without a connection only the retry is cancelled.
Interrupt(r) ==
  /\ Fault
  /\ r = "server_kill" => Realtime(conn)
  /\ Disconnected([conn EXCEPT !.reasons = @ \cup {r},
                               !.retry = @ /\ Realtime(conn)])
  /\ UNCHANGED <<listens, made, outstanding, putsToAck>>

\* resumeForReason.
Resume(r) ==
  LET c == [conn EXCEPT !.reasons = @ \ {r}]
  IN /\ r \in conn.reasons
     /\ conn' = IF c.state = "Disconnected" THEN TryScheduleReconnect(c) ELSE c
     /\ UNCHANGED <<listens, made, unacked, outstanding, putsToAck, wires, server, faults>>

-----------------------------------------------------------------------------
(* Requests.                                                               *)

StartListen(q, hash) ==
  /\ listens[q] = 0 /\ made <= MaxListens
  /\ made' = made + 1
  /\ listens' = [listens EXCEPT ![q] = made + 1]
  /\ IF Connected
       THEN /\ toServer' = Append(toServer, Listen(q, made + 1, hash[q]))
            /\ unacked' = unacked + 1
       ELSE UNCHANGED <<toServer, unacked>>
  /\ UNCHANGED <<conn, outstanding, putsToAck, toClient, server, faults>>

Unlisten(q) ==
  /\ listens[q] # 0 /\ q \notin Permanent
  /\ listens' = [listens EXCEPT ![q] = 0]
  /\ toServer' = IF Connected THEN Append(toServer, [type |-> "unlisten", query |-> q])
                              ELSE toServer
  /\ UNCHANGED <<conn, made, unacked, outstanding, putsToAck, toClient, server, faults>>

PutInternal(w) ==
  /\ outstanding' = outstanding \cup {w}
  /\ toServer' = IF CanSendWrites THEN Append(toServer, Put(w)) ELSE toServer
  /\ UNCHANGED <<conn, listens, made, unacked, putsToAck, toClient, server, faults>>

-----------------------------------------------------------------------------
(* Answers.                                                                *)

\* The answer at hand is the one of the listen the query has now.
Current(m) == listens[m.query] = m.id

\* The callback of a listen; the last one lets the held answers go (AckPuts).
ListenAnswered ==
  /\ toClient # <<>> /\ Head(toClient).type = "listen"
  /\ LET m == Head(toClient)
     IN listens' = IF Current(m) /\ ~m.ok THEN [listens EXCEPT ![m.query] = 0] ELSE listens
  /\ unacked' = unacked - 1
  /\ putsToAck' = IF unacked' = 0 THEN <<>> ELSE putsToAck
  /\ toClient' = Tail(toClient)
  /\ UNCHANGED <<conn, made, outstanding, toServer, server, faults>>

\* The held answers a listen's callback gives to ackWrite.
AckPuts == IF unacked = 1 THEN putsToAck ELSE <<>>

\* The callback of a put: one that was purged or answered is ignored.
PutAnswered ==
  /\ toClient # <<>> /\ Head(toClient).type = "put"
  /\ LET m == Head(toClient)
     IN /\ outstanding' = outstanding \ {m.put}
        /\ putsToAck' = IF m.put \in outstanding /\ unacked # 0
                          THEN Append(putsToAck, m) ELSE putsToAck
  /\ toClient' = Tail(toClient)
  /\ UNCHANGED <<conn, listens, made, unacked, toServer, server, faults>>

\* Mutated AckNow: listens under way are not waited for; a purged put is told
\* its answer.
NeverHeld ==
  LET m == Head(toClient)
  IN IF m.put \in outstanding THEN <<m>> ELSE <<>>
PurgedTold ==
  LET m == Head(toClient)
  IN IF unacked = 0 THEN <<m>> ELSE <<>>

\* The answer a put's callback gives to ackWrite at once.
AckNow ==
  LET m == Head(toClient)
  IN IF m.put \in outstanding /\ unacked = 0 THEN <<m>> ELSE <<>>

\* onListenRevoked.
ListenRevoked ==
  /\ toClient # <<>> /\ Head(toClient).type = "revoked"
  /\ listens' = [listens EXCEPT ![Head(toClient).query] = 0]
  /\ toClient' = Tail(toClient)
  /\ UNCHANGED <<conn, made, unacked, outstanding, putsToAck, toServer, server, faults>>

\* purgeOutstandingWrites, when no answer is held back.
PurgePuts ==
  /\ Fault
  /\ outstanding' = {}
  /\ UNCHANGED <<conn, listens, made, unacked, putsToAck, wires, server>>

-----------------------------------------------------------------------------
(* The server, seen from here: it answers requests in order, except that a *)
(* listen may take longer than the puts after it.  It pushes data before   *)
(* it answers.                                                             *)

NextIs(types) == toServer # <<>> /\ Head(toServer).type \in types

\* The first put, if nothing but slow listens precede it.
NextPut ==
  {i \in DOMAIN toServer :
     /\ toServer[i].type = "put"
     /\ \A j \in 1 .. i - 1 : toServer[j].type \in {"listen", "unlisten"}}

Take(i) == toServer' = RemoveAt(toServer, i)

ServeAuth(ok) ==
  /\ NextIs({"auth"})
  /\ IF ok THEN UNCHANGED faults ELSE Fault
  /\ toClient' = Append(toClient, [type |-> "auth", restore |-> Head(toServer).restore, ok |-> ok])
  /\ Take(1)
  /\ UNCHANGED <<conn, listens, made, unacked, outstanding, putsToAck, server>>

ServeSilent ==
  /\ NextIs({"unauth", "unlisten"})
  /\ session' = IF Head(toServer).type = "unlisten"
                  THEN session \ {Head(toServer).query} ELSE session
  /\ Take(1)
  /\ UNCHANGED <<conn, listens, made, unacked, outstanding, putsToAck, toClient, cursor, handled, faults>>

\* pushes: the data sent ahead of the answer.
ServeListen(pushes, ok) ==
  /\ NextIs({"listen"})
  /\ LET m == Head(toServer)
     IN /\ session' = IF ok THEN session \cup {m.query} ELSE session
        /\ toClient' = toClient \o pushes
             \o <<[type |-> "listen", query |-> m.query, id |-> m.id, ok |-> ok]>>
  /\ Take(1)
  /\ UNCHANGED <<conn, listens, made, unacked, outstanding, putsToAck, cursor, handled, faults>>

ServePut(i, pushes, ok) ==
  /\ toClient' = toClient \o pushes \o <<[type |-> "put", put |-> toServer[i].put, ok |-> ok]>>
  /\ Take(i)
  /\ cursor' = toServer[i].put
  /\ handled' = handled \cup {toServer[i].put}
  /\ UNCHANGED <<conn, listens, made, unacked, outstanding, putsToAck, session, faults>>

Revoke(q) ==
  /\ q \in session \ Permanent /\ Fault
  /\ session' = session \ {q}
  /\ toClient' = Append(toClient, [type |-> "revoked", query |-> q])
  /\ UNCHANGED <<conn, listens, made, unacked, outstanding, putsToAck, toServer, cursor, handled>>

-----------------------------------------------------------------------------
IsWire(w) == w \in Seq({w[i] : i \in DOMAIN w})

LinkTypeOK ==
  /\ conn \in Conn
  /\ listens \in [Query -> Nat]
  /\ made \in Nat /\ unacked \in Nat /\ faults \in Nat
  /\ IsFiniteSet(outstanding)
  /\ IsWire(toServer) /\ IsWire(toClient)

\* The callbacks that tryScheduleReconnect leaves behind agree with the state
\* whatever interrupts them: at most one of retry, fetch and connection is in
\* charge, and without an interruption always one is, so that the client cannot
\* stay offline with nothing under way (the assertions of lines 448 and 455).
NeverStranded ==
  /\ conn.retry => conn.state = "Disconnected" /\ conn.reasons = {}
  /\ conn.state = "Disconnected" /\ conn.reasons = {} => conn.retry
  /\ conn.state = "GettingToken" => conn.fetch # "none"
  /\ Realtime(conn) => conn.fetch = "none"

ListensIn(wire) == Cardinality({i \in DOMAIN wire : wire[i].type = "listen"})

\* The answers that wait in putsToAck are let go in the end: on a connection a
\* listen's answer is still to come for them, and the count of unanswered
\* listens is that of the requests and answers under way, through reconnects,
\* listens sent while authenticating and sent again, and listens removed before
\* their answer (the assertion of line 811).
AcksReleased ==
  /\ CanSendWrites /\ putsToAck # <<>> => unacked # 0
  /\ unacked = ListensIn(toServer) + ListensIn(toClient)

\* What a permanent listen is never told.
Bearable(m) ==
  m.type = "revoked" \/ (m.type = "listen" /\ ~m.ok) => m.query \notin Permanent

\* While authenticating, the next auth answer is the one that restores the state.
RestoreNext ==
  conn.state = "Authenticating" =>
    \/ /\ toClient = <<>> /\ session = {}
       /\ toServer # <<>> /\ Head(toServer).type = "auth" /\ Head(toServer).restore
    \/ toClient # <<>> /\ Head(toClient).type = "auth" /\ Head(toClient).restore

\* The inductive invariant of the connection.
LinkInv ==
  /\ LinkTypeOK
  /\ NeverStranded
  /\ AcksReleased
  /\ conn.state # "Disconnected" => conn.reasons = {}
  /\ ~Connected => toServer = <<>> /\ toClient = <<>> /\ unacked = 0 /\ session = {}
  /\ RestoreNext
  /\ \A q \in Permanent : listens[q] # 0
  /\ \A i \in DOMAIN toClient : Bearable(toClient[i])

=============================================================================

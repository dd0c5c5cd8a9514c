-------------------------------- MODULE View --------------------------------
(***************************************************************************)
(* FViewProcessor: how one view of a location follows the user's writes,   *)
(* the server's data and the answers to the writes.  A view keeps two      *)
(* caches, what the server said and what its events told, each with a flag *)
(* that says whether it is known completely.  Every operator takes a view  *)
(* and returns the new one; the writes are looked up in vis, the tree of   *)
(* the writes still pending after the operation.                           *)
(***************************************************************************)
EXTENDS WriteTree

NoView == [on |-> FALSE, node |-> EmptyNode, full |-> FALSE,
           ev |-> EmptyNode, evFull |-> FALSE]

\* FSyncPoint addEventRegistration for a query without a view: nothing is
\* known from the server, pending writes are shown at once.
NewView(vis) ==
  LET cache == CompleteEventCache(vis, None)
  IN [NoView EXCEPT
        !.on = TRUE,
        !.ev = IF cache # None THEN cache ELSE CompleteEventChildren(vis, EmptyNode),
        !.evFull = cache # None]

\* FCacheNode isCompleteForChild, of the server's cache.
CompleteForChild(v, k) == v.full \/ v.node[k] # Empty

-----------------------------------------------------------------------------
\* generateEventCacheAfterServerEvent: what a pending write covers is left.
EventsAt(v, vis, p) ==
  IF CompleteNode(vis, p) # None THEN v
  ELSE IF p = Top
    THEN [v EXCEPT !.ev = CompleteEventCache(vis, v.node), !.evFull = TRUE]
  ELSE [v EXCEPT !.ev[p] = v.node[p]]

ServerOverwrite(v, vis, p, data) ==
  IF p = Top THEN EventsAt([v EXCEPT !.node = data, !.full = TRUE], vis, Top)
             ELSE EventsAt([v EXCEPT !.node[p] = data], vis, p)

\* A merge for a cache that has nothing yet was meant for an earlier listen.
ServerMerge(v, vis, data) ==
  IF v.node = EmptyNode /\ ~v.full THEN v
  ELSE FoldLeft(LAMBDA u, k : ServerOverwrite(u, vis, k, data[k]),
                v, SetToSeq(DOMAIN data))

ListenComplete(v, vis) == EventsAt([v EXCEPT !.full = TRUE], vis, Top)

UserWrite(v, w) ==
  CASE IsOverwrite(w) /\ w.at = Top -> [v EXCEPT !.ev = w.data, !.evFull = TRUE]
    [] IsOverwrite(w) /\ w.at # Top -> [v EXCEPT !.ev[w.at] = w.data]
    [] OTHER -> [v EXCEPT !.ev = Layered(v.ev, w.data)]

\* ackUserWriteOn: the server's cache is applied again where the write was.
AckUserWrite(v, vis, w) ==
  LET known == [k \in {j \in Key : v.node[j] # Empty} |-> v.node[k]]
  IN CASE CompleteNode(vis, w.at) # None -> v
       [] CompleteNode(vis, w.at) = None /\ ~IsOverwrite(w) ->
            ServerMerge(v, vis,
              [k \in {j \in DOMAIN w.data : CompleteForChild(v, j)} |-> v.node[k]])
       [] CompleteNode(vis, w.at) = None /\ IsOverwrite(w) /\ w.at = Top ->
            IF v.full THEN ServerOverwrite(v, vis, Top, v.node)
                      ELSE ServerMerge(v, vis, known)
       [] OTHER ->
            IF CompleteForChild(v, w.at)
              THEN ServerOverwrite(v, vis, w.at, v.node[w.at]) ELSE v

\* calculateCompleteChild without a write over it.
RevertedChild(v, vis, k) ==
  IF CompleteForChild(v, k) THEN v.node[k] ELSE Empty

\* revertUserWriteOn: the refused write's path is computed again.
RevertUserWrite(v, vis, p) ==
  IF CompleteNode(vis, p) # None THEN v
  ELSE LET ev == IF p # Top THEN [v.ev EXCEPT ![p] = RevertedChild(v, vis, p)]
                 ELSE IF v.full THEN CompleteEventCache(vis, v.node)
                 ELSE CompleteEventChildren(vis, v.node)
       IN [v EXCEPT !.ev = ev, !.evFull = v.full \/ vis.root # None]

=============================================================================

----------------------------- MODULE WriteTree -----------------------------
(***************************************************************************)
(* The data structures behind FWriteTree: the nodes of one location, the   *)
(* compound write that folds the pending writes into one tree, and the     *)
(* removal of a write from it.  A location has two levels, itself and its  *)
(* children, which is what tells an overwrite that shadows apart from one  *)
(* that is shadowed.  Every write is visible: only transactions with       *)
(* applyLocally = NO are not, and the app runs none.                       *)
(***************************************************************************)
EXTENDS Naturals, Sequences, SequencesExt, FiniteSets

CONSTANTS
  Key,    \* the children of the location
  Top,    \* the path of the location itself
  Value,  \* what a child may hold
  Empty,  \* FEmptyNode, a child that is not there
  None    \* nil

Node == [Key -> Value]

ASSUME PathAssumption ==
  /\ IsFiniteSet(Key) /\ Top \notin Key
  /\ Empty \in Value /\ None \notin Value /\ None \notin Node

\* FNode: the value of every child.
EmptyNode == [k \in Key |-> Empty]

\* FPath contains: the path itself or one above it.
Covers(p, q) == p = Top \/ p = q

\* FWriteRecord: an overwrite of the location or of one child, or a merge of
\* children into the location.
WriteRecord ==
  [op: {"set"}, at: {Top}, data: Node] \cup [op: {"set"}, at: Key, data: Value]
    \cup [op: {"merge"}, at: {Top}, data: UNION {[K -> Value] : K \in SUBSET Key}]

IsOverwrite(w) == w.op = "set"

-----------------------------------------------------------------------------
(* FCompoundWrite: a value at the root, or values at some children.        *)

EmptyWrite == [root |-> None, kids |-> [k \in Key |-> None]]

\* n with the children of d in place of its own.
Layered(n, d) == [k \in Key |-> IF k \in DOMAIN d THEN d[k] ELSE n[k]]

\* The children a compound write without a root holds.
Written(cw) == [k \in {j \in Key : cw.kids[j] # None} |-> cw.kids[k]]

\* addWrite and addCompoundWrite: a deeper write is folded into the root's
\* value when there is one, a root value drops what was below.
AddWrite(cw, w) ==
  LET d == IF w.op = "merge" THEN w.data ELSE [k \in {w.at} |-> w.data]
  IN IF IsOverwrite(w) /\ w.at = Top
       THEN [EmptyWrite EXCEPT !.root = w.data]
     ELSE IF cw.root # None
       THEN [cw EXCEPT !.root = Layered(cw.root, d)]
     ELSE [cw EXCEPT !.kids = Layered(cw.kids, d)]

\* removeWriteAtPath: it does not modify a write at a higher location.
RemoveWriteAtPath(cw, p) ==
  IF p = Top THEN EmptyWrite ELSE [cw EXCEPT !.kids[p] = None]

CompleteNode(cw, p) ==
  CASE p = Top -> cw.root
    [] p # Top /\ cw.root # None -> cw.root[p]
    [] OTHER -> cw.kids[p]

ApplyToNode(cw, n) == IF cw.root # None THEN cw.root ELSE Layered(n, Written(cw))

-----------------------------------------------------------------------------
(* FWriteTree: all is the sequence of pending writes, vis the tree.        *)

LayerTree(all) == FoldLeft(AddWrite, EmptyWrite, all)

RecordContains(w, p) ==
  IF IsOverwrite(w) THEN Covers(w.at, p)
                    ELSE \E k \in DOMAIN w.data : Covers(k, p)

\* The paths a write wrote, as removeWriteId takes them out one by one.
RemoveWritten(vis, w) ==
  IF IsOverwrite(w) THEN RemoveWriteAtPath(vis, w.at)
  ELSE [vis EXCEPT !.kids = [k \in Key |-> IF k \in DOMAIN w.data THEN None ELSE @[k]]]

\* The write at index i was hidden by a later one: views need no second look.
Shadowed(all, i) ==
  \E j \in i + 1 .. Len(all) : RecordContains(all[j], all[i].at)

Overlaps(all, i) ==
  \E j \in DOMAIN all \ {i} : Covers(all[i].at, all[j].at)

\* Mutated RemoveWrite: overlapping writes are not layered again.
NotLayeredAgain(all, vis, i) ==
  IF Shadowed(all, i) THEN vis ELSE RemoveWritten(vis, all[i])

\* visibleWrites after removeWriteId of the write at index i.
RemoveWrite(all, vis, i) ==
  IF Shadowed(all, i) THEN vis
  ELSE IF Overlaps(all, i) THEN LayerTree(RemoveAt(all, i))
  ELSE RemoveWritten(vis, all[i])

\* calculateCompleteEventCacheAtPath: the server's data (None while it is not
\* complete) under the pending writes.
CompleteEventCache(vis, server) ==
  CASE vis.root # None -> vis.root
    [] vis = EmptyWrite -> server
    [] vis.root = None /\ vis # EmptyWrite /\ server = None -> None
    [] OTHER -> ApplyToNode(vis, server)

\* calculateCompleteEventChildrenAtPath: the same for the children at hand.
CompleteEventChildren(vis, server) == ApplyToNode(vis, server)

=============================================================================

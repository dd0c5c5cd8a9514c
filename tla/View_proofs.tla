------------------------------ MODULE View_proofs ------------------------------
(***************************************************************************)
(* The tree of pending writes is always their layering, whichever of them  *)
(* is taken out first, and a view that follows it shows the server's data  *)
(* with the pending writes on top.  About the operators alone: what the    *)
(* client does with them is in Client_proofs.                              *)
(***************************************************************************)
EXTENDS View, FiniteSetTheorems, WellFoundedInduction, TLAPS

-----------------------------------------------------------------------------
(* Numbers: the least of a set and the greatest of an interval's subset.   *)

LEMMA Least ==
  ASSUME NEW T, T \subseteq Nat, T # {}
  PROVE  \E x \in T : \A y \in T : x <= y
<1>1. OpToRel(<, Nat) = {ss \in Nat \X Nat : ss[1] < ss[2]}
  BY DEF OpToRel
<1>2. IsWellFoundedOn(OpToRel(<, Nat), Nat)
  BY NatLessThanWellFounded
<1> DEFINE Below == {ss \in Nat \X Nat : ss[1] < ss[2]}
<1>3. IsWellFoundedOn(Below, Nat)
  BY <1>1, <1>2
<1> HIDE DEF Below
<1>4. PICK x \in T : \A y \in T : ~(<<y, x>> \in Below)
  BY <1>3, WFMin
<1>5. \A y \in T : x <= y
  <2> SUFFICES ASSUME NEW y \in T PROVE x <= y
    OBVIOUS
  <2>1. x \in Nat /\ y \in Nat
    OBVIOUS
  <2>2. <<y, x>> \notin Below
    BY <1>4
  <2>3. ~(y < x)
    BY <2>1, <2>2 DEF Below
  <2>4. QED BY <2>1, <2>3
<1>6. QED BY <1>5

LEMMA Greatest ==
  ASSUME NEW n \in Nat, NEW s \in SUBSET (1 .. n), s # {}
  PROVE  Max(s) \in s /\ \A y \in s : Max(s) >= y
<1> DEFINE T == {m \in Nat : \A y \in s : m >= y}
<1>1. T \subseteq Nat /\ n \in T
  OBVIOUS
<1>2. PICK t \in T : \A u \in T : t <= u
  <2> HIDE DEF T
  <2>1. QED BY <1>1, Least
<1>3. t \in s
  <2> SUFFICES ASSUME t \notin s PROVE FALSE
    OBVIOUS
  <2>1. PICK y \in s : TRUE
    OBVIOUS
  <2>2. t \in Nat /\ t >= 1 /\ \A z \in s : t > z
    BY <1>2
  <2>3. t - 1 \in T
    BY <2>2
  <2>4. QED BY <1>2, <2>2, <2>3
<1>4. QED BY <1>2, <1>3 DEF Max

LEMMA WithoutGreatest ==
  ASSUME NEW n \in Nat, NEW s \in SUBSET (1 .. n), s # {}
  PROVE  s \ {Max(s)} \in SUBSET (1 .. n - 1)
<1>1. Max(s) \in s /\ \A y \in s : Max(s) >= y
  BY Greatest
<1>2. ASSUME NEW y \in s, y # Max(s) PROVE y \in 1 .. n - 1
  <2>1. y \in 1 .. n /\ Max(s) \in 1 .. n /\ y <= Max(s)
    BY <1>1
  <2>2. y < Max(s)
    BY <1>2, <2>1
  <2>3. QED BY <2>1, <2>2
<1>3. QED BY <1>1, <1>2

LEMMA GreatestOfFirst ==
  ASSUME NEW n \in Nat, NEW i \in 1 .. n
  PROVE  /\ 1 .. i \in SUBSET (1 .. n) /\ 1 .. i # {}
         /\ Max(1 .. i) = i /\ (1 .. i) \ {i} = 1 .. i - 1
<1>1. 1 .. i \in SUBSET (1 .. n) /\ 1 .. i # {}
  <2>1. 1 \in 1 .. i /\ \A j \in 1 .. i : j \in 1 .. n
    OBVIOUS
  <2>2. QED BY <2>1
<1>2. (1 .. i) \ {i} = 1 .. i - 1
  OBVIOUS
<1>3. Max(1 .. i) \in 1 .. i /\ \A y \in 1 .. i : Max(1 .. i) >= y
  BY <1>1, Greatest
<1>4. i \in 1 .. i
  OBVIOUS
<1>5. QED BY <1>1, <1>2, <1>3, <1>4

\* What holds of 0 and passes on from each number to the next, stated for the
\* set of those up to n for which it fails.
LEMMA NoneFails ==
  ASSUME NEW n \in Nat, NEW T, T \subseteq 0 .. n, 0 \notin T,
         \A i \in 1 .. n : i - 1 \notin T => i \notin T
  PROVE  T = {}
<1>1. SUFFICES ASSUME T # {} PROVE FALSE
  OBVIOUS
<1>2. PICK i \in T : \A j \in T : i <= j
  <2>1. T \subseteq Nat
    OBVIOUS
  <2>2. QED BY <1>1, <2>1, Least
<1>3. i \in 0 .. n /\ i # 0
  OBVIOUS
<1>4. i \in 1 .. n /\ i - 1 < i
  BY <1>3
<1>5. i - 1 \in T
  BY <1>4
<1>6. i - 1 \in Nat /\ i <= i - 1
  BY <1>2, <1>4, <1>5
<1>7. QED BY <1>4, <1>6

-----------------------------------------------------------------------------
(* Layering, one write after the other.                                    *)

Unrolls(h, b, all, n) ==
  h = [s \in SUBSET (1 .. n) |->
         IF s = {} THEN b ELSE AddWrite(h[s \ {Max(s)}], all[Max(s)])]

LEMMA UnrollsFor ==
  ASSUME NEW b, NEW all PROVE \A n \in Nat : \E h : Unrolls(h, b, all, n)
<1> DEFINE T == {n \in Nat : ~ \E h : Unrolls(h, b, all, n)}
<1>1. SUFFICES ASSUME T # {} PROVE FALSE
  OBVIOUS
<1>2. PICK n \in T : \A m \in T : n <= m
  BY <1>1, Least
<1>3. n # 0
  <2> DEFINE h == [s \in SUBSET (1 .. 0) |-> b]
  <2>1. Unrolls(h, b, all, 0)
    BY DEF Unrolls
  <2>2. QED BY <2>1
<1>4. n - 1 \in Nat /\ n - 1 \notin T
  BY <1>2, <1>3
<1>5. PICK h : Unrolls(h, b, all, n - 1)
  BY <1>4
<1> DEFINE g == [s \in SUBSET (1 .. n) |->
                   IF s = {} THEN b ELSE AddWrite(h[s \ {Max(s)}], all[Max(s)])]
<1>6. ASSUME NEW s \in SUBSET (1 .. n), s # {} PROVE s \ {Max(s)} \in SUBSET (1 .. n - 1)
  BY <1>6, WithoutGreatest
<1>7. \A s \in SUBSET (1 .. n - 1) : h[s] = g[s]
  <2>1. \A s \in SUBSET (1 .. n - 1) : s \in SUBSET (1 .. n)
    BY <1>4
  <2>2. QED BY <1>5, <2>1 DEF Unrolls
<1>8. \A s \in SUBSET (1 .. n) : s # {} => g[s \ {Max(s)}] = h[s \ {Max(s)}]
  BY <1>6, <1>7
<1>9. Unrolls(g, b, all, n)
  BY <1>8 DEF Unrolls
<1>10. QED BY <1>9

\* g[i] is the layering of the first i writes.
Layering(g, all, n) ==
  g[0] = EmptyWrite /\ \A i \in 1 .. n : g[i] = AddWrite(g[i - 1], all[i])

LEMMA LayerTreeSteps ==
  ASSUME NEW all, NEW n \in Nat, DOMAIN all = 1 .. n
  PROVE  \E g : Layering(g, all, n) /\ LayerTree(all) = g[n]
<1>1. PICK f : Unrolls(f, EmptyWrite, all, n)
  BY UnrollsFor
<1>2. f = [s \in SUBSET DOMAIN all |->
             IF s = {} THEN EmptyWrite ELSE AddWrite(f[s \ {Max(s)}], all[Max(s)])]
  BY <1>1 DEF Unrolls
<1>3. PICK h : /\ h = [s \in SUBSET DOMAIN all |->
                       IF s = {} THEN EmptyWrite ELSE AddWrite(h[s \ {Max(s)}], all[Max(s)])]
               /\ LayerTree(all) = h[DOMAIN all]
  BY <1>2 DEF LayerTree, FoldLeft, MapThenFoldSet
<1>4. Unrolls(h, EmptyWrite, all, n) /\ LayerTree(all) = h[1 .. n]
  BY <1>3 DEF Unrolls
<1> DEFINE g == [i \in 0 .. n |-> h[1 .. i]]
<1>5. g[0] = EmptyWrite
  <2>1. 1 .. 0 = {} /\ 0 \in 0 .. n
    OBVIOUS
  <2>2. h[{}] = EmptyWrite
    BY <1>4 DEF Unrolls
  <2>3. QED BY <2>1, <2>2
<1>6. ASSUME NEW i \in 1 .. n PROVE g[i] = AddWrite(g[i - 1], all[i])
  <2>1. 1 .. i \in SUBSET (1 .. n) /\ 1 .. i # {} /\ Max(1 .. i) = i /\ (1 .. i) \ {i} = 1 .. i - 1
    BY GreatestOfFirst
  <2>2. h[1 .. i] = AddWrite(h[1 .. i - 1], all[i])
    BY <1>4, <2>1 DEF Unrolls
  <2>3. i \in 0 .. n /\ i - 1 \in 0 .. n
    OBVIOUS
  <2>4. QED BY <2>2, <2>3
<1>7. LayerTree(all) = g[n]
  BY <1>4
<1> HIDE DEF g
<1>8. Layering(g, all, n)
  BY <1>5, <1>6 DEF Layering
<1>9. QED BY <1>7, <1>8

\* A compound write; one with a root has nothing below it.
Tree == {cw \in [root: Node \cup {None}, kids: [Key -> Value \cup {None}]] :
           cw.root # None => cw.kids = EmptyWrite.kids}

RootSet(w) == IsOverwrite(w) /\ w.at = Top

\* The children that a write which is not at the root gives.
Given(w) == IF w.op = "merge" THEN w.data ELSE [k \in {w.at} |-> w.data]

LEMMA WriteKinds ==
  ASSUME NEW w \in WriteRecord
  PROVE  /\ RootSet(w) => w.data \in Node
         /\ ~RootSet(w) => /\ DOMAIN Given(w) \subseteq Key
                           /\ \A k \in DOMAIN Given(w) : Given(w)[k] \in Value
         /\ w.at \in Key => w.op = "set" /\ DOMAIN Given(w) = {w.at} /\ w.data \in Value
         /\ w.at \in Key \/ w.at = Top
         /\ w.op = "merge" => w.at = Top /\ Given(w) = w.data
         /\ w.op \in {"set", "merge"}
<1>1. CASE w \in [op: {"set"}, at: {Top}, data: Node]
  BY <1>1, PathAssumption DEF RootSet, Given, IsOverwrite
<1>2. CASE w \in [op: {"set"}, at: Key, data: Value]
  BY <1>2, PathAssumption DEF RootSet, Given, IsOverwrite
<1>3. CASE w \in [op: {"merge"}, at: {Top}, data: UNION {[K -> Value] : K \in SUBSET Key}]
  <2>1. w.op = "merge" /\ w.at = Top
    BY <1>3
  <2>2. PICK K \in SUBSET Key : w.data \in [K -> Value]
    BY <1>3
  <2>3. QED BY <2>1, <2>2, PathAssumption DEF RootSet, Given, IsOverwrite
<1>4. QED BY <1>1, <1>2, <1>3 DEF WriteRecord

LEMMA NoRoot == EmptyWrite \in Tree /\ EmptyWrite.root = None /\ \A k \in Key : EmptyWrite.kids[k] = None
BY DEF EmptyWrite, Tree

\* What a write makes of a tree: it takes its place, or changes its root, or
\* what is below.
LEMMA AddedAtRoot ==
  ASSUME NEW cw, NEW w, RootSet(w)
  PROVE  AddWrite(cw, w).root = w.data /\ AddWrite(cw, w).kids = EmptyWrite.kids
BY DEF AddWrite, RootSet, IsOverwrite, EmptyWrite

LEMMA AddedBelow ==
  ASSUME NEW cw \in Tree, NEW w, ~RootSet(w)
  PROVE  /\ cw.root # None => /\ AddWrite(cw, w).root = Layered(cw.root, Given(w))
                              /\ AddWrite(cw, w).kids = cw.kids
         /\ cw.root = None => /\ AddWrite(cw, w).root = None
                              /\ AddWrite(cw, w).kids = Layered(cw.kids, Given(w))
BY DEF AddWrite, RootSet, IsOverwrite, Given, Tree

LEMMA LayeredIsNode ==
  ASSUME NEW n \in Node, NEW d, \A k \in DOMAIN d : d[k] \in Value
  PROVE  Layered(n, d) \in Node
BY DEF Layered, Node

LEMMA NodeIsNotNone == ASSUME NEW n \in Node PROVE n # None
BY PathAssumption

LEMMA TreeIs ==
  ASSUME NEW cw \in Tree, NEW u \in Tree, cw.root = u.root, cw.kids = u.kids PROVE cw = u
BY DEF Tree

LEMMA AddedIsTree ==
  ASSUME NEW cw \in Tree, NEW w \in WriteRecord PROVE AddWrite(cw, w) \in Tree
<1>1. CASE RootSet(w)
  <2>1. w.data \in Node
    BY <1>1, WriteKinds
  <2>2. AddWrite(cw, w) = [EmptyWrite EXCEPT !.root = w.data]
    BY <1>1 DEF RootSet, AddWrite
  <2>3. QED BY <2>1, <2>2 DEF Tree, EmptyWrite
<1>2. CASE ~RootSet(w) /\ cw.root # None
  <2>1. AddWrite(cw, w) = [cw EXCEPT !.root = Layered(cw.root, Given(w))]
    BY <1>2 DEF RootSet, AddWrite, Given
  <2>2. Layered(cw.root, Given(w)) \in Node
    BY <1>2, WriteKinds, LayeredIsNode DEF Tree
  <2>3. QED BY <1>2, <2>1, <2>2 DEF Tree
<1>3. CASE ~RootSet(w) /\ cw.root = None
  <2>1. AddWrite(cw, w) = [cw EXCEPT !.kids = Layered(cw.kids, Given(w))]
    BY <1>3 DEF RootSet, AddWrite, Given
  <2>2. Layered(cw.kids, Given(w)) \in [Key -> Value \cup {None}]
    BY <1>3, WriteKinds DEF Layered, Tree
  <2>3. QED BY <1>3, <2>1, <2>2 DEF Tree
<1>4. QED BY <1>1, <1>2, <1>3

\* Every intermediate result is a tree.
LEMMA LayeringIsTree ==
  ASSUME NEW all, NEW n \in Nat, \A i \in 1 .. n : all[i] \in WriteRecord,
         NEW g, Layering(g, all, n)
  PROVE  \A i \in 0 .. n : g[i] \in Tree
<1> DEFINE T == {i \in 0 .. n : g[i] \notin Tree}
<1>1. T \subseteq 0 .. n /\ 0 \notin T
  BY NoRoot DEF Layering
<1>2. ASSUME NEW i \in 1 .. n, i - 1 \notin T PROVE i \notin T
  <2>1. i - 1 \in 0 .. n
    OBVIOUS
  <2>2. g[i] = AddWrite(g[i - 1], all[i])
    BY DEF Layering
  <2>3. QED BY <1>2, <2>1, <2>2, AddedIsTree
<1>3. T = {}
  <2> HIDE DEF T
  <2>1. QED BY <1>1, <1>2, NoneFails
<1>4. QED BY <1>3

LEMMA LayerTreeIsTree ==
  ASSUME NEW all, NEW n \in Nat, DOMAIN all = 1 .. n, \A i \in 1 .. n : all[i] \in WriteRecord
  PROVE  LayerTree(all) \in Tree
<1>1. PICK g : Layering(g, all, n) /\ LayerTree(all) = g[n]
  BY LayerTreeSteps
<1>2. n \in 0 .. n
  OBVIOUS
<1>3. g[n] \in Tree
  BY <1>1, <1>2, LayeringIsTree
<1>4. QED BY <1>1, <1>3

LEMMA NothingLayered == LayerTree(<<>>) = EmptyWrite
<1>1. DOMAIN <<>> = 1 .. 0
  OBVIOUS
<1>2. PICK g : Layering(g, <<>>, 0) /\ LayerTree(<<>>) = g[0]
  BY <1>1, LayerTreeSteps
<1>3. QED BY <1>2 DEF Layering

\* Two layerings of the same writes are the same.
LEMMA LayeringIsOne ==
  ASSUME NEW n \in Nat, NEW all, NEW more, NEW g, NEW h, Layering(g, all, n), Layering(h, more, n),
         \A i \in 1 .. n : more[i] = all[i]
  PROVE  g[n] = h[n]
<1> DEFINE T == {i \in 0 .. n : g[i] # h[i]}
<1>1. T \subseteq 0 .. n /\ 0 \notin T
  BY DEF Layering
<1>2. ASSUME NEW i \in 1 .. n, i - 1 \notin T PROVE i \notin T
  <2>1. i - 1 \in 0 .. n
    OBVIOUS
  <2>2. g[i] = AddWrite(g[i - 1], all[i]) /\ h[i] = AddWrite(h[i - 1], all[i])
    BY DEF Layering
  <2>3. QED BY <1>2, <2>1, <2>2
<1>3. T = {}
  <2> HIDE DEF T
  <2>1. QED BY <1>1, <1>2, NoneFails
<1>4. n \in 0 .. n
  OBVIOUS
<1>5. QED BY <1>3, <1>4

\* addOverwriteAtPath and addMergeAtPath: the tree is kept up to date.
LEMMA LayerTreeAppended ==
  ASSUME NEW all, NEW n \in Nat, DOMAIN all = 1 .. n, NEW w,
         NEW more, DOMAIN more = 1 .. n + 1, more[n + 1] = w,
         \A i \in 1 .. n : more[i] = all[i]
  PROVE  LayerTree(more) = AddWrite(LayerTree(all), w)
<1>1. PICK g : Layering(g, all, n) /\ LayerTree(all) = g[n]
  BY LayerTreeSteps
<1>2. n + 1 \in Nat
  OBVIOUS
<1>3. PICK h : Layering(h, more, n + 1) /\ LayerTree(more) = h[n + 1]
  BY <1>2, LayerTreeSteps
<1>4. Layering(h, more, n)
  <2>1. \A i \in 1 .. n : i \in 1 .. n + 1
    OBVIOUS
  <2>2. QED BY <1>3, <2>1 DEF Layering
<1>5. g[n] = h[n]
  BY <1>1, <1>4, LayeringIsOne
<1>6. n + 1 \in 1 .. n + 1 /\ n + 1 - 1 = n
  OBVIOUS
<1>7. h[n + 1] = AddWrite(h[n], w)
  BY <1>3, <1>6 DEF Layering
<1>8. QED BY <1>1, <1>3, <1>5, <1>7

-----------------------------------------------------------------------------
(* The first write is taken out.                                           *)

\* Trees that differ at most at k, and one write after the other on both.
Near(g, h, k) ==
  /\ g.root = None <=> h.root = None
  /\ \A j \in Key \ {k} : g.kids[j] = h.kids[j] /\ (g.root # None => g.root[j] = h.root[j])

LEMMA NearBoth ==
  ASSUME NEW g \in Tree, NEW h \in Tree, NEW k \in Key, Near(g, h, k), NEW w \in WriteRecord
  PROVE  /\ Near(AddWrite(g, w), AddWrite(h, w), k)
         /\ RecordContains(w, k) => AddWrite(g, w) = AddWrite(h, w)
<1> DEFINE a == AddWrite(g, w)
           b == AddWrite(h, w)
<1>1. a \in Tree /\ b \in Tree
  BY AddedIsTree
<1>2. CASE RootSet(w)
  <2>1. a.root = w.data /\ b.root = w.data /\ a.kids = EmptyWrite.kids /\ b.kids = EmptyWrite.kids
    BY <1>2, AddedAtRoot
  <2> HIDE DEF a, b
  <2>2. a = b
    BY <1>1, <2>1, TreeIs
  <2>3. QED BY <2>1, <2>2 DEF a, b, Near
<1>3. CASE ~RootSet(w)
  <2>1. RecordContains(w, k) => k \in DOMAIN Given(w)
    BY <1>3, WriteKinds, PathAssumption DEF RecordContains, Covers, RootSet, IsOverwrite, Given
  <2>2. CASE g.root # None
    <3>1. /\ a.root = Layered(g.root, Given(w)) /\ b.root = Layered(h.root, Given(w))
          /\ a.kids = g.kids /\ b.kids = h.kids /\ h.root # None
      BY <1>3, <2>2, AddedBelow DEF Near
    <3>2. g.kids = EmptyWrite.kids /\ h.kids = EmptyWrite.kids /\ g.root \in Node /\ h.root \in Node
      BY <2>2, <3>1 DEF Tree
    <3>3. a.root \in Node /\ b.root \in Node
      BY <1>3, <3>1, <3>2, WriteKinds, LayeredIsNode
    <3>4. a.root # None /\ b.root # None
      BY <3>3, NodeIsNotNone
    <3> HIDE DEF a, b
    <3>5. \A j \in Key \ {k} : a.root[j] = b.root[j]
      BY <2>2, <3>1 DEF Near, Layered
    <3>6. Near(a, b, k)
      BY <3>1, <3>2, <3>4, <3>5 DEF Near
    <3>7. ASSUME RecordContains(w, k) PROVE a = b
      <4>1. a.root = b.root
        BY <2>1, <2>2, <3>1, <3>7 DEF Near, Layered
      <4>2. QED BY <1>1, <3>1, <3>2, <4>1, TreeIs
    <3>8. QED BY <3>6, <3>7 DEF a, b
  <2>3. CASE g.root = None
    <3>1. /\ a.root = None /\ b.root = None /\ h.root = None
          /\ a.kids = Layered(g.kids, Given(w)) /\ b.kids = Layered(h.kids, Given(w))
      BY <1>3, <2>3, AddedBelow DEF Near
    <3> HIDE DEF a, b
    <3>2. Near(a, b, k)
      BY <3>1 DEF Near, Layered
    <3>3. ASSUME RecordContains(w, k) PROVE a = b
      <4>1. a.kids = b.kids
        BY <2>1, <3>1, <3>3 DEF Near, Layered
      <4>2. QED BY <1>1, <3>1, <4>1, TreeIs
    <3>4. QED BY <3>2, <3>3 DEF a, b
  <2>4. QED BY <2>2, <2>3
<1>4. QED BY <1>2, <1>3

\* h is what g is without the write w, which is not at the root.
Lacks(h, g, w) ==
  /\ g.root = None /\ h.root = None
  /\ \A k \in Key : k \notin DOMAIN Given(w) \/ h.kids[k] # None => g.kids[k] = h.kids[k]
  /\ w.at \in Key => h.kids[w.at] = None

LEMMA LacksBoth ==
  ASSUME NEW g \in Tree, NEW h \in Tree, NEW w \in WriteRecord, Lacks(h, g, w),
         NEW u \in WriteRecord, ~RootSet(u), w.at \in Key => w.at \notin DOMAIN Given(u)
  PROVE  Lacks(AddWrite(h, u), AddWrite(g, u), w)
<1> DEFINE a == AddWrite(g, u)
           b == AddWrite(h, u)
<1>1. /\ a.root = None /\ b.root = None
      /\ a.kids = Layered(g.kids, Given(u)) /\ b.kids = Layered(h.kids, Given(u))
  BY AddedBelow DEF Lacks
<1> HIDE DEF a, b
<1>2. ASSUME NEW k \in Key, k \notin DOMAIN Given(w) \/ b.kids[k] # None PROVE a.kids[k] = b.kids[k]
  BY <1>1, <1>2 DEF Lacks, Layered
<1>3. w.at \in Key => b.kids[w.at] = None
  BY <1>1 DEF Lacks, Layered
<1>4. Lacks(b, a, w)
  BY <1>1, <1>2, <1>3 DEF Lacks
<1>5. QED BY <1>4 DEF a, b

\* The layerings with and without the first write, side by side: h[i] leaves
\* out the first of the i that g[i] layers.
Beside(g, h, all, n) ==
  /\ g[1] = AddWrite(EmptyWrite, all[1]) /\ h[1] = EmptyWrite
  /\ \A i \in 1 .. n : i # 1 => g[i] = AddWrite(g[i - 1], all[i]) /\ h[i] = AddWrite(h[i - 1], all[i])
  /\ \A i \in 1 .. n : g[i] \in Tree /\ h[i] \in Tree

LEMMA WithoutFirst ==
  ASSUME NEW all, NEW n \in Nat, n # 0, DOMAIN all = 1 .. n, \A i \in 1 .. n : all[i] \in WriteRecord,
         NEW rest, DOMAIN rest = 1 .. n - 1, \A i \in 1 .. n - 1 : rest[i] = all[i + 1]
  PROVE  \E g, h : Beside(g, h, all, n) /\ LayerTree(all) = g[n] /\ LayerTree(rest) = h[n]
<1>1. PICK g : Layering(g, all, n) /\ LayerTree(all) = g[n]
  BY LayerTreeSteps
<1>2. n - 1 \in Nat
  OBVIOUS
<1>3. PICK f : Layering(f, rest, n - 1) /\ LayerTree(rest) = f[n - 1]
  BY <1>2, LayerTreeSteps
<1> DEFINE h == [i \in 1 .. n |-> f[i - 1]]
<1>4. \A i \in 1 .. n - 1 : rest[i] \in WriteRecord
  <2>1. \A i \in 1 .. n - 1 : i + 1 \in 1 .. n
    OBVIOUS
  <2>2. QED BY <2>1
<1>5. \A i \in 0 .. n : g[i] \in Tree
  BY <1>1, LayeringIsTree
<1>6. \A i \in 0 .. n - 1 : f[i] \in Tree
  BY <1>2, <1>3, <1>4, LayeringIsTree
<1>7. 1 \in 1 .. n /\ n \in 1 .. n
  OBVIOUS
<1>8. g[1] = AddWrite(EmptyWrite, all[1]) /\ h[1] = EmptyWrite
  BY <1>1, <1>3, <1>7 DEF Layering
<1>9. ASSUME NEW i \in 1 .. n, i # 1
      PROVE  g[i] = AddWrite(g[i - 1], all[i]) /\ h[i] = AddWrite(h[i - 1], all[i])
  <2>1. i - 1 \in 1 .. n /\ i - 1 \in 1 .. n - 1 /\ (i - 1) + 1 = i
    BY <1>9
  <2>2. f[i - 1] = AddWrite(f[(i - 1) - 1], rest[i - 1])
    BY <1>3, <2>1 DEF Layering
  <2>3. rest[i - 1] = all[i]
    BY <2>1
  <2>4. QED BY <1>1, <2>1, <2>2, <2>3 DEF Layering
<1>10. ASSUME NEW i \in 1 .. n PROVE g[i] \in Tree /\ h[i] \in Tree
  <2>1. i \in 0 .. n /\ i - 1 \in 0 .. n - 1
    OBVIOUS
  <2>2. QED BY <1>5, <1>6, <2>1
<1>11. LayerTree(rest) = h[n]
  BY <1>3, <1>7
<1> HIDE DEF h
<1>12. Beside(g, h, all, n)
  BY <1>8, <1>9, <1>10 DEF Beside
<1>13. QED BY <1>1, <1>11, <1>12

\* rest is all but its first write.
Rest(rest, all, n) ==
  /\ DOMAIN all = 1 .. n /\ Len(all) = n /\ \A i \in 1 .. n : all[i] \in WriteRecord
  /\ DOMAIN rest = 1 .. n - 1 /\ \A i \in 1 .. n - 1 : rest[i] = all[i + 1]

\* A write that a later one covers leaves no trace.
LEMMA ShadowedFirst ==
  ASSUME NEW n \in Nat, n # 0, NEW all, NEW rest, Rest(rest, all, n), Shadowed(all, 1)
  PROVE  LayerTree(rest) = LayerTree(all)
<1> DEFINE w == all[1]
<1>1. PICK g, h : Beside(g, h, all, n) /\ LayerTree(all) = g[n] /\ LayerTree(rest) = h[n]
  BY WithoutFirst DEF Rest
<1>2. PICK j \in 2 .. n : RecordContains(all[j], w.at)
  BY DEF Shadowed, Rest
<1>3. w \in WriteRecord /\ 1 \in 1 .. n
  BY DEF Rest
<1> DEFINE Fine(i) == (w.at \in Key => Near(g[i], h[i], w.at)) /\ (i >= j => g[i] = h[i])
           T == {i \in 1 .. n : ~Fine(i)}
<1>4. Fine(1)
  <2>1. ASSUME w.at \in Key PROVE Near(g[1], h[1], w.at)
    <3>1. ~RootSet(w) /\ DOMAIN Given(w) = {w.at}
      BY <1>3, <2>1, WriteKinds, PathAssumption DEF RootSet
    <3>2. g[1].root = None /\ g[1].kids = Layered(EmptyWrite.kids, Given(w))
      BY <1>1, <3>1, AddedBelow, NoRoot DEF Beside
    <3>3. h[1] = EmptyWrite
      BY <1>1 DEF Beside
    <3>4. QED BY <3>1, <3>2, <3>3, NoRoot DEF Near, Layered
  <2>2. ~(1 >= j)
    OBVIOUS
  <2>3. QED BY <2>1, <2>2
<1>5. ASSUME NEW i \in 1 .. n, i # 1, Fine(i - 1) PROVE Fine(i)
  <2>1. g[i] = AddWrite(g[i - 1], all[i]) /\ h[i] = AddWrite(h[i - 1], all[i])
    BY <1>1, <1>5 DEF Beside
  <2>2. i - 1 \in 1 .. n
    BY <1>5
  <2>3. g[i - 1] \in Tree /\ h[i - 1] \in Tree /\ all[i] \in WriteRecord
    BY <1>1, <2>2 DEF Beside, Rest
  <2>4. g[i] \in Tree /\ h[i] \in Tree
    BY <1>1 DEF Beside
  <2>5. w.at \in Key => Near(g[i], h[i], w.at)
    BY <1>5, <2>1, <2>3, NearBoth
  <2>6. CASE i > j
    <3>1. i - 1 >= j
      BY <2>6
    <3>2. QED BY <1>5, <2>1, <2>5, <3>1
  <2>7. CASE i = j /\ w.at \in Key
    BY <1>2, <1>5, <2>1, <2>3, <2>5, <2>7, NearBoth
  <2>8. CASE i = j /\ w.at \notin Key
    <3>1. w.at = Top
      BY <1>3, <2>8, WriteKinds
    <3>2. RootSet(all[i])
      <4>1. RecordContains(all[i], Top)
        BY <1>2, <2>8, <3>1
      <4>2. all[i].op = "merge" => DOMAIN all[i].data \subseteq Key
        BY <2>3, WriteKinds DEF RootSet, IsOverwrite
      <4>3. all[i].op \in {"set", "merge"}
        BY <2>3, WriteKinds
      <4>4. QED BY <4>1, <4>2, <4>3, PathAssumption DEF RecordContains, Covers, RootSet, IsOverwrite
    <3>3. g[i].root = h[i].root /\ g[i].kids = h[i].kids
      BY <2>1, <3>2, AddedAtRoot
    <3>4. g[i] = h[i]
      BY <2>4, <3>3, TreeIs
    <3>5. QED BY <2>5, <3>4
  <2>9. CASE i < j
    BY <2>5, <2>9
  <2>10. QED BY <2>6, <2>7, <2>8, <2>9
<1>6. T = {}
  <2> HIDE DEF Fine
  <2>1. T \subseteq 0 .. n /\ 0 \notin T
    OBVIOUS
  <2>2. ASSUME NEW i \in 1 .. n, i - 1 \notin T PROVE i \notin T
    <3>1. CASE i = 1
      BY <1>4, <3>1
    <3>2. CASE i # 1
      <4>1. i - 1 \in 1 .. n
        BY <3>2
      <4>2. QED BY <1>5, <2>2, <3>2, <4>1
    <3>3. QED BY <3>1, <3>2
  <2> HIDE DEF T
  <2>3. QED BY <2>1, <2>2, NoneFails
<1>7. n \in 1 .. n /\ n >= j
  BY <1>2
<1>8. Fine(n)
  <2> HIDE DEF Fine
  <2>1. QED BY <1>6, <1>7
<1>9. QED BY <1>1, <1>7, <1>8

\* Without a later write that covers it, nothing is at the root after it.
LEMMA UnshadowedLater ==
  ASSUME NEW n \in Nat, n # 0, NEW all, NEW rest, Rest(rest, all, n), ~Shadowed(all, 1),
         NEW i \in 1 .. n, i # 1
  PROVE  /\ all[i] \in WriteRecord /\ ~RootSet(all[i])
         /\ all[1].at \in Key => all[1].at \notin DOMAIN Given(all[i])
<1>1. i \in 2 .. n /\ Len(all) = n /\ all[i] \in WriteRecord
  BY DEF Rest
<1>2. ~RecordContains(all[i], all[1].at)
  BY <1>1 DEF Shadowed
<1>3. all[1] \in WriteRecord
  <2>1. 1 \in 1 .. n
    OBVIOUS
  <2>2. QED BY <2>1 DEF Rest
<1>4. ~RootSet(all[i])
  BY <1>2 DEF RecordContains, RootSet, Covers
<1>5. ASSUME all[1].at \in Key, all[1].at \in DOMAIN Given(all[i]) PROVE FALSE
  <2>1. CASE all[i].op = "merge"
    BY <1>2, <1>5, <2>1 DEF RecordContains, IsOverwrite, Covers, Given
  <2>2. CASE all[i].op # "merge"
    BY <1>1, <1>2, <1>5, <2>2, WriteKinds DEF RecordContains, IsOverwrite, Covers, Given
  <2>3. QED BY <2>1, <2>2
<1>6. QED BY <1>1, <1>4, <1>5

LEMMA UnshadowedFirst ==
  ASSUME NEW n \in Nat, n # 0, NEW all, NEW rest, Rest(rest, all, n), ~Shadowed(all, 1)
  PROVE  /\ LayerTree(rest).root = None
         /\ ~RootSet(all[1]) => Lacks(LayerTree(rest), LayerTree(all), all[1])
<1> DEFINE w == all[1]
<1>1. PICK g, h : Beside(g, h, all, n) /\ LayerTree(all) = g[n] /\ LayerTree(rest) = h[n]
  BY WithoutFirst DEF Rest
<1>2. w \in WriteRecord /\ 1 \in 1 .. n
  BY DEF Rest
<1> DEFINE Fine(i) == h[i].root = None /\ (~RootSet(w) => Lacks(h[i], g[i], w))
           T == {i \in 1 .. n : ~Fine(i)}
<1>3. Fine(1)
  <2>1. h[1] = EmptyWrite /\ g[1] = AddWrite(EmptyWrite, w)
    BY <1>1 DEF Beside
  <2>2. ASSUME ~RootSet(w) PROVE Lacks(h[1], g[1], w)
    <3>1. g[1].root = None /\ g[1].kids = Layered(EmptyWrite.kids, Given(w))
      BY <2>1, <2>2, AddedBelow, NoRoot
    <3>2. QED BY <2>1, <3>1, NoRoot DEF Lacks, Layered
  <2>3. QED BY <2>1, <2>2, NoRoot
<1>4. ASSUME NEW i \in 1 .. n, i # 1, Fine(i - 1) PROVE Fine(i)
  <2>1. g[i] = AddWrite(g[i - 1], all[i]) /\ h[i] = AddWrite(h[i - 1], all[i])
    BY <1>1, <1>4 DEF Beside
  <2>2. i - 1 \in 1 .. n
    BY <1>4
  <2>3. g[i - 1] \in Tree /\ h[i - 1] \in Tree
    BY <1>1, <2>2 DEF Beside
  <2>4. all[i] \in WriteRecord /\ ~RootSet(all[i]) /\ (w.at \in Key => w.at \notin DOMAIN Given(all[i]))
    BY <1>4, UnshadowedLater
  <2>5. h[i].root = None
    BY <1>4, <2>1, <2>3, <2>4, AddedBelow
  <2>6. ~RootSet(w) => Lacks(h[i], g[i], w)
    BY <1>2, <1>4, <2>1, <2>3, <2>4, LacksBoth
  <2>7. QED BY <2>5, <2>6
<1>5. T = {}
  <2> HIDE DEF Fine
  <2>1. T \subseteq 0 .. n /\ 0 \notin T
    OBVIOUS
  <2>2. ASSUME NEW i \in 1 .. n, i - 1 \notin T PROVE i \notin T
    <3>1. CASE i = 1
      BY <1>3, <3>1
    <3>2. CASE i # 1
      <4>1. i - 1 \in 1 .. n
        BY <3>2
      <4>2. QED BY <1>4, <2>2, <3>2, <4>1
    <3>3. QED BY <3>1, <3>2
  <2> HIDE DEF T
  <2>3. QED BY <2>1, <2>2, NoneFails
<1>6. n \in 1 .. n
  OBVIOUS
<1>7. Fine(n)
  <2> HIDE DEF Fine
  <2>1. QED BY <1>5, <1>6
<1>8. QED BY <1>1, <1>7

\* removeWriteId: whatever of the three ways it takes, the tree is the layering
\* of the writes that are left.
LEMMA FirstRemoved ==
  ASSUME NEW n \in Nat, n # 0, NEW all, NEW rest, Rest(rest, all, n), rest = RemoveAt(all, 1)
  PROVE  RemoveWrite(all, LayerTree(all), 1) = LayerTree(rest)
<1> DEFINE w == all[1]
           old == LayerTree(all)
           new == LayerTree(rest)
<1>1. w \in WriteRecord /\ 1 \in 1 .. n
  BY DEF Rest
<1>2. old \in Tree
  BY LayerTreeIsTree DEF Rest
<1>3. new \in Tree
  <2>1. n - 1 \in Nat /\ \A i \in 1 .. n - 1 : i + 1 \in 1 .. n
    OBVIOUS
  <2>2. QED BY <2>1, LayerTreeIsTree DEF Rest
<1>4. CASE Shadowed(all, 1)
  BY <1>4, ShadowedFirst DEF RemoveWrite
<1>5. CASE ~Shadowed(all, 1) /\ Overlaps(all, 1)
  BY <1>5 DEF RemoveWrite
<1>6. CASE ~Shadowed(all, 1) /\ ~Overlaps(all, 1)
  <2>1. RemoveWrite(all, old, 1) = RemoveWritten(old, w)
    BY <1>6 DEF RemoveWrite
  <2>2. CASE w.at = Top
    <3>1. n = 1
      <4>1. ASSUME n # 1 PROVE FALSE
        <5>1. 2 \in DOMAIN all \ {1}
          BY <4>1 DEF Rest
        <5>2. QED BY <1>6, <2>2, <5>1 DEF Overlaps, Covers
      <4>2. QED BY <4>1
    <3>2. old = AddWrite(EmptyWrite, w) /\ new = EmptyWrite
      <4>1. PICK g, h : Beside(g, h, all, n) /\ LayerTree(all) = g[n] /\ LayerTree(rest) = h[n]
        BY WithoutFirst DEF Rest
      <4>2. QED BY <3>1, <4>1 DEF Beside
    <3>3. CASE IsOverwrite(w)
      BY <2>1, <2>2, <3>2, <3>3 DEF RemoveWritten, RemoveWriteAtPath
    <3>4. CASE ~IsOverwrite(w)
      <4>1. ~RootSet(w) /\ Given(w) = w.data
        BY <1>1, <3>4, WriteKinds DEF RootSet, IsOverwrite
      <4>2. old.root = None /\ old.kids = Layered(EmptyWrite.kids, w.data)
        BY <3>2, <4>1, AddedBelow, NoRoot
      <4> HIDE DEF old, new
      <4>3. RemoveWritten(old, w)
              = [old EXCEPT !.kids = [k \in Key |-> IF k \in DOMAIN w.data THEN None ELSE @[k]]]
        BY <3>4 DEF RemoveWritten
      <4>4. [k \in Key |-> IF k \in DOMAIN w.data THEN None ELSE old.kids[k]] = EmptyWrite.kids
        BY <4>2 DEF EmptyWrite, Layered
      <4>5. RemoveWritten(old, w) = [root |-> None, kids |-> EmptyWrite.kids]
        BY <1>2, <4>2, <4>3, <4>4 DEF Tree
      <4>6. QED BY <2>1, <3>2, <4>5 DEF EmptyWrite, old, new
    <3>5. QED BY <3>3, <3>4
  <2>3. CASE w.at \in Key
    <3>1. ~RootSet(w) /\ DOMAIN Given(w) = {w.at} /\ IsOverwrite(w) /\ w.at # Top
      BY <1>1, <2>3, WriteKinds, PathAssumption DEF RootSet, IsOverwrite
    <3>2. Lacks(new, old, w)
      BY <1>6, <3>1, UnshadowedFirst
    <3>3. RemoveWritten(old, w) = [old EXCEPT !.kids[w.at] = None]
      BY <3>1 DEF RemoveWritten, RemoveWriteAtPath
    <3> HIDE DEF old, new
    <3>4. [old.kids EXCEPT ![w.at] = None] = new.kids
      <4>1. old.kids \in [Key -> Value \cup {None}] /\ new.kids \in [Key -> Value \cup {None}]
        BY <1>2, <1>3 DEF Tree
      <4>2. \A k \in Key : [old.kids EXCEPT ![w.at] = None][k] = new.kids[k]
        BY <2>3, <3>1, <3>2, <4>1 DEF Lacks
      <4>3. QED BY <4>1, <4>2
    <3>5. RemoveWritten(old, w) = [root |-> None, kids |-> new.kids]
      BY <1>2, <3>2, <3>3, <3>4 DEF Tree, Lacks
    <3>6. new = [root |-> None, kids |-> new.kids]
      BY <1>3, <3>2 DEF Tree, Lacks
    <3>7. QED BY <2>1, <3>5, <3>6 DEF old, new
  <2>4. QED BY <1>1, <2>2, <2>3, WriteKinds
<1>7. QED BY <1>4, <1>5, <1>6

-----------------------------------------------------------------------------
(* A view shows the server's data with the pending writes on top.          *)

ViewRecord == [on: BOOLEAN, node: Node, full: BOOLEAN, ev: Node, evFull: BOOLEAN]

\* It does so but at the children in K.
ShowsBut(v, vis, K) ==
  /\ v \in ViewRecord
  /\ v.evFull <=> v.full \/ vis.root # None
  /\ \A k \in Key \ K : v.ev[k] = ApplyToNode(vis, v.node)[k]

Shows(v, vis) == ShowsBut(v, vis, {})

\* The same view of the same data, at first sight.
Like(u, v) == u.on = v.on /\ u.full = v.full

\* The same view of the same data, whatever it has told.
Same(u, v) == Like(u, v) /\ u.node = v.node

LEMMA AppliedTo ==
  ASSUME NEW vis \in Tree, NEW n \in Node
  PROVE  /\ ApplyToNode(vis, n) \in Node
         /\ vis.root # None => ApplyToNode(vis, n) = vis.root
         /\ vis.root = None => \A k \in Key :
              ApplyToNode(vis, n)[k] = IF vis.kids[k] # None THEN vis.kids[k] ELSE n[k]
<1>1. CASE vis.root # None
  BY <1>1 DEF ApplyToNode, Tree
<1>2. CASE vis.root = None
  <2>1. ApplyToNode(vis, n) = Layered(n, Written(vis))
    BY <1>2 DEF ApplyToNode
  <2>2. \A k \in DOMAIN Written(vis) : Written(vis)[k] \in Value
    BY DEF Written, Tree
  <2>3. Layered(n, Written(vis)) \in Node
    BY <2>2, LayeredIsNode
  <2>4. \A k \in Key : Layered(n, Written(vis))[k] = IF vis.kids[k] # None THEN vis.kids[k] ELSE n[k]
    BY DEF Layered, Written
  <2>5. QED BY <1>2, <2>1, <2>3, <2>4
<1>3. QED BY <1>1, <1>2

LEMMA Cached ==
  ASSUME NEW vis \in Tree, NEW n \in Node
  PROVE  /\ CompleteEventCache(vis, n) = ApplyToNode(vis, n)
         /\ vis.root = None => CompleteEventCache(vis, None) = None
         /\ vis.root # None => CompleteEventCache(vis, None) = vis.root
<1>1. CASE vis.root # None
  <2>1. vis # EmptyWrite
    BY <1>1, NoRoot
  <2>2. CompleteEventCache(vis, n) = vis.root /\ CompleteEventCache(vis, None) = vis.root
    BY <1>1, <2>1 DEF CompleteEventCache
  <2>3. QED BY <1>1, <2>2 DEF ApplyToNode
<1>2. CASE vis.root = None /\ vis = EmptyWrite
  <2>1. CompleteEventCache(vis, n) = n /\ CompleteEventCache(vis, None) = None
    BY <1>2 DEF CompleteEventCache
  <2>2. \A k \in Key : ApplyToNode(vis, n)[k] = n[k]
    BY <1>2, AppliedTo, NoRoot
  <2>3. ApplyToNode(vis, n) = n
    BY <2>2, AppliedTo DEF Node
  <2>4. QED BY <1>2, <2>1, <2>3
<1>3. CASE vis.root = None /\ vis # EmptyWrite
  <2>1. CompleteEventCache(vis, None) = None
    BY <1>3 DEF CompleteEventCache
  <2>2. n # None
    BY NodeIsNotNone
  <2>3. CompleteEventCache(vis, n) = ApplyToNode(vis, n)
    BY <1>3, <2>2 DEF CompleteEventCache
  <2>4. QED BY <1>3, <2>1, <2>3
<1>4. QED BY <1>1, <1>2, <1>3

\* What Shows says, as the invariant states it.
LEMMA ShowsIs ==
  ASSUME NEW vis \in Tree, NEW v \in ViewRecord
  PROVE  Shows(v, vis) <=>
           /\ v.evFull <=> CompleteEventCache(vis, IF v.full THEN v.node ELSE None) # None
           /\ v.ev = ApplyToNode(vis, v.node)
<1>1. v.node \in Node /\ v.ev \in Node
  BY DEF ViewRecord
<1>2. CompleteEventCache(vis, IF v.full THEN v.node ELSE None) # None <=> v.full \/ vis.root # None
  <2>1. CASE v.full
    BY <1>1, <2>1, Cached, AppliedTo, NodeIsNotNone
  <2>2. CASE ~v.full
    BY <1>1, <2>2, Cached
  <2>3. QED BY <2>1, <2>2
<1>3. v.ev = ApplyToNode(vis, v.node) <=> \A k \in Key : v.ev[k] = ApplyToNode(vis, v.node)[k]
  <2>1. ApplyToNode(vis, v.node) \in Node
    BY <1>1, AppliedTo
  <2>2. QED BY <1>1, <2>1 DEF Node
<1>4. QED BY <1>2, <1>3 DEF Shows, ShowsBut

LEMMA NewViewShows ==
  ASSUME NEW vis \in Tree
  PROVE  /\ Shows(NewView(vis), vis) /\ NewView(vis).on /\ ~NewView(vis).full
         /\ NewView(vis).node = EmptyNode
<1>1. EmptyNode \in Node
  BY PathAssumption DEF EmptyNode, Node
<1> DEFINE cache == CompleteEventCache(vis, None)
           ev == IF cache # None THEN cache ELSE CompleteEventChildren(vis, EmptyNode)
           v == [on |-> TRUE, node |-> EmptyNode, full |-> FALSE, ev |-> ev, evFull |-> cache # None]
<1>2. NewView(vis) = v
  <2>1. NewView(vis) = [NoView EXCEPT !.on = TRUE, !.ev = ev, !.evFull = cache # None]
    BY Zenon DEF NewView
  <2> HIDE DEF ev, cache
  <2>2. QED BY <2>1 DEF NoView
<1>3. ApplyToNode(vis, EmptyNode) \in Node
  BY <1>1, AppliedTo
<1>4. ev = ApplyToNode(vis, EmptyNode) /\ (cache # None <=> vis.root # None)
  <2>1. CASE vis.root # None
    BY <1>1, <2>1, Cached, AppliedTo
  <2>2. CASE vis.root = None
    BY <1>1, <2>2, Cached DEF CompleteEventChildren
  <2>3. QED BY <2>1, <2>2
<1> HIDE DEF ev, cache
<1>5. /\ v.on = TRUE /\ v.node = EmptyNode /\ v.full = FALSE /\ v.ev = ev
      /\ v.evFull = (cache # None)
  OBVIOUS
<1>6. v \in ViewRecord
  BY <1>1, <1>3, <1>4 DEF ViewRecord
<1> HIDE DEF v
<1>7. Shows(v, vis)
  BY <1>4, <1>5, <1>6 DEF Shows, ShowsBut
<1>8. QED BY <1>2, <1>5, <1>7

\* The server's data for one child.
ChildShown(r, v, vis, K, k, d) ==
  ShowsBut(r, vis, K \ {k}) /\ Like(r, v) /\ r.node = [v.node EXCEPT ![k] = d]

LEMMA ChildShows ==
  ASSUME NEW vis \in Tree, NEW v, NEW K, ShowsBut(v, vis, K), NEW k \in Key, NEW d \in Value,
         k \in K => CompleteNode(vis, k) = None
  PROVE  ChildShown(ServerOverwrite(v, vis, k, d), v, vis, K, k, d)
<1> DEFINE n == [v.node EXCEPT ![k] = d]
           u == [v EXCEPT !.node[k] = d]
<1>1. v \in ViewRecord /\ k # Top /\ v.node \in Node /\ v.ev \in Node
  BY PathAssumption DEF ShowsBut, ViewRecord
<1>2. n \in Node /\ n[k] = d /\ \A j \in Key \ {k} : n[j] = v.node[j]
  BY <1>1 DEF Node
<1>3. u \in ViewRecord /\ u.node = n /\ u.ev = v.ev /\ u.full = v.full /\ u.on = v.on /\ u.evFull = v.evFull
  BY <1>1, <1>2 DEF ViewRecord
<1>4. ServerOverwrite(v, vis, k, d) = EventsAt(u, vis, k)
  BY <1>1 DEF ServerOverwrite
<1>5. ApplyToNode(vis, n) \in Node /\ ApplyToNode(vis, v.node) \in Node
  BY <1>1, <1>2, AppliedTo
<1> HIDE DEF n, u
<1>6. \A j \in Key : j # k \/ CompleteNode(vis, k) # None =>
        ApplyToNode(vis, n)[j] = ApplyToNode(vis, v.node)[j]
  <2>1. CASE vis.root # None
    BY <1>1, <1>2, <2>1, AppliedTo
  <2>2. CASE vis.root = None
    <3>1. CompleteNode(vis, k) = vis.kids[k]
      BY <1>1, <2>2 DEF CompleteNode
    <3>2. QED BY <1>1, <1>2, <2>2, <3>1, AppliedTo
  <2>3. QED BY <2>1, <2>2
<1>7. CASE CompleteNode(vis, k) # None
  <2>1. ServerOverwrite(v, vis, k, d) = u
    BY <1>4, <1>7 DEF EventsAt
  <2>2. k \notin K
    BY <1>7
  <2>3. ShowsBut(u, vis, K \ {k})
    BY <1>3, <1>6, <1>7, <2>2 DEF ShowsBut
  <2>4. QED BY <1>3, <2>1, <2>3 DEF Like, n, ChildShown
<1>8. CASE CompleteNode(vis, k) = None
  <2> DEFINE t == [u EXCEPT !.ev[k] = n[k]]
  <2>1. ServerOverwrite(v, vis, k, d) = t
    BY <1>1, <1>3, <1>4, <1>8 DEF EventsAt
  <2>2. /\ t \in ViewRecord /\ t.node = n /\ t.full = v.full /\ t.on = v.on /\ t.evFull = v.evFull
        /\ t.ev[k] = n[k] /\ \A j \in Key \ {k} : t.ev[j] = v.ev[j]
    <3>1. [u.ev EXCEPT ![k] = n[k]] \in Node
      BY <1>1, <1>2, <1>3 DEF Node
    <3>2. t.ev = [u.ev EXCEPT ![k] = n[k]]
      BY <1>3 DEF ViewRecord
    <3>3. t \in ViewRecord /\ t.node = n /\ t.full = v.full /\ t.on = v.on /\ t.evFull = v.evFull
      BY <1>3, <3>1 DEF ViewRecord
    <3>4. QED BY <1>1, <1>3, <3>2, <3>3 DEF Node
  <2> HIDE DEF t
  <2>3. ApplyToNode(vis, n)[k] = n[k]
    <3>1. vis.root = None
      <4>1. ASSUME vis.root # None PROVE FALSE
        <5>1. vis.root[k] \in Value
          BY <4>1 DEF Tree, Node
        <5>2. CompleteNode(vis, k) = vis.root[k]
          BY <1>1, <4>1 DEF CompleteNode
        <5>3. QED BY <1>8, <5>1, <5>2, PathAssumption
      <4>2. QED BY <4>1
    <3>2. vis.kids[k] = None
      BY <1>1, <1>8, <3>1 DEF CompleteNode
    <3>3. QED BY <1>2, <3>1, <3>2, AppliedTo
  <2>4. ShowsBut(t, vis, K \ {k})
    <3>1. \A j \in Key \ (K \ {k}) : t.ev[j] = ApplyToNode(vis, n)[j]
      BY <1>6, <2>2, <2>3 DEF ShowsBut
    <3>2. QED BY <2>2, <3>1 DEF ShowsBut
  <2>5. QED BY <2>1, <2>2, <2>4 DEF Like, n, ChildShown
<1>9. QED BY <1>7, <1>8

\* The server's data for the whole location, and the answer to a listen.
LEMMA RecomputedShows ==
  ASSUME NEW vis \in Tree, NEW u \in ViewRecord, u.full,
         vis.root # None => u.evFull /\ u.ev = vis.root
  PROVE  Shows(EventsAt(u, vis, Top), vis) /\ Same(EventsAt(u, vis, Top), u)
<1>1. u.node \in Node /\ CompleteNode(vis, Top) = vis.root
  BY DEF ViewRecord, CompleteNode
<1>2. CASE vis.root # None
  <2>1. EventsAt(u, vis, Top) = u
    BY <1>1, <1>2 DEF EventsAt
  <2>2. u.ev = ApplyToNode(vis, u.node)
    BY <1>1, <1>2, AppliedTo
  <2>3. QED BY <1>2, <2>1, <2>2 DEF Shows, ShowsBut, Same, Like
<1>3. CASE vis.root = None
  <2> DEFINE ev == CompleteEventCache(vis, u.node)
             t == [u EXCEPT !.ev = ev, !.evFull = TRUE]
  <2>1. EventsAt(u, vis, Top) = t
    BY <1>1, <1>3 DEF EventsAt
  <2>2. ev = ApplyToNode(vis, u.node) /\ ev \in Node
    BY <1>1, Cached, AppliedTo
  <2> HIDE DEF ev
  <2>3. t \in ViewRecord /\ t.node = u.node /\ t.full = u.full /\ t.on = u.on /\ t.ev = ev /\ t.evFull
    BY <2>2 DEF ViewRecord
  <2> HIDE DEF t
  <2>4. QED BY <2>1, <2>2, <2>3 DEF Shows, ShowsBut, Same, Like
<1>4. QED BY <1>2, <1>3

LEMMA RootShows ==
  ASSUME NEW vis \in Tree, NEW v \in ViewRecord, NEW d \in Node,
         vis.root # None => Shows(v, vis)
  PROVE  /\ Shows(ServerOverwrite(v, vis, Top, d), vis)
         /\ ServerOverwrite(v, vis, Top, d).full
         /\ ServerOverwrite(v, vis, Top, d).on = v.on
         /\ ServerOverwrite(v, vis, Top, d).node = d
<1> DEFINE u == [v EXCEPT !.node = d, !.full = TRUE]
<1>1. ServerOverwrite(v, vis, Top, d) = EventsAt(u, vis, Top)
  BY DEF ServerOverwrite
<1>2. u \in ViewRecord /\ u.full /\ u.on = v.on /\ u.node = d /\ u.ev = v.ev /\ u.evFull = v.evFull
  BY DEF ViewRecord
<1> HIDE DEF u
<1>3. vis.root # None => v.evFull /\ v.ev = vis.root
  <2>1. ASSUME vis.root # None PROVE v.evFull /\ v.ev = vis.root
    <3>1. v.node \in Node /\ v.ev = ApplyToNode(vis, v.node)
      BY <2>1, ShowsIs DEF ViewRecord
    <3>2. QED BY <2>1, <3>1, AppliedTo DEF Shows, ShowsBut
  <2>2. QED BY <2>1
<1>4. QED BY <1>1, <1>2, <1>3, RecomputedShows DEF Same, Like

LEMMA ListenCompleteShows ==
  ASSUME NEW vis \in Tree, NEW v, Shows(v, vis)
  PROVE  /\ Shows(ListenComplete(v, vis), vis)
         /\ ListenComplete(v, vis).full /\ ListenComplete(v, vis).on = v.on
         /\ ListenComplete(v, vis).node = v.node
<1> DEFINE u == [v EXCEPT !.full = TRUE]
<1>1. v \in ViewRecord
  BY DEF Shows, ShowsBut
<1>2. u \in ViewRecord /\ u.full /\ u.on = v.on /\ u.node = v.node /\ u.ev = v.ev /\ u.evFull = v.evFull
  BY <1>1 DEF ViewRecord
<1>3. ListenComplete(v, vis) = EventsAt(u, vis, Top)
  BY DEF ListenComplete
<1> HIDE DEF u
<1>4. vis.root # None => v.evFull /\ v.ev = vis.root
  <2>1. ASSUME vis.root # None PROVE v.evFull /\ v.ev = vis.root
    <3>1. v.node \in Node /\ v.ev = ApplyToNode(vis, v.node)
      BY <1>1, <2>1, ShowsIs DEF ViewRecord
    <3>2. QED BY <2>1, <3>1, AppliedTo DEF Shows, ShowsBut
  <2>2. QED BY <2>1
<1>5. QED BY <1>2, <1>3, <1>4, RecomputedShows DEF Same, Like

-----------------------------------------------------------------------------
(* Merges from the server, child by child.                                 *)

LEMMA AllTaken ==
  ASSUME NEW S, IsFiniteSet(S)
  PROVE  \E n \in Nat : /\ SetToSeq(S) \in [1 .. n -> S]
                        /\ \A k \in S : \E i \in 1 .. n : SetToSeq(S)[i] = k
<1> DEFINE n == Cardinality(S)
           f == SetToSeq(S)
<1>1. n \in Nat /\ ExistsBijection(1 .. n, S)
  BY FS_CardinalityType
<1>2. PICK b : b \in Bijection(1 .. n, S)
  BY <1>1 DEF ExistsBijection
<1>3. b \in [1 .. n -> S] /\ IsInjective(b)
  BY <1>2 DEF Bijection, Injection, IsInjective
<1>4. f \in [1 .. n -> S] /\ IsInjective(f)
  BY <1>3 DEF SetToSeq
<1>5. f \in Injection(1 .. n, S)
  BY <1>4 DEF Injection, IsInjective
<1>6. IsFiniteSet(1 .. n) /\ Cardinality(1 .. n) = n
  BY <1>1, FS_Interval
<1>7. f \in Surjection(1 .. n, S)
  BY <1>5, <1>6, FS_Injection
<1>8. \A k \in S : \E i \in 1 .. n : f[i] = k
  BY <1>7 DEF Surjection
<1>9. QED BY <1>1, <1>4, <1>8

\* h[s] is what the pushes for the children keys[i], i in s, make of v.
Pours(h, v, vis, data, keys, n) ==
  h = [s \in SUBSET (1 .. n) |->
         IF s = {} THEN v
         ELSE ServerOverwrite(h[s \ {Max(s)}], vis, keys[Max(s)], data[keys[Max(s)]])]

LEMMA PoursFor ==
  ASSUME NEW v, NEW vis, NEW data, NEW keys
  PROVE  \A n \in Nat : \E h : Pours(h, v, vis, data, keys, n)
<1> DEFINE T == {n \in Nat : ~ \E h : Pours(h, v, vis, data, keys, n)}
<1>1. SUFFICES ASSUME T # {} PROVE FALSE
  OBVIOUS
<1>2. PICK n \in T : \A m \in T : n <= m
  BY <1>1, Least
<1>3. n # 0
  <2> DEFINE h == [s \in SUBSET (1 .. 0) |-> v]
  <2>1. Pours(h, v, vis, data, keys, 0)
    BY DEF Pours
  <2>2. QED BY <2>1
<1>4. n - 1 \in Nat /\ n - 1 \notin T
  BY <1>2, <1>3
<1>5. PICK h : Pours(h, v, vis, data, keys, n - 1)
  BY <1>4
<1> DEFINE g == [s \in SUBSET (1 .. n) |->
                   IF s = {} THEN v
                   ELSE ServerOverwrite(h[s \ {Max(s)}], vis, keys[Max(s)], data[keys[Max(s)]])]
<1>6. ASSUME NEW s \in SUBSET (1 .. n), s # {} PROVE s \ {Max(s)} \in SUBSET (1 .. n - 1)
  BY <1>6, WithoutGreatest
<1>7. \A s \in SUBSET (1 .. n - 1) : h[s] = g[s]
  <2>1. \A s \in SUBSET (1 .. n - 1) : s \in SUBSET (1 .. n)
    BY <1>4
  <2>2. QED BY <1>5, <2>1 DEF Pours
<1>8. \A s \in SUBSET (1 .. n) : s # {} => g[s \ {Max(s)}] = h[s \ {Max(s)}]
  BY <1>6, <1>7
<1>9. Pours(g, v, vis, data, keys, n)
  BY <1>8 DEF Pours
<1>10. QED BY <1>9

Poured(v, vis, data, keys) ==
  FoldLeft(LAMBDA u, k : ServerOverwrite(u, vis, k, data[k]), v, keys)

\* g[i] is what the first i pushes make of v.
Pouring(g, v, vis, data, keys, n) ==
  g[0] = v /\ \A i \in 1 .. n : g[i] = ServerOverwrite(g[i - 1], vis, keys[i], data[keys[i]])

LEMMA PouredSteps ==
  ASSUME NEW v, NEW vis, NEW data, NEW keys, NEW n \in Nat, DOMAIN keys = 1 .. n
  PROVE  \E g : Pouring(g, v, vis, data, keys, n) /\ Poured(v, vis, data, keys) = g[n]
<1>1. PICK f : Pours(f, v, vis, data, keys, n)
  BY PoursFor
<1>2. f = [s \in SUBSET DOMAIN keys |->
             IF s = {} THEN v
             ELSE ServerOverwrite(f[s \ {Max(s)}], vis, keys[Max(s)], data[keys[Max(s)]])]
  BY <1>1 DEF Pours
<1>3. PICK h : /\ h = [s \in SUBSET DOMAIN keys |->
                       IF s = {} THEN v
                       ELSE ServerOverwrite(h[s \ {Max(s)}], vis, keys[Max(s)], data[keys[Max(s)]])]
               /\ Poured(v, vis, data, keys) = h[DOMAIN keys]
  BY <1>2 DEF Poured, FoldLeft, MapThenFoldSet
<1>4. Pours(h, v, vis, data, keys, n) /\ Poured(v, vis, data, keys) = h[1 .. n]
  BY <1>3 DEF Pours
<1> DEFINE g == [i \in 0 .. n |-> h[1 .. i]]
<1>5. g[0] = v
  <2>1. 1 .. 0 = {} /\ 0 \in 0 .. n
    OBVIOUS
  <2>2. h[{}] = v
    BY <1>4 DEF Pours
  <2>3. QED BY <2>1, <2>2
<1>6. ASSUME NEW i \in 1 .. n PROVE g[i] = ServerOverwrite(g[i - 1], vis, keys[i], data[keys[i]])
  <2>1. 1 .. i \in SUBSET (1 .. n) /\ 1 .. i # {} /\ Max(1 .. i) = i /\ (1 .. i) \ {i} = 1 .. i - 1
    BY GreatestOfFirst
  <2>2. h[1 .. i] = ServerOverwrite(h[1 .. i - 1], vis, keys[i], data[keys[i]])
    BY <1>4, <2>1 DEF Pours
  <2>3. i \in 0 .. n /\ i - 1 \in 0 .. n
    OBVIOUS
  <2>4. QED BY <2>2, <2>3
<1>7. Poured(v, vis, data, keys) = g[n]
  BY <1>4
<1> HIDE DEF g
<1>8. Pouring(g, v, vis, data, keys, n)
  BY <1>5, <1>6 DEF Pouring
<1>9. QED BY <1>7, <1>8

LEMMA ShowsLess ==
  ASSUME NEW v, NEW vis, NEW K, NEW L, ShowsBut(v, vis, K), K \cap Key \subseteq L
  PROVE  ShowsBut(v, vis, L)
BY DEF ShowsBut

PouredShown(r, v, vis, S, data) ==
  /\ Shows(r, vis) /\ Like(r, v)
  /\ \A k \in Key : r.node[k] = IF k \in S THEN data[k] ELSE v.node[k]

LEMMA PouredShows ==
  ASSUME NEW vis \in Tree, NEW v, NEW K, ShowsBut(v, vis, K),
         NEW S \in SUBSET Key, K \subseteq S, \A k \in K : CompleteNode(vis, k) = None,
         NEW data, \A k \in S : data[k] \in Value,
         NEW n \in Nat, NEW keys \in [1 .. n -> S], \A k \in S : \E i \in 1 .. n : keys[i] = k
  PROVE  PouredShown(Poured(v, vis, data, keys), v, vis, S, data)
<1>1. PICK g : Pouring(g, v, vis, data, keys, n) /\ Poured(v, vis, data, keys) = g[n]
  BY PouredSteps
<1> DEFINE Left(i) == K \ {keys[j] : j \in 1 .. i}
           Had(i) == {keys[j] : j \in 1 .. i}
           Fine(i) == /\ ShowsBut(g[i], vis, Left(i)) /\ Like(g[i], v)
                      /\ \A k \in Key : g[i].node[k] = IF k \in Had(i) THEN data[k] ELSE v.node[k]
           T == {i \in 0 .. n : ~Fine(i)}
<1>2. Fine(0)
  <2>1. Left(0) = K /\ g[0] = v /\ Had(0) = {}
    BY <1>1 DEF Pouring
  <2>2. QED BY <2>1 DEF Like
<1>3. ASSUME NEW i \in 1 .. n, Fine(i - 1) PROVE Fine(i)
  <2>1. g[i] = ServerOverwrite(g[i - 1], vis, keys[i], data[keys[i]])
    BY <1>1 DEF Pouring
  <2>2. keys[i] \in Key /\ data[keys[i]] \in Value
    OBVIOUS
  <2>3. Left(i - 1) \ {keys[i]} = Left(i)
    <3>1. 1 .. i = (1 .. i - 1) \cup {i}
      OBVIOUS
    <3>2. QED BY <3>1
  <2>4. keys[i] \in Left(i - 1) => CompleteNode(vis, keys[i]) = None
    OBVIOUS
  <2>9. Had(i) = Had(i - 1) \cup {keys[i]}
    <3>1. 1 .. i = (1 .. i - 1) \cup {i}
      OBVIOUS
    <3>2. QED BY <3>1
  <2> HIDE DEF Left, Had
  <2>5. /\ ShowsBut(g[i - 1], vis, Left(i - 1)) /\ Like(g[i - 1], v)
        /\ \A k \in Key : g[i - 1].node[k] = IF k \in Had(i - 1) THEN data[k] ELSE v.node[k]
    BY <1>3
  <2> DEFINE u == g[i - 1]
             q == ServerOverwrite(u, vis, keys[i], data[keys[i]])
  <2>6. /\ ShowsBut(q, vis, Left(i - 1) \ {keys[i]}) /\ Like(q, u)
        /\ q.node = [u.node EXCEPT ![keys[i]] = data[keys[i]]]
    <3> DEFINE k == keys[i]
               d == data[keys[i]]
               L == Left(i - 1)
    <3>1. k \in Key /\ d \in Value /\ (k \in L => CompleteNode(vis, k) = None) /\ ShowsBut(u, vis, L)
      BY <2>2, <2>4, <2>5
    <3> HIDE DEF k, d, L, u
    <3>2. ChildShown(ServerOverwrite(u, vis, k, d), u, vis, L, k, d)
      BY <3>1, ChildShows
    <3>3. q = ServerOverwrite(u, vis, k, d)
      BY DEF k, d
    <3> HIDE DEF q
    <3>4. QED BY <3>2, <3>3 DEF k, d, L, ChildShown
  <2>10. u.node \in Node
    BY <2>5 DEF ShowsBut, ViewRecord
  <2> HIDE DEF q
  <2>7. g[i] = q
    BY <2>1 DEF q
  <2> HIDE DEF u
  <2>11. \A k \in Key : q.node[k] = IF k \in Had(i) THEN data[k] ELSE v.node[k]
    BY <2>2, <2>5, <2>6, <2>9, <2>10 DEF Node, u
  <2>8. QED BY <2>3, <2>5, <2>6, <2>7, <2>11 DEF Like, u
<1>4. T = {}
  <2> HIDE DEF Fine
  <2>1. T \subseteq 0 .. n /\ 0 \notin T
    BY <1>2
  <2>2. ASSUME NEW i \in 1 .. n, i - 1 \notin T PROVE i \notin T
    <3>1. i - 1 \in 0 .. n
      OBVIOUS
    <3>2. QED BY <1>3, <2>2, <3>1
  <2> HIDE DEF T
  <2>3. QED BY <2>1, <2>2, NoneFails
<1>5. Fine(n)
  <2> HIDE DEF Fine
  <2>1. n \in 0 .. n
    OBVIOUS
  <2>2. QED BY <1>4, <2>1
<1>6. Left(n) \cap Key \subseteq {}
  <2>1. ASSUME NEW k \in Left(n) PROVE FALSE
    <3>1. PICK i \in 1 .. n : keys[i] = k
      OBVIOUS
    <3>2. QED BY <3>1
  <2>2. QED BY <2>1
<1>7. Shows(g[n], vis)
  BY <1>5, <1>6, ShowsLess DEF Shows
<1>9. Had(n) = S
  OBVIOUS
<1> HIDE DEF Had, Left
<1>8. QED BY <1>1, <1>5, <1>7, <1>9 DEF PouredShown

LEMMA MergeShows ==
  ASSUME NEW vis \in Tree, NEW v, NEW K, ShowsBut(v, vis, K), v.full \/ K = {},
         NEW data, DOMAIN data \subseteq Key, \A k \in DOMAIN data : data[k] \in Value,
         K \subseteq DOMAIN data, \A k \in K : CompleteNode(vis, k) = None
  PROVE  /\ Shows(ServerMerge(v, vis, data), vis) /\ Like(ServerMerge(v, vis, data), v)
         /\ ServerMerge(v, vis, data).node =
              IF v.node = EmptyNode /\ ~v.full THEN v.node ELSE Layered(v.node, data)
<1>1. CASE v.node = EmptyNode /\ ~v.full
  BY <1>1 DEF ServerMerge, Shows, Like
<1>2. CASE ~(v.node = EmptyNode /\ ~v.full)
  <2> DEFINE S == DOMAIN data
             keys == SetToSeq(S)
  <2>1. ServerMerge(v, vis, data) = Poured(v, vis, data, keys)
    BY <1>2 DEF ServerMerge, Poured
  <2>2. IsFiniteSet(S)
    BY FS_Subset, PathAssumption
  <2>3. PICK n \in Nat : keys \in [1 .. n -> S] /\ \A k \in S : \E i \in 1 .. n : keys[i] = k
    BY <2>2, AllTaken
  <2> HIDE DEF keys
  <2> DEFINE q == Poured(v, vis, data, keys)
  <2>4. /\ Shows(q, vis) /\ Like(q, v)
        /\ \A k \in Key : q.node[k] = IF k \in S THEN data[k] ELSE v.node[k]
    <3>1. S \in SUBSET Key
      OBVIOUS
    <3> HIDE DEF S
    <3>2. PouredShown(Poured(v, vis, data, keys), v, vis, S, data)
      <4>1. K \subseteq S /\ \A k \in S : data[k] \in Value
        BY DEF S
      <4>2. QED BY <2>3, <3>1, <4>1, PouredShows
    <3>3. QED BY <3>2 DEF PouredShown
  <2> HIDE DEF q
  <2>6. q.node = Layered(v.node, data)
    BY <2>4 DEF Layered, Shows, ShowsBut, ViewRecord, Node
  <2>5. QED BY <1>2, <2>1, <2>4, <2>6 DEF q
<1>3. QED BY <1>1, <1>2

-----------------------------------------------------------------------------
(* The user's writes and their answers.                                    *)

LEMMA UserWriteShows ==
  ASSUME NEW vis \in Tree, NEW v, Shows(v, vis), NEW w \in WriteRecord
  PROVE  Shows(UserWrite(v, w), AddWrite(vis, w)) /\ Same(UserWrite(v, w), v)
<1> DEFINE u == UserWrite(v, w)
           new == AddWrite(vis, w)
<1>1. v \in ViewRecord /\ v.node \in Node /\ v.ev \in Node /\ new \in Tree
  BY AddedIsTree DEF Shows, ShowsBut, ViewRecord
<1>2. CASE RootSet(w)
  <2>1. u = [v EXCEPT !.ev = w.data, !.evFull = TRUE] /\ w.data \in Node
    BY <1>2, WriteKinds DEF UserWrite, RootSet
  <2>2. u \in ViewRecord /\ u.ev = w.data /\ u.evFull /\ u.node = v.node /\ Like(u, v)
    BY <1>1, <2>1 DEF ViewRecord, Like
  <2>3. new.root = w.data /\ new.root # None
    BY <1>2, <2>1, AddedAtRoot, NodeIsNotNone
  <2> HIDE DEF u, new
  <2>4. ApplyToNode(new, u.node) = w.data
    BY <1>1, <2>2, <2>3, AppliedTo
  <2>5. QED BY <2>2, <2>3, <2>4 DEF Shows, ShowsBut, Same, u, new
<1>3. CASE ~RootSet(w)
  <2>1. u = [v EXCEPT !.ev = Layered(v.ev, Given(w))]
    <3>1. CASE w.op = "merge"
      BY <1>3, <3>1 DEF UserWrite, IsOverwrite, Given
    <3>2. CASE w.op # "merge"
      <4>1. IsOverwrite(w) /\ w.at # Top /\ w.at \in Key
        BY <1>3, <3>2, WriteKinds DEF IsOverwrite, RootSet
      <4>2. u = [v EXCEPT !.ev[w.at] = w.data]
        BY <4>1 DEF UserWrite
      <4>3. [v.ev EXCEPT ![w.at] = w.data] = Layered(v.ev, Given(w))
        BY <1>1, <3>2, <4>1 DEF Layered, Given, Node
      <4>4. QED BY <4>2, <4>3
    <3>3. QED BY <3>1, <3>2
  <2>2. DOMAIN Given(w) \subseteq Key /\ \A k \in DOMAIN Given(w) : Given(w)[k] \in Value
    BY <1>3, WriteKinds
  <2>3. Layered(v.ev, Given(w)) \in Node
    BY <1>1, <2>2, LayeredIsNode
  <2>4. u \in ViewRecord /\ u.ev = Layered(v.ev, Given(w)) /\ u.evFull = v.evFull /\ u.node = v.node /\ Like(u, v)
    BY <1>1, <2>1, <2>3 DEF ViewRecord, Like
  <2>5. /\ vis.root # None => new.root = Layered(vis.root, Given(w))
        /\ vis.root = None => new.root = None /\ new.kids = Layered(vis.kids, Given(w))
    BY <1>3, AddedBelow
  <2>6. vis.root # None => new.root # None
    <3>1. ASSUME vis.root # None PROVE Layered(vis.root, Given(w)) \in Node
      BY <2>2, <3>1, LayeredIsNode DEF Tree
    <3>2. QED BY <2>5, <3>1, NodeIsNotNone
  <2> HIDE DEF u, new
  <2>7. ASSUME NEW k \in Key PROVE u.ev[k] = ApplyToNode(new, u.node)[k]
    <3>1. v.ev[k] = ApplyToNode(vis, v.node)[k]
      BY DEF Shows, ShowsBut
    <3>2. u.ev[k] = IF k \in DOMAIN Given(w) THEN Given(w)[k] ELSE v.ev[k]
      BY <2>4 DEF Layered
    <3>3. CASE vis.root # None
      <4>1. v.ev[k] = vis.root[k]
        BY <1>1, <3>1, <3>3, AppliedTo
      <4>2. ApplyToNode(new, u.node) = new.root
        BY <1>1, <2>4, <2>6, <3>3, AppliedTo
      <4>3. new.root[k] = IF k \in DOMAIN Given(w) THEN Given(w)[k] ELSE vis.root[k]
        BY <2>5, <3>3 DEF Layered
      <4>4. QED BY <3>2, <4>1, <4>2, <4>3
    <3>4. CASE vis.root = None
      <4>1. v.ev[k] = IF vis.kids[k] # None THEN vis.kids[k] ELSE v.node[k]
        BY <1>1, <3>1, <3>4, AppliedTo
      <4>2. ApplyToNode(new, u.node)[k] = IF new.kids[k] # None THEN new.kids[k] ELSE v.node[k]
        BY <1>1, <2>4, <2>5, <3>4, AppliedTo
      <4>3. new.kids[k] = IF k \in DOMAIN Given(w) THEN Given(w)[k] ELSE vis.kids[k]
        BY <2>5, <3>4 DEF Layered
      <4>4. k \in DOMAIN Given(w) => Given(w)[k] # None
        BY <2>2, PathAssumption
      <4>5. QED BY <3>2, <4>1, <4>2, <4>3, <4>4
    <3>5. QED BY <3>3, <3>4
  <2>8. u.evFull <=> u.full \/ new.root # None
    BY <2>4, <2>5, <2>6 DEF Shows, ShowsBut, Like
  <2>9. QED BY <2>4, <2>7, <2>8 DEF Shows, ShowsBut, Same, u, new
<1>4. QED BY <1>2, <1>3

\* The first write gone, only what it wrote may be shown wrongly.
LEMMA UncoveredBut ==
  ASSUME NEW n \in Nat, n # 0, NEW all, NEW rest, Rest(rest, all, n), ~Shadowed(all, 1), ~RootSet(all[1]),
         NEW v, Shows(v, LayerTree(all)), LayerTree(all) \in Tree, LayerTree(rest) \in Tree
  PROVE  ShowsBut(v, LayerTree(rest),
                  {k \in DOMAIN Given(all[1]) : CompleteNode(LayerTree(rest), k) = None})
<1> DEFINE w == all[1]
           old == LayerTree(all)
           new == LayerTree(rest)
<1>1. Lacks(new, old, w)
  BY UnshadowedFirst
<1>2. v \in ViewRecord /\ v.node \in Node
  BY DEF Shows, ShowsBut, ViewRecord
<1> HIDE DEF old, new
<1> DEFINE K == {k \in DOMAIN Given(w) : CompleteNode(new, k) = None}
<1>3. ASSUME NEW k \in Key \ K PROVE v.ev[k] = ApplyToNode(new, v.node)[k]
  <2>1. CompleteNode(new, k) = new.kids[k]
    BY <1>1, PathAssumption DEF Lacks, CompleteNode
  <2>2. k \notin DOMAIN Given(w) \/ new.kids[k] # None
    BY <2>1
  <2>3. old.kids[k] = new.kids[k]
    BY <1>1, <2>2 DEF Lacks
  <2>4. v.ev[k] = ApplyToNode(old, v.node)[k]
    BY DEF Shows, ShowsBut, old
  <2>5. old \in Tree /\ new \in Tree /\ old.root = None /\ new.root = None
    BY <1>1 DEF Lacks, old, new
  <2>6. QED BY <1>2, <2>3, <2>4, <2>5, AppliedTo
<1>4. v.evFull <=> v.full \/ new.root # None
  BY <1>1 DEF Lacks, Shows, ShowsBut, old
<1>5. ShowsBut(v, new, K)
  BY <1>2, <1>3, <1>4 DEF ShowsBut
<1>6. QED BY <1>5 DEF new

\* ackUserWriteOn, for a view that knows everything.
LEMMA AckShows ==
  ASSUME NEW n \in Nat, n # 0, NEW all, NEW rest, Rest(rest, all, n), ~Shadowed(all, 1),
         NEW v, Shows(v, LayerTree(all)), v.full, LayerTree(all) \in Tree, LayerTree(rest) \in Tree
  PROVE  LET u == AckUserWrite(v, LayerTree(rest), all[1])
         IN Shows(u, LayerTree(rest)) /\ Same(u, v)
<1> DEFINE w == all[1]
           new == LayerTree(rest)
           u == AckUserWrite(v, new, w)
<1> SUFFICES Shows(u, new) /\ Same(u, v)
  OBVIOUS
<1>1. w \in WriteRecord
  <2>1. 1 \in 1 .. n
    OBVIOUS
  <2>2. QED BY <2>1 DEF Rest
<1>2. new.root = None
  BY UnshadowedFirst
<1>3. v \in ViewRecord /\ v.node \in Node
  BY DEF Shows, ShowsBut, ViewRecord
<1>4. CompleteNode(new, Top) = None /\ \A k \in Key : CompleteForChild(v, k)
  BY <1>2 DEF CompleteNode, CompleteForChild
<1>5. CASE RootSet(w)
  <2>1. w.at = Top /\ IsOverwrite(w)
    BY <1>5 DEF RootSet
  <2>2. u = ServerOverwrite(v, new, Top, v.node)
    BY <1>4, <2>1 DEF AckUserWrite
  <2> HIDE DEF new
  <2>3. new \in Tree
    BY DEF new
  <2> DEFINE q == ServerOverwrite(v, new, Top, v.node)
  <2>4. Shows(q, new) /\ q.full /\ q.on = v.on /\ q.node = v.node
    BY <1>2, <1>3, <2>3, RootShows DEF new
  <2>5. u = q
    BY <2>2
  <2> HIDE DEF q, u
  <2>6. q.full = TRUE /\ v.full = TRUE
    BY <1>3, <2>4 DEF Shows, ShowsBut, ViewRecord
  <2>7. QED BY <2>4, <2>5, <2>6 DEF Same, Like
<1>6. CASE ~RootSet(w)
  <2> DEFINE K == {k \in DOMAIN Given(w) : CompleteNode(new, k) = None}
  <2>1. ShowsBut(v, new, K)
    BY <1>6, UncoveredBut
  <2>2. DOMAIN Given(w) \subseteq Key
    BY <1>1, <1>6, WriteKinds
  <2> HIDE DEF new
  <2>3. new \in Tree
    BY DEF new
  <2>4. CASE w.op = "merge"
    <3> DEFINE data == [k \in {j \in DOMAIN w.data : CompleteForChild(v, j)} |-> v.node[k]]
    <3>1. w.at = Top /\ Given(w) = w.data /\ ~IsOverwrite(w)
      BY <1>1, <2>4, WriteKinds DEF IsOverwrite
    <3>2. u = ServerMerge(v, new, data)
      BY <1>4, <3>1 DEF AckUserWrite
    <3>3. DOMAIN data = DOMAIN Given(w) /\ \A k \in DOMAIN data : data[k] \in Value
      BY <1>3, <1>4, <2>2, <3>1 DEF Node
    <3> HIDE DEF data
    <3>4. /\ Shows(ServerMerge(v, new, data), new) /\ Like(ServerMerge(v, new, data), v)
          /\ ServerMerge(v, new, data).node =
               IF v.node = EmptyNode /\ ~v.full THEN v.node ELSE Layered(v.node, data)
      BY <2>1, <2>2, <2>3, <3>3, MergeShows
    <3>6. Layered(v.node, data) = v.node
      BY <1>3 DEF Layered, Node, data
    <3>5. QED BY <3>2, <3>4, <3>6 DEF new, Same
  <2>5. CASE w.op # "merge"
    <3>1. IsOverwrite(w) /\ w.at \in Key /\ w.at # Top /\ DOMAIN Given(w) = {w.at}
      BY <1>1, <1>6, <2>5, WriteKinds, PathAssumption DEF IsOverwrite, RootSet
    <3>2. CompleteNode(new, w.at) = None
      <4>1. Lacks(new, LayerTree(all), w)
        BY <1>6, UnshadowedFirst DEF new
      <4>2. QED BY <1>2, <3>1, <4>1 DEF Lacks, CompleteNode
    <3>3. u = ServerOverwrite(v, new, w.at, v.node[w.at])
      BY <1>4, <3>1, <3>2 DEF AckUserWrite
    <3>4. v.node[w.at] \in Value
      BY <1>3, <3>1 DEF Node
    <3> DEFINE q == ServerOverwrite(v, new, w.at, v.node[w.at])
    <3>5. /\ ShowsBut(q, new, K \ {w.at}) /\ Like(q, v)
          /\ q.node = [v.node EXCEPT ![w.at] = v.node[w.at]]
      <4> DEFINE k == w.at
                 d == v.node[w.at]
      <4>1. k \in Key /\ d \in Value /\ (k \in K => CompleteNode(new, k) = None) /\ ShowsBut(v, new, K)
        BY <2>1, <3>1, <3>2, <3>4
      <4> HIDE DEF k, d, K
      <4>2. ChildShown(ServerOverwrite(v, new, k, d), v, new, K, k, d)
        BY <2>3, <4>1, ChildShows
      <4>3. q = ServerOverwrite(v, new, k, d)
        BY DEF k, d
      <4> HIDE DEF q
      <4>4. QED BY <4>2, <4>3 DEF k, d, ChildShown
    <3>6. (K \ {w.at}) \cap Key \subseteq {}
      BY <3>1
    <3> HIDE DEF K, q
    <3>9. q.node = v.node
      BY <1>3, <3>1, <3>5 DEF Node
    <3>7. Shows(q, new)
      BY <3>5, <3>6, ShowsLess DEF Shows
    <3>8. QED BY <3>3, <3>5, <3>7, <3>9 DEF q, new, Same
  <2>6. QED BY <2>4, <2>5
<1> HIDE DEF w, u, new
<1>7. QED BY <1>5, <1>6

\* The whole location is computed again without the write.
LEMMA RevertAtRoot ==
  ASSUME NEW vis \in Tree, vis.root = None, NEW v \in ViewRecord
  PROVE  Shows(RevertUserWrite(v, vis, Top), vis) /\ Same(RevertUserWrite(v, vis, Top), v)
<1> DEFINE ev == IF v.full THEN CompleteEventCache(vis, v.node) ELSE CompleteEventChildren(vis, v.node)
           u == [v EXCEPT !.ev = ev, !.evFull = v.full \/ vis.root # None]
<1>1. RevertUserWrite(v, vis, Top) = u
  BY DEF RevertUserWrite, CompleteNode
<1>2. v.node \in Node
  BY DEF ViewRecord
<1>3. ev = ApplyToNode(vis, v.node) /\ ev \in Node
  BY <1>2, Cached, AppliedTo DEF CompleteEventChildren
<1> HIDE DEF ev
<1>4. /\ u \in ViewRecord /\ u.ev = ev /\ u.node = v.node /\ Like(u, v)
      /\ u.evFull <=> v.full \/ vis.root # None
  BY <1>3 DEF ViewRecord, Like
<1> HIDE DEF u
<1>5. QED BY <1>1, <1>3, <1>4 DEF Shows, ShowsBut, Same, Like

\* revertUserWriteOn.
LEMMA RevertShows ==
  ASSUME NEW n \in Nat, n # 0, NEW all, NEW rest, Rest(rest, all, n), ~Shadowed(all, 1),
         NEW v, Shows(v, LayerTree(all)), LayerTree(all) \in Tree, LayerTree(rest) \in Tree
  PROVE  LET u == RevertUserWrite(v, LayerTree(rest), all[1].at)
         IN Shows(u, LayerTree(rest)) /\ Same(u, v)
<1> DEFINE w == all[1]
           new == LayerTree(rest)
           u == RevertUserWrite(v, new, w.at)
<1>1. w \in WriteRecord
  <2>1. 1 \in 1 .. n
    OBVIOUS
  <2>2. QED BY <2>1 DEF Rest
<1>2. new.root = None
  BY UnshadowedFirst
<1>3. v \in ViewRecord /\ v.node \in Node /\ v.ev \in Node
  BY DEF Shows, ShowsBut, ViewRecord
<1>4. CASE w.at = Top
  BY <1>2, <1>3, <1>4, RevertAtRoot
<1>5. CASE w.at \in Key
  <2>1. w.at # Top /\ ~RootSet(w) /\ DOMAIN Given(w) = {w.at}
    BY <1>1, <1>5, WriteKinds, PathAssumption DEF RootSet
  <2>2. ShowsBut(v, new, {w.at})
    <3>1. ShowsBut(v, new, {k \in DOMAIN Given(w) : CompleteNode(new, k) = None})
      BY <2>1, UncoveredBut
    <3> HIDE DEF new
    <3>2. {k \in DOMAIN Given(w) : CompleteNode(new, k) = None} \cap Key \subseteq {w.at}
      BY <2>1
    <3>3. QED BY <3>1, <3>2, ShowsLess
  <2>3. new.kids[w.at] = None
    <3>1. Lacks(new, LayerTree(all), w)
      BY <2>1, UnshadowedFirst
    <3>2. QED BY <1>5, <3>1 DEF Lacks
  <2> HIDE DEF new
  <2> DEFINE c == RevertedChild(v, new, w.at)
             ev == [v.ev EXCEPT ![w.at] = c]
             t == [v EXCEPT !.ev = ev, !.evFull = v.full \/ new.root # None]
  <2>4. CompleteNode(new, w.at) = None
    BY <1>2, <2>1, <2>3 DEF CompleteNode
  <2>5. u = t
    BY <2>1, <2>4 DEF RevertUserWrite
  <2>6. c = v.node[w.at] /\ c \in Value
    BY <1>3, <1>5 DEF RevertedChild, CompleteForChild, Node
  <2> HIDE DEF c
  <2>7. ev \in Node /\ ev[w.at] = c /\ \A k \in Key \ {w.at} : ev[k] = v.ev[k]
    BY <1>3, <1>5, <2>6 DEF Node
  <2> HIDE DEF ev
  <2>8. /\ t \in ViewRecord /\ t.ev = ev /\ t.node = v.node /\ Like(t, v)
        /\ t.evFull <=> v.full \/ new.root # None
    BY <1>3, <2>7 DEF ViewRecord, Like
  <2> HIDE DEF t
  <2>9. new \in Tree
    BY DEF new
  <2>10. ASSUME NEW k \in Key PROVE t.ev[k] = ApplyToNode(new, t.node)[k]
    <3>1. CASE k = w.at
      BY <1>2, <1>3, <2>3, <2>6, <2>7, <2>8, <2>9, <3>1, AppliedTo
    <3>2. CASE k # w.at
      BY <2>2, <2>7, <2>8, <3>2 DEF ShowsBut
    <3>3. QED BY <3>1, <3>2
  <2>11. Shows(t, new)
    BY <2>8, <2>10 DEF Shows, ShowsBut, Like
  <2>12. QED BY <2>5, <2>8, <2>11 DEF new, Same
<1>6. QED BY <1>1, <1>4, <1>5, WriteKinds

=============================================================================

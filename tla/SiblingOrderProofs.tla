-------------------------- MODULE SiblingOrderProofs --------------------------
(***************************************************************************)
(* Proofs about module SiblingOrder, for any number of siblings and any    *)
(* dependencies: test edges close no cycle, and every dependency that is   *)
(* not inside a tangle points down in the reading order.                   *)
(***************************************************************************)
EXTENDS SiblingOrder, SequenceTheorems, FiniteSetTheorems, TLAPS

-----------------------------------------------------------------------------
(* Reachability *)

LEMMA ReachesItself ==
  ASSUME NEW E, NEW u \in Node
  PROVE  Reaches(E, u, u) /\ Tangled(E, u, u)
BY DEF Reaches, Tangled

LEMMA ReachesByEdge ==
  ASSUME NEW E, NEW u \in Node, NEW v \in Node, <<u, v>> \in E
  PROVE  Reaches(E, u, v)
BY DEF Reaches

LEMMA ReachesOn ==
  ASSUME NEW E, NEW u \in Node, NEW v \in Node, NEW w \in Node,
         Reaches(E, u, v), Reaches(E, v, w)
  PROVE  Reaches(E, u, w)
BY DEF Reaches

LEMMA ReachesInMore ==
  ASSUME NEW E, NEW F, E \subseteq F, NEW u \in Node, NEW v \in Node,
         Reaches(E, u, v)
  PROVE  Reaches(F, u, v)
BY DEF Reaches

\* What u reaches is closed.
LEMMA ReachedIsClosed ==
  ASSUME NEW E \in SUBSET (Node \X Node), NEW u \in Node
  PROVE  \A e \in E : Reaches(E, u, e[1]) => Reaches(E, u, e[2])
<1> SUFFICES ASSUME NEW a \in Node, NEW b \in Node, <<a, b>> \in E, Reaches(E, u, a)
             PROVE  Reaches(E, u, b)
  OBVIOUS
<1> QED
  BY ReachesByEdge, ReachesOn

\* An edge from s to d closes no cycle if d does not reach s: neither its own
\* nor one of an edge that was on none.
LEMMA NewEdgeClosesNoCycle ==
  ASSUME NEW E \in SUBSET (Node \X Node), NEW s \in Node, NEW d \in Node,
         ~Reaches(E, d, s),
         NEW a \in Node, NEW b \in Node,
         \/ a = s /\ b = d
         \/ <<a, b>> \in E /\ ~Reaches(E, b, a)
  PROVE  ~Reaches(E \cup {<<s, d>>}, b, a)
<1> DEFINE F == E \cup {<<s, d>>}
           From(u) == {w \in Node : Reaches(E, u, w)}
<1>1. \A u \in Node : u \in From(u) /\ \A e \in E : e[1] \in From(u) => e[2] \in From(u)
  BY ReachesItself, ReachedIsClosed
<1>2. ASSUME NEW S \in SUBSET Node, b \in S, \A e \in F : e[1] \in S => e[2] \in S,
             Reaches(F, b, a)
      PROVE  a \in S
  BY <1>2 DEF Reaches
<1>3. CASE a = s /\ b = d
  <2>1. \A e \in F : e[1] \in From(d) => e[2] \in From(d)
    BY <1>1
  <2> QED
    BY <1>1, <1>2, <1>3, <2>1
<1>4. CASE <<a, b>> \in E /\ ~Reaches(E, b, a) /\ ~Reaches(E, b, s)
  <2>1. \A e \in F : e[1] \in From(b) => e[2] \in From(b)
    BY <1>1, <1>4
  <2> QED
    BY <1>1, <1>2, <1>4, <2>1
<1>5. CASE <<a, b>> \in E /\ ~Reaches(E, b, a) /\ Reaches(E, b, s)
  <2> DEFINE S == From(b) \cup From(d)
  <2>1. S \in SUBSET Node /\ b \in S /\ \A e \in F : e[1] \in S => e[2] \in S
    BY <1>1
  <2>2. a \notin From(d)
    BY <1>5, ReachesByEdge, ReachesOn
  <2>3. a \notin S
    BY <1>5, <2>2
  <2> QED
    BY <1>2, <2>1, <2>3
<1> QED
  BY <1>3, <1>4, <1>5

\* Edges on no cycle tangle nothing: u reaches v without them.
LEMMA TangledWithout ==
  ASSUME NEW E \in SUBSET (Node \X Node), NEW T \in SUBSET (Node \X Node),
         \A e \in T : ~Reaches(E \cup T, e[2], e[1]),
         NEW u \in Node, NEW v \in Node, Tangled(E \cup T, u, v)
  PROVE  Reaches(E, u, v)
<1> DEFINE F == E \cup T
<1> SUFFICES ASSUME NEW S \in SUBSET Node, u \in S, \A e \in E : e[1] \in S => e[2] \in S
             PROVE  v \in S
  BY DEF Reaches
<1> DEFINE R == {w \in Node : Reaches(F, u, w) /\ (Reaches(F, w, u) => w \in S)}
<1>1. u \in R
  BY ReachesItself
<1>2. ASSUME NEW x \in Node, NEW y \in Node, <<x, y>> \in F, x \in R
      PROVE  y \in R
  <2>1. Reaches(F, x, y) /\ Reaches(F, u, y)
    BY <1>2, ReachesByEdge, ReachesOn
  <2>2. ASSUME Reaches(F, y, u)
        PROVE  y \in S
    <3>1. Reaches(F, x, u) /\ Reaches(F, y, x)
      BY <1>2, <2>1, <2>2, ReachesOn
    <3>2. <<x, y>> \in E
      BY <1>2, <3>1
    <3> QED
      BY <1>2, <3>1, <3>2
  <2> QED
    BY <2>1, <2>2
<1>3. \A e \in F : e[1] \in R => e[2] \in R
  BY <1>2
<1>4. v \in R
  BY <1>1, <1>3 DEF Tangled, Reaches
<1> QED
  BY <1>4 DEF Tangled

-----------------------------------------------------------------------------
(* Types *)

LEMMA SeqOfGroup ==
  ASSUME NEW g \in SUBSET Node, g # {}, NEW p \in SetToSeqs(g)
  PROVE  /\ p \in Seq(Node)
         /\ Len(p) \in Nat \ {0}
         /\ \A i \in 1 .. Len(p) : p[i] \in g
         /\ \A i, j \in 1 .. Len(p) : i # j => p[i] # p[j]
<1>1. IsFiniteSet(g) /\ Cardinality(g) \in Nat /\ Cardinality(g) # 0
  <2>1. IsFiniteSet(Node)
    BY SiblingAssumption, FS_Interval DEF Node
  <2> QED
    BY <2>1, FS_Subset, FS_CardinalityType, FS_EmptySet
<1>2. p \in [1 .. Cardinality(g) -> g] /\ \A i, j \in 1 .. Cardinality(g) : i # j => p[i] # p[j]
  BY DEF SetToSeqs
<1>3. p \in Seq(g) /\ Len(p) = Cardinality(g)
  BY <1>1, <1>2, SeqDef, LenProperties
<1> QED
  BY <1>1, <1>2, <1>3, SeqMonotonic

LEMMA GroupSets == Singles \in SUBSET SUBSET Node /\ Tangles \in SUBSET SUBSET Node
BY DEF Singles, Tangles, Tangle

LEMMA TypeInit == Init => TypeOK
BY DEF Init, TypeOK

LEMMA SortType ==
  ASSUME NEW gs \in SUBSET SUBSET Node, Sort(gs)
  PROVE  /\ groups' \subseteq SUBSET Node
         /\ waits' \in [groups' -> SUBSET groups']
         /\ \A e \in heap' : e.group \in groups'
         /\ order' \in Seq(Node)
BY DEF Sort, Predecessors

\* What a round changes, of entry e with its nodes in the sequence p.
PlaceAs(e, p) ==
  /\ order' = order \o p
  /\ waits' = [h \in groups |-> waits[h] \ {e.group}]
  /\ \A f \in heap' : f \in heap \ {e} \/ (f.group \in groups /\ waits[f.group] = {e.group})
  /\ \A f, h \in heap' : f \in heap \ {e} \/ h \in heap \ {e} \/ (f.group = h.group => f = h)
  /\ pc \in {"nodes", "tangles"}
  /\ UNCHANGED <<pc, prod, test, candidates, soft, groups>>

LEMMA PlaceFacts ==
  ASSUME Place
  PROVE  \E e \in heap : \E p \in SetToSeqs(e.group) : PlaceAs(e, p)
<1> PICK e \in heap : \E p \in SetToSeqs(e.group) :
       /\ order' = order \o p
       /\ waits' = [h \in groups |-> waits[h] \ {e.group}]
       /\ heap' = (heap \ {e}) \cup
            {[group |-> h, score |-> Score(h, order')] :
               h \in {h \in groups : waits[h] = {e.group}}}
  BY DEF Place
<1> PICK p \in SetToSeqs(e.group) :
       /\ order' = order \o p
       /\ waits' = [h \in groups |-> waits[h] \ {e.group}]
       /\ heap' = (heap \ {e}) \cup
            {[group |-> h, score |-> Score(h, order')] :
               h \in {h \in groups : waits[h] = {e.group}}}
  OBVIOUS
<1>1. ASSUME NEW f \in heap', f \notin heap \ {e}
      PROVE  /\ f.group \in groups /\ waits[f.group] = {e.group}
             /\ f = [group |-> f.group, score |-> Score(f.group, order')]
  <2>1. PICK h \in groups :
          waits[h] = {e.group} /\ f = [group |-> h, score |-> Score(h, order')]
    BY <1>1
  <2> QED
    BY <2>1
<1>2. ASSUME NEW f \in heap', NEW h \in heap', f \notin heap \ {e}, h \notin heap \ {e},
             f.group = h.group
      PROVE  f = h
  <2>1. f = [group |-> f.group, score |-> Score(f.group, order')]
    BY <1>1, <1>2
  <2>2. h = [group |-> h.group, score |-> Score(h.group, order')]
    BY <1>1, <1>2
  <2> QED
    BY <1>2, <2>1, <2>2, Zenon
<1>3. pc \in {"nodes", "tangles"} /\ UNCHANGED <<pc, prod, test, candidates, soft, groups>>
  BY DEF Place
<1>4. PlaceAs(e, p)
  BY <1>1, <1>2, <1>3 DEF PlaceAs
<1> QED
  BY <1>4

LEMMA TypeStep ==
  ASSUME TypeOK, GroupsInv, [Next]_vars
  PROVE  TypeOK'
<1> USE DEF TypeOK
<1>1. ASSUME NEW p \in Pair, CountProduction(p) \/ CountTest(p)
      PROVE  TypeOK'
  BY <1>1 DEF CountProduction, CountTest
<1>2. CASE EndCount
  BY <1>2 DEF EndCount
<1>3. CASE TryTestEdge
  BY <1>3 DEF TryTestEdge
<1>4. CASE StartSort
  BY <1>4, SortType, GroupSets DEF StartSort
<1>5. CASE Place
  <2> PICK e \in heap : \E p \in SetToSeqs(e.group) : PlaceAs(e, p)
    BY <1>5, PlaceFacts
  <2> PICK p \in SetToSeqs(e.group) : PlaceAs(e, p)
    OBVIOUS
  <2>1. order' \in Seq(Node)
    <3>1. e.group \in SUBSET Node /\ e.group # {}
      BY DEF GroupsInv
    <3>2. p \in Seq(Node)
      BY <3>1, SeqOfGroup
    <3> QED
      BY <3>2, ConcatProperties DEF PlaceAs
  <2> QED
    BY <2>1 DEF PlaceAs
<1>6. CASE FallBack
  BY <1>6, SortType, GroupSets DEF FallBack
<1>7. CASE Finish
  BY <1>7 DEF Finish
<1>8. CASE UNCHANGED vars
  BY <1>8 DEF vars
<1> QED
  BY <1>1, <1>2, <1>3, <1>4, <1>5, <1>6, <1>7, <1>8 DEF Next

-----------------------------------------------------------------------------
(* Test edges *)

LEMMA EdgesAreOfNodes ==
  TypeOK => Edges \in SUBSET (Node \X Node) /\ Production \in SUBSET (Node \X Node)
BY DEF TypeOK, Edges, Production, Pair

LEMMA SoftInit == Init => SoftInv
BY DEF Init, SoftInv, Sorting

LEMMA SoftStep ==
  ASSUME TypeOK, SoftInv, [Next]_vars
  PROVE  SoftInv'
<1> USE DEF SoftInv, Sorting
<1>1. ASSUME NEW p \in Pair, CountProduction(p) \/ CountTest(p)
      PROVE  SoftInv'
  BY <1>1 DEF CountProduction, CountTest
<1>2. CASE EndCount
  BY <1>2 DEF EndCount, Edges, Production
<1>3. CASE TryTestEdge
  <2> PICK p \in candidates :
         /\ candidates' = candidates \ {p}
         /\ soft' = IF Reaches(Edges, p[2], p[1]) THEN soft ELSE soft \cup {p}
    BY <1>3 DEF TryTestEdge
  <2>1. UNCHANGED <<pc, prod, test>> /\ pc = "soft" /\ Production' = Production
    BY <1>3 DEF TryTestEdge, Production
  <2>2. p \in Pair /\ p[1] \in Node /\ p[2] \in Node /\ p = <<p[1], p[2]>>
    BY DEF TypeOK, Pair
  <2>3. Edges \in SUBSET (Node \X Node)
    BY EdgesAreOfNodes
  <2>4. CASE Reaches(Edges, p[2], p[1])
    BY <2>1, <2>4 DEF Edges
  <2>5. CASE ~Reaches(Edges, p[2], p[1])
    <3>1. soft' = soft \cup {p} /\ Edges' = Edges \cup {<<p[1], p[2]>>}
      BY <2>1, <2>2, <2>5 DEF Edges
    <3>2. ASSUME NEW q \in soft'
          PROVE  ~Reaches(Edges', q[2], q[1])
      <4>1. q[1] \in Node /\ q[2] \in Node /\ q = <<q[1], q[2]>>
        BY <3>1, <2>2 DEF TypeOK, Pair
      <4>2. q = p \/ (q \in Edges /\ ~Reaches(Edges, q[2], q[1]))
        BY <3>1 DEF Edges
      <4> QED
        BY <2>2, <2>3, <2>5, <3>1, <4>1, <4>2, NewEdgeClosesNoCycle
    <3>3. ASSUME NEW q \in Pair, test[q] > 0
          PROVE  q \in candidates' \cup soft' \/ Reaches(Edges', q[2], q[1])
      BY <2>1, <3>1, <3>3, ReachesInMore DEF Pair
    <3> QED
      BY <2>1, <3>2, <3>3
  <2> QED
    BY <2>4, <2>5
<1>4. CASE StartSort
  BY <1>4 DEF StartSort, Edges, Production
<1>5. CASE Place \/ FallBack \/ Finish
  BY <1>5 DEF Place, FallBack, Finish, Edges, Production
<1>6. CASE UNCHANGED vars
  BY <1>6 DEF vars, Edges, Production
<1> QED
  BY <1>1, <1>2, <1>3, <1>4, <1>5, <1>6 DEF Next

LEMMA SoftInvKeepsTangles == TypeOK /\ SoftInv => TestEdgesKeepTangles
<1> SUFFICES ASSUME TypeOK, SoftInv
             PROVE  TestEdgesKeepTangles
  OBVIOUS
<1>1. ASSUME NEW u \in Node, NEW v \in Node, Tangled(Edges, u, v)
      PROVE  Tangled(Production, u, v)
  <2>1. Production \in SUBSET (Node \X Node) /\ soft \in SUBSET (Node \X Node)
    BY EdgesAreOfNodes DEF TypeOK, Pair
  <2>2. \A e \in soft : ~Reaches(Production \cup soft, e[2], e[1])
    BY DEF SoftInv, Edges
  <2>3. Tangled(Production \cup soft, u, v) /\ Tangled(Production \cup soft, v, u)
    BY <1>1 DEF Tangled, Edges
  <2>4. Reaches(Production, u, v) /\ Reaches(Production, v, u)
    BY <2>1, <2>2, <2>3, TangledWithout
  <2> QED
    BY <2>4 DEF Tangled
<1>2. ASSUME pc \notin {"count", "soft"}, NEW p \in Pair, test[p] > 0, p \notin soft
      PROVE  Reaches(Edges, p[2], p[1])
  BY <1>2 DEF SoftInv, Sorting, TypeOK
<1> QED
  BY <1>1, <1>2 DEF TestEdgesKeepTangles

-----------------------------------------------------------------------------
(* The sorts *)

\* Tangles are disjoint, cover the nodes and tangle whom they hold.
LEMMA TanglesPartition ==
  /\ \A g \in Tangles : g # {} /\ \A u, v \in g : Tangled(Edges, u, v)
  /\ \A g, h \in Tangles : g \cap h # {} => g = h
  /\ \A v \in Node : \E g \in Tangles : v \in g
<1>1. \A v \in Node : v \in Tangle(v)
  BY ReachesItself DEF Tangle
<1>2. \A u, v, w \in Node : Tangled(Edges, u, v) /\ Tangled(Edges, v, w) => Tangled(Edges, u, w)
  BY ReachesOn DEF Tangled
<1>3. \A u, v \in Node : Tangled(Edges, u, v) => Tangled(Edges, v, u)
  BY DEF Tangled
<1>4. ASSUME NEW t \in Node, NEW u \in Tangle(t), NEW v \in Tangle(t)
      PROVE  Tangled(Edges, u, v)
  BY <1>2, <1>3 DEF Tangle
<1>5. ASSUME NEW t \in Node, NEW u \in Node, NEW v \in Node, v \in Tangle(t), v \in Tangle(u)
      PROVE  Tangle(t) = Tangle(u)
  BY <1>2, <1>3, <1>5 DEF Tangle
<1>6. \A g \in Tangles : g \subseteq Node
  BY DEF Tangles, Tangle
<1> QED
  BY <1>1, <1>4, <1>5, <1>6 DEF Tangles

LEMMA SinglesPartition ==
  /\ \A g \in Singles : g # {} /\ \A u, v \in g : Tangled(Edges, u, v)
  /\ \A g, h \in Singles : g \cap h # {} => g = h
  /\ \A v \in Node : \E g \in Singles : v \in g
BY ReachesItself DEF Singles

LEMMA EdgesKept == UNCHANGED <<prod, soft>> => Edges' = Edges
BY DEF Edges, Production

LEMMA TangledKept ==
  Edges' = Edges => \A u, v : Tangled(Edges, u, v)' <=> Tangled(Edges, u, v)
BY DEF Tangled, Reaches

LEMMA GroupsInit == Init => GroupsInv /\ SortInv /\ ReadingOrder
BY DEF Init, GroupsInv, Sorting, SortInv, Placed, ReadingOrder

LEMMA GroupsStep ==
  ASSUME TypeOK, GroupsInv, [Next]_vars
  PROVE  GroupsInv'
<1> USE DEF GroupsInv, Sorting
<1>1. ASSUME NEW p \in Pair, CountProduction(p) \/ CountTest(p)
      PROVE  GroupsInv'
  BY <1>1 DEF CountProduction, CountTest
<1>2. CASE EndCount \/ TryTestEdge
  BY <1>2 DEF EndCount, TryTestEdge
<1>3. CASE StartSort
  <2>1. groups' = Singles /\ pc' = "nodes" /\ Edges' = Edges
    BY <1>3, EdgesKept DEF StartSort, Sort
  <2> QED
    BY <2>1, SinglesPartition, TangledKept
<1>4. CASE FallBack
  <2>1. groups' = Tangles /\ pc' = "tangles" /\ Edges' = Edges
    BY <1>4, EdgesKept DEF FallBack, Sort
  <2> QED
    BY <2>1, TanglesPartition, TangledKept
<1>5. CASE Place \/ Finish
  <2>1. UNCHANGED <<groups, prod, soft>> /\ (Sorting <=> Sorting') /\ Sorting
    BY <1>5 DEF Place, Finish
  <2>2. Edges' = Edges
    BY <2>1, EdgesKept
  <2> QED
    BY <2>1, <2>2, TangledKept
<1>6. CASE UNCHANGED vars
  BY <1>6, EdgesKept, TangledKept DEF vars
<1> QED
  BY <1>1, <1>2, <1>3, <1>4, <1>5, <1>6 DEF Next

\* A sort that begins has placed nothing.
LEMMA SortBegins ==
  ASSUME NEW gs \in SUBSET SUBSET Node, Sort(gs), UNCHANGED <<prod, soft>>
  PROVE  SortInv' /\ ReadingOrder'
<1>1. Edges' = Edges
  BY EdgesKept
<1>2. Placed' = {} /\ groups' = gs
  BY DEF Placed, Sort
<1>3. \A g \in gs : waits'[g] = Predecessors(gs, g) /\ Predecessors(gs, g)' = Predecessors(gs, g)
  BY <1>1 DEF Sort, Predecessors
<1>4. \A e \in heap' : waits'[e.group] = {}
  BY <1>3 DEF Sort
<1>5. ASSUME NEW e \in heap', NEW f \in heap', e.group = f.group
      PROVE  e = f
  BY <1>5 DEF Sort
<1>6. SortInv'
  BY <1>2, <1>3, <1>4, <1>5 DEF SortInv
<1>7. ReadingOrder'
  BY DEF Sort, ReadingOrder
<1> QED
  BY <1>6, <1>7

\* A round of a sort: the new group is placed below all its predecessors, and
\* nothing placed before has it as one.
LEMMA PlaceStep ==
  ASSUME TypeOK, GroupsInv, SortInv, ReadingOrder, Place
  PROVE  SortInv' /\ ReadingOrder'
<1> PICK e \in heap : \E p \in SetToSeqs(e.group) : PlaceAs(e, p)
  BY PlaceFacts
<1> PICK p \in SetToSeqs(e.group) : PlaceAs(e, p)
  OBVIOUS
<1> DEFINE g == e.group
<1>1. /\ g \in groups /\ g \in SUBSET Node /\ g # {}
      /\ waits[g] = {} /\ g \notin Placed
  BY DEF TypeOK, GroupsInv, SortInv
<1>2. /\ p \in Seq(Node) /\ Len(p) \in Nat \ {0}
      /\ \A i \in 1 .. Len(p) : p[i] \in g
      /\ \A i, j \in 1 .. Len(p) : i # j => p[i] # p[j]
  BY <1>1, SeqOfGroup
<1>3. order \in Seq(Node) /\ Len(order) \in Nat /\ DOMAIN order = 1 .. Len(order)
  BY LenProperties DEF TypeOK
<1>4. /\ DOMAIN order' = 1 .. Len(order) + Len(p)
      /\ \A i \in 1 .. Len(order) + Len(p) :
           order'[i] = IF i <= Len(order) THEN order[i] ELSE p[i - Len(order)]
  BY <1>2, <1>3, ConcatProperties, LenProperties DEF PlaceAs
<1>5. \A i \in DOMAIN order : i \in DOMAIN order' /\ order'[i] = order[i]
  BY <1>2, <1>3, <1>4
<1>6. \A i \in DOMAIN order' \ DOMAIN order :
        i - Len(order) \in 1 .. Len(p) /\ order'[i] = p[i - Len(order)] /\ order'[i] \in g
  BY <1>2, <1>3, <1>4
<1>7. groups' = groups /\ Edges' = Edges
  BY EdgesKept DEF PlaceAs
<1>8. \A h \in groups : Predecessors(groups, h)' = Predecessors(groups, h)
  BY <1>7 DEF Predecessors
<1>9. Placed' = Placed \cup {g}
  <2>1. \A h \in Placed : h \in Placed'
    BY <1>5, <1>7 DEF Placed
  <2>2. g \in Placed'
    <3>1. Len(order) + 1 \in DOMAIN order' \ DOMAIN order
      BY <1>2, <1>3, <1>4
    <3> QED
      BY <1>1, <1>6, <1>7, <3>1 DEF Placed
  <2>3. ASSUME NEW h \in Placed'
        PROVE  h \in Placed \cup {g}
    <3>1. PICK i \in DOMAIN order' : order'[i] \in h
      BY DEF Placed
    <3>2. h \in groups
      BY <1>7 DEF Placed
    <3>3. CASE i \in DOMAIN order
      BY <1>5, <3>1, <3>2, <3>3 DEF Placed
    <3>4. CASE i \notin DOMAIN order
      BY <1>1, <1>6, <3>1, <3>2, <3>4 DEF GroupsInv
    <3> QED
      BY <3>3, <3>4
  <2> QED
    BY <2>1, <2>2, <2>3
<1>10. Predecessors(groups, g) \subseteq Placed
  BY <1>1 DEF SortInv
<1>11. \A h \in groups : waits'[h] = Predecessors(groups, h)' \ Placed'
  <2>1. \A h \in groups : waits'[h] = waits[h] \ {g}
    BY DEF PlaceAs
  <2> QED
    BY <1>8, <1>9, <2>1 DEF SortInv
<1>12. \A h \in Placed' : Predecessors(groups, h)' \subseteq Placed'
  <2>1. \A h \in Placed : h \in groups /\ Predecessors(groups, h) \subseteq Placed
    BY DEF SortInv, Placed
  <2> QED
    BY <1>1, <1>8, <1>9, <1>10, <2>1
<1>13. ASSUME NEW f \in heap'
       PROVE  waits'[f.group] = {} /\ f.group \notin Placed'
  <2>1. CASE f \in heap \ {e}
    <3>1. f.group \in groups /\ waits[f.group] = {} /\ f.group \notin Placed /\ f.group # g
      BY <2>1 DEF SortInv, TypeOK
    <3> QED
      BY <1>9, <3>1 DEF PlaceAs
  <2>2. CASE f.group \in groups /\ waits[f.group] = {g}
    <3>1. waits'[f.group] = {}
      BY <2>2 DEF PlaceAs
    <3>2. f.group # g
      BY <1>1, <2>2
    <3>3. f.group \notin Placed
      BY <1>1, <2>2 DEF SortInv
    <3> QED
      BY <1>9, <3>1, <3>2, <3>3
  <2> QED
    BY <2>1, <2>2 DEF PlaceAs
<1>14. ASSUME NEW f \in heap', NEW h \in heap', f.group = h.group
       PROVE  f = h
  <2>1. \A k \in heap : waits[k.group] = {}
    BY DEF SortInv
  <2>2. CASE f \in heap /\ h \in heap
    BY <1>14, <2>2 DEF SortInv
  <2>3. CASE f \notin heap \/ h \notin heap
    BY <1>14, <2>1, <2>3 DEF PlaceAs
  <2> QED
    BY <2>2, <2>3
<1>15. SortInv'
  BY <1>7, <1>11, <1>12, <1>13, <1>14 DEF SortInv
<1>16. ASSUME NEW i \in DOMAIN order', NEW j \in DOMAIN order', i < j
       PROVE  /\ order'[i] # order'[j]
              /\ <<order'[j], order'[i]>> \in Edges => Tangled(Edges, order'[i], order'[j])
  <2>1. CASE j \in DOMAIN order
    <3>1. i \in DOMAIN order
      BY <1>3, <1>4, <1>16, <2>1
    <3> QED
      BY <1>5, <1>16, <2>1, <3>1 DEF ReadingOrder
  <2>2. CASE i \in DOMAIN order /\ j \notin DOMAIN order
    <3>1. order'[i] \in Node /\ order'[i] = order[i] /\ order'[j] \in g
      BY <1>3, <1>5, <1>6, <2>2, ElementOfSeq
    <3>2. PICK h \in groups : order[i] \in h
      BY <3>1 DEF GroupsInv, PlaceAs, Sorting
    <3>3. h \in Placed /\ h # g
      BY <1>1, <2>2, <3>2 DEF Placed
    <3>4. order[i] \notin g
      BY <1>1, <3>2, <3>3 DEF GroupsInv
    <3>5. <<order'[j], order[i]>> \notin Edges
      <4>1. g \notin Predecessors(groups, h)
        BY <1>1, <3>3 DEF SortInv
      <4> QED
        BY <1>1, <3>1, <3>2, <3>3, <4>1 DEF Predecessors
    <3> QED
      BY <3>1, <3>4, <3>5
  <2>3. CASE i \notin DOMAIN order /\ j \notin DOMAIN order
    <3>1. order'[i] \in g /\ order'[j] \in g
      BY <1>6, <2>3
    <3>2. order'[i] # order'[j]
      <4> DEFINE k == i - Len(order)
                 l == j - Len(order)
      <4>1. k \in 1 .. Len(p) /\ l \in 1 .. Len(p) /\ order'[i] = p[k] /\ order'[j] = p[l]
        BY <1>6, <2>3
      <4>2. i \in Int /\ j \in Int /\ Len(order) \in Int
        BY <1>2, <1>3, <1>4
      <4>3. k # l
        BY <1>16, <4>2
      <4> HIDE DEF k, l
      <4> QED
        BY <1>2, <4>1, <4>3
    <3> QED
      BY <1>1, <3>1, <3>2 DEF GroupsInv
  <2> QED
    BY <2>1, <2>2, <2>3
<1>17. ReadingOrder'
  BY <1>7, <1>16, TangledKept DEF ReadingOrder
<1> QED
  BY <1>15, <1>17

LEMMA SortStep ==
  ASSUME TypeOK, GroupsInv, SortInv, ReadingOrder, [Next]_vars
  PROVE  SortInv' /\ ReadingOrder'
<1>1. ASSUME ~Sorting, UNCHANGED <<groups, heap, order>>
      PROVE  SortInv' /\ ReadingOrder'
  <2>1. groups' = {} /\ heap' = {} /\ order' = <<>>
    BY <1>1 DEF GroupsInv
  <2> QED
    BY <2>1 DEF SortInv, Placed, ReadingOrder
<1>2. ASSUME NEW p \in Pair, CountProduction(p) \/ CountTest(p)
      PROVE  SortInv' /\ ReadingOrder'
  BY <1>1, <1>2 DEF CountProduction, CountTest, Sorting
<1>3. CASE EndCount \/ TryTestEdge
  BY <1>1, <1>3 DEF EndCount, TryTestEdge, Sorting
<1>4. CASE StartSort
  BY <1>4, SortBegins, GroupSets DEF StartSort
<1>5. CASE FallBack
  BY <1>5, SortBegins, GroupSets DEF FallBack
<1>6. CASE Place
  BY <1>6, PlaceStep
<1>7. CASE Finish \/ UNCHANGED vars
  <2>1. UNCHANGED <<prod, soft, groups, waits, heap, order>>
    BY <1>7 DEF Finish, vars
  <2>2. Edges' = Edges /\ Placed' = Placed
    BY <2>1, EdgesKept DEF Placed
  <2>3. \A g \in groups : Predecessors(groups, g)' = Predecessors(groups, g)
    BY <2>1, <2>2 DEF Predecessors
  <2>4. SortInv'
    BY <2>1, <2>2, <2>3 DEF SortInv, Placed
  <2>5. ReadingOrder'
    BY <2>1, <2>2, TangledKept DEF ReadingOrder
  <2> QED
    BY <2>4, <2>5
<1> QED
  BY <1>2, <1>3, <1>4, <1>5, <1>6, <1>7 DEF Next

-----------------------------------------------------------------------------
(* Results *)

\* The inductive invariant of the sorts.
THEOREM SiblingInvHolds == Spec => []SiblingInv
<1>1. Init => SiblingInv
  BY TypeInit, SoftInit, GroupsInit DEF SiblingInv
<1>2. SiblingInv /\ [Next]_vars => SiblingInv'
  BY TypeStep, SoftStep, GroupsStep, SortStep DEF SiblingInv
<1> QED
  BY <1>1, <1>2, PTL DEF Spec

(***************************************************************************)
(* Every dependency outside a tangle points down, for any number of        *)
(* siblings and any dependencies, and no sibling is laid out twice.        *)
(***************************************************************************)
THEOREM ReadingOrderHolds == Spec => []ReadingOrder
<1>1. SiblingInv => ReadingOrder
  BY DEF SiblingInv
<1> QED
  BY <1>1, SiblingInvHolds, PTL

(***************************************************************************)
(* The test edges that join tangle nothing that production code does not,  *)
(* and those left out would have.                                          *)
(***************************************************************************)
THEOREM TestEdgesKeepTanglesHolds == Spec => []TestEdgesKeepTangles
<1>1. SiblingInv => TestEdgesKeepTangles
  BY SoftInvKeepsTangles DEF SiblingInv
<1> QED
  BY <1>1, SiblingInvHolds, PTL

=============================================================================

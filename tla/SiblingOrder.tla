----------------------------- MODULE SiblingOrder -----------------------------
(***************************************************************************)
(* The reading order of the nodes under one parent (src/src/layout/build.rs *)
(* and toposort.rs): the dependencies between the siblings' subtrees are    *)
(* counted, test dependencies join as far as they close no cycle, and a     *)
(* topological sort places the siblings. If they are tangled, a second sort *)
(* places tangles, that is strongly connected components, as a whole.       *)
(*                                                                         *)
(* A node is its rank by name: the siblings' names are taken as distinct.   *)
(* The in-degree that Kahn's algorithm counts down is kept as the set of    *)
(* the predecessors still to be placed.                                     *)
(***************************************************************************)
EXTENDS Naturals, Sequences, FiniteSets, FiniteSetsExt, SequencesExt

CONSTANTS
  N,                 \* the siblings
  MaxTangle,         \* largest tangle whose permutations are tried; the code's is 8
  MaxDependencies    \* bound: the dependencies that are counted

ASSUME SiblingAssumption == N \in Nat /\ MaxTangle \in Nat /\ MaxDependencies \in Nat

VARIABLES
  pc,
  prod, test,        \* how many dependencies cross from one subtree to another
  candidates,        \* the test edges not yet tried
  soft,              \* the test edges that joined
  groups,            \* what the sort places: nodes, or tangles
  waits,             \* the predecessors of each that are not yet placed
  heap,              \* the groups that wait for none, with their score
  order              \* the nodes placed

vars == <<pc, prod, test, candidates, soft, groups, waits, heap, order>>

Node == 1 .. N
Pair == {p \in Node \X Node : p[1] # p[2]}

Production == {p \in Pair : prod[p] > 0}
Edges == Production \cup soft

\* Some edge leaves every set of nodes that holds u and not v.
Reaches(edges, u, v) ==
  \A S \in SUBSET Node :
    u \in S /\ v \notin S => \E e \in edges : e[1] \in S /\ e[2] \notin S

Tangled(edges, u, v) == Reaches(edges, u, v) /\ Reaches(edges, v, u)
Tangle(u) == {v \in Node : Tangled(Edges, u, v)}
Tangles == {Tangle(u) : u \in Node}
Singles == {{v} : v \in Node}

TypeOK ==
  /\ pc \in {"count", "soft", "nodes", "tangles", "done"}
  /\ prod \in [Pair -> Nat]
  /\ test \in [Pair -> Nat]
  /\ candidates \subseteq Pair
  /\ soft \subseteq Pair
  /\ groups \subseteq SUBSET Node
  /\ waits \in [groups -> SUBSET groups]
  /\ \A e \in heap : e.group \in groups
  /\ order \in Seq(Node)

Init ==
  /\ pc = "count"
  /\ prod = [p \in Pair |-> 0]
  /\ test = [p \in Pair |-> 0]
  /\ candidates = {}
  /\ soft = {}
  /\ groups = {}
  /\ waits = [g \in {} |-> {}]
  /\ heap = {}
  /\ order = <<>>

-----------------------------------------------------------------------------
Counted == MapThenSumSet(LAMBDA p : prod[p] + test[p], Pair)

\* increment_edge, and the entry of test_edges.
CountProduction(p) ==
  /\ pc = "count"
  /\ Counted < MaxDependencies
  /\ prod' = [prod EXCEPT ![p] = @ + 1]
  /\ UNCHANGED <<pc, test, candidates, soft, groups, waits, heap, order>>

CountTest(p) ==
  /\ pc = "count"
  /\ Counted < MaxDependencies
  /\ test' = [test EXCEPT ![p] = @ + 1]
  /\ UNCHANGED <<pc, prod, candidates, soft, groups, waits, heap, order>>

EndCount ==
  /\ pc = "count"
  /\ pc' = "soft"
  /\ candidates' = {p \in Pair : test[p] > 0}
  /\ UNCHANGED <<prod, test, soft, groups, waits, heap, order>>

\* The candidates' order: by weight descending, then by names.
Sooner(p, q) ==
  \/ test[p] > test[q]
  \/ test[p] = test[q] /\ (p[1] < q[1] \/ (p[1] = q[1] /\ p[2] < q[2]))

\* Mutant: only an edge against another one is refused.
TryTestEdgePairwise ==
  /\ pc = "soft"
  /\ \E p \in candidates :
       /\ \A q \in candidates \ {p} : Sooner(p, q)
       /\ candidates' = candidates \ {p}
       /\ soft' = IF <<p[2], p[1]>> \in Edges THEN soft ELSE soft \cup {p}
  /\ UNCHANGED <<pc, prod, test, groups, waits, heap, order>>

\* One round of add_soft_test_edges.
TryTestEdge ==
  /\ pc = "soft"
  /\ \E p \in candidates :
       /\ \A q \in candidates \ {p} : Sooner(p, q)
       /\ candidates' = candidates \ {p}
       /\ soft' = IF Reaches(Edges, p[2], p[1]) THEN soft ELSE soft \cup {p}
  /\ UNCHANGED <<pc, prod, test, groups, waits, heap, order>>

-----------------------------------------------------------------------------
\* A score is a fraction: the mean position of the dependents placed, or
\* infinity, as <<1, 0>>.
Infinity == <<1, 0>>
Less(s, t) == s[1] * t[2] < t[1] * s[2]

\* A test edge may run beside a production edge.
EdgesBetween(u, v) ==
  Cardinality({k \in {1, 2} : <<u, v>> \in IF k = 1 THEN Production ELSE soft})

Barycenter(v, placed) ==
  << MapThenSumSet(LAMBDA i : (i - 1) * EdgesBetween(placed[i], v), DOMAIN placed),
     MapThenSumSet(LAMBDA i : EdgesBetween(placed[i], v), DOMAIN placed) >>

\* The second sort knows no scores, only names.
Score(g, placed) ==
  IF pc = "nodes" THEN Barycenter(CHOOSE v \in g : TRUE, placed) ELSE Infinity

Name(g) == CHOOSE v \in g : \A w \in g : v <= w

Earlier(a, b) ==
  \/ Less(a.score, b.score)
  \/ ~Less(b.score, a.score) /\ Name(a.group) < Name(b.group)

Predecessors(gs, g) ==
  {h \in gs \ {g} : \E u \in h, v \in g : <<u, v>> \in Edges}

\* The in-degrees and the heap of a sort that begins.
Sort(gs) ==
  /\ groups' = gs
  /\ waits' = [g \in gs |-> Predecessors(gs, g)]
  /\ heap' = {[group |-> g, score |-> Infinity] :
                g \in {h \in gs : Predecessors(gs, h) = {}}}
  /\ order' = <<>>

StartSort ==
  /\ pc = "soft" /\ candidates = {}
  /\ pc' = "nodes"
  /\ Sort(Singles)
  /\ UNCHANGED <<prod, test, candidates, soft>>

\* The weight of the edges that point up in a sequence of nodes.
Upward(p) ==
  MapThenSumSet(LAMBDA ij : IF ij[1] > ij[2] THEN prod[<<p[ij[1]], p[ij[2]]>>] ELSE 0,
                (DOMAIN p) \X (DOMAIN p))

\* As sequences of names.
LexBefore(p, q) ==
  \E i \in DOMAIN p : p[i] < q[i] /\ \A j \in 1 .. (i - 1) : p[j] = q[j]

\* Mutant: the limit excludes tangles of its own size.
LaidBelowLimit(g, p) ==
  /\ p \in SetToSeqs(g)
  /\ IF Cardinality(g) >= MaxTangle
     THEN \A i, j \in DOMAIN p : i < j => p[i] < p[j]
     ELSE \A q \in SetToSeqs(g) :
            Upward(p) < Upward(q) \/ (Upward(p) = Upward(q) /\ ~LexBefore(q, p))

\* optimal_scc_order, which leaves a single node as it is.
Laid(g, p) ==
  /\ p \in SetToSeqs(g)
  /\ IF Cardinality(g) > MaxTangle
     THEN \A i, j \in DOMAIN p : i < j => p[i] < p[j]
     ELSE \A q \in SetToSeqs(g) :
            Upward(p) < Upward(q) \/ (Upward(p) = Upward(q) /\ ~LexBefore(q, p))

\* Mutant: a group is ready with its first predecessor.
PlaceEager ==
  /\ pc \in {"nodes", "tangles"}
  /\ \E e \in heap : \E p \in SetToSeqs(e.group) :
       /\ \A f \in heap \ {e} : Earlier(e, f)
       /\ Laid(e.group, p)
       /\ order' = order \o p
       /\ waits' = [h \in groups |-> waits[h] \ {e.group}]
       /\ heap' = (heap \ {e}) \cup
            {[group |-> h, score |-> Score(h, order')] :
               h \in {h \in groups : e.group \in waits[h]}}
  /\ UNCHANGED <<pc, prod, test, candidates, soft, groups>>

\* One round of either sort.
Place ==
  /\ pc \in {"nodes", "tangles"}
  /\ \E e \in heap : \E p \in SetToSeqs(e.group) :
       /\ \A f \in heap \ {e} : Earlier(e, f)
       /\ Laid(e.group, p)
       /\ order' = order \o p
       /\ waits' = [h \in groups |-> waits[h] \ {e.group}]
       /\ heap' = (heap \ {e}) \cup
            {[group |-> h, score |-> Score(h, order')] :
               h \in {h \in groups : waits[h] = {e.group}}}
  /\ UNCHANGED <<pc, prod, test, candidates, soft, groups>>

\* Not every node was reached: the order is dropped for that of the tangles.
FallBack ==
  /\ pc = "nodes" /\ heap = {}
  /\ Len(order) # N
  /\ pc' = "tangles"
  /\ Sort(Tangles)
  /\ UNCHANGED <<prod, test, candidates, soft>>

Finish ==
  /\ pc \in {"nodes", "tangles"} /\ heap = {}
  /\ pc = "nodes" => Len(order) = N
  /\ pc' = "done"
  /\ UNCHANGED <<prod, test, candidates, soft, groups, waits, heap, order>>

Next ==
  \/ \E p \in Pair : CountProduction(p) \/ CountTest(p)
  \/ EndCount
  \/ TryTestEdge
  \/ StartSort
  \/ Place
  \/ FallBack
  \/ Finish

Spec == Init /\ [][Next]_vars

-----------------------------------------------------------------------------
(***************************************************************************)
(* GLOSSARY.md, "Reading order": a node comes before the nodes it depends  *)
(* on, unless they are tangled with it. It holds of what is placed so far  *)
(* too, and no node is placed twice (stable_toposort, scc_fallback_sort).  *)
(***************************************************************************)
ReadingOrder ==
  \A i, j \in DOMAIN order : i < j =>
    /\ order[i] # order[j]
    /\ <<order[j], order[i]>> \in Edges => Tangled(Edges, order[i], order[j])

(***************************************************************************)
(* GLOSSARY.md: inside a tangle the layout takes the order that leaves the *)
(* least dependency weight pointing up. Every sibling is laid out (the     *)
(* second sort, of tangles, has no cycle left), and unless a tangle is too *)
(* large for the search, no order of all the siblings leaves less.         *)
(***************************************************************************)
LeastWeightPointsUp ==
  pc = "done" =>
    /\ Range(order) = Node
    /\ (\A g \in groups : Cardinality(g) <= MaxTangle) =>
         \A q \in SetToSeqs(Node) : Upward(order) <= Upward(q)

(***************************************************************************)
(* add_soft_test_edges: test edges close no cycle, so that the tangles are *)
(* those of the production code, and the edges that were left out would    *)
(* have closed one.                                                        *)
(***************************************************************************)
TestEdgesKeepTangles ==
  /\ \A u, v \in Node : Tangled(Edges, u, v) => Tangled(Production, u, v)
  /\ pc \notin {"count", "soft"} =>
       \A p \in Pair : test[p] > 0 /\ p \notin soft => Reaches(Edges, p[2], p[1])

-----------------------------------------------------------------------------
\* The invariant behind ReadingOrder and TestEdgesKeepTangles.

Sorting == pc \in {"nodes", "tangles", "done"}
Placed == {g \in groups : \E i \in DOMAIN order : order[i] \in g}

\* No test edge that joined lies on a cycle; one left out would close one.
SoftInv ==
  /\ pc = "count" => soft = {}
  /\ \A p \in soft : ~Reaches(Edges, p[2], p[1])
  /\ pc # "count" => \A p \in Pair :
       test[p] > 0 => p \in candidates \cup soft \/ Reaches(Edges, p[2], p[1])
  /\ Sorting => candidates = {}

\* The groups of a sort are the nodes, each alone or with those tangled with it.
GroupsInv ==
  /\ ~Sorting => groups = {} /\ heap = {} /\ order = <<>>
  /\ \A g \in groups : g # {} /\ \A u, v \in g : Tangled(Edges, u, v)
  /\ \A g, h \in groups : g \cap h # {} => g = h
  /\ Sorting => \A v \in Node : \E g \in groups : v \in g

\* A group waits for its predecessors until they are placed.
SortInv ==
  /\ \A g \in groups : waits[g] = Predecessors(groups, g) \ Placed
  /\ \A g \in Placed : Predecessors(groups, g) \subseteq Placed
  /\ \A e \in heap : waits[e.group] = {} /\ e.group \notin Placed
  /\ \A e, f \in heap : e.group = f.group => e = f

SiblingInv ==
  /\ TypeOK
  /\ SoftInv
  /\ GroupsInv
  /\ SortInv
  /\ ReadingOrder

=============================================================================

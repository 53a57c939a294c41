------------------------------- MODULE Cycles --------------------------------
(***************************************************************************)
(* Cycles and clusters (src/src/diagnose/cycles.rs, clusters.rs) of a set   *)
(* R of edges of the arc graph.                                             *)
(*                                                                         *)
(* A cycle is a sequence of nodes; the edge from the last back to the first *)
(* is implied. Names are taken to order like the nodes that carry them, and *)
(* an edge is a pair of nodes.                                              *)
(***************************************************************************)
EXTENDS ArcGraph

\* Which edge of a tie goes: a dependency down the module tree last.
Bias == [structural |-> 0, neutral |-> 1, preferred |-> 2]

CyclicEdge == {"edge", "cycles", "symbols"}
Cluster == {"crate", "nodes", "cycles", "tolerated", "countsEveryCycle", "feedback", "edges"}

CycleEdges(c) == {<<c[i], IF i = Len(c) THEN c[1] ELSE c[i + 1]>> : i \in DOMAIN c}

Tangled(R, u, v) == v \in ReachedFrom({u}, R) /\ u \in ReachedFrom({v}, R)
\* The sets of nodes that lie on cycles together (tarjan_scc).
Sccs(R) ==
  LET on == {u \in UNION {{p[1], p[2]} : p \in R} : \E p \in R : p[1] = u /\ u \in ReachedFrom({p[2]}, R)}
  IN  {{v \in on : Tangled(R, u, v)} : u \in on}
Acyclic(R) == Sccs(R) = {}
Within(R, S) == {p \in R : p[1] \in S /\ p[2] \in S}

\* The search level by level: what lies k steps from the source.
Levels(R, source) ==
  LET levels[k \in Nat] ==      \* the levels 0 to k
        IF k = 0 THEN <<{source}>>
        ELSE LET near == levels[k - 1] IN
             Append(near, {p[2] : p \in {q \in R : q[1] \in Last(near)}} \ UNION Range(near))
  IN  levels[Cardinality({p[2] : p \in R})]

\* bfs_parents and reconstruct: from the target back, each time to the smallest
\* node that leads there from the level before.
ShortestPath(R, source, target) ==
  LET level == Levels(R, source)
      depth == CHOOSE k \in DOMAIN level : target \in level[k]
      back[k \in Nat] ==      \* on level depth - k
        IF k = 0 THEN target ELSE Min({u \in level[depth - k] : <<u, back[k - 1]>> \in R})
  IN  [i \in 1 .. depth |-> back[depth - i]]

\* Starts at place i.
RotatedTo(c, i) ==
  [k \in DOMAIN c |-> IF k + i - 1 <= Len(c) THEN c[k + i - 1] ELSE c[k + i - 1 - Len(c)]]
\* At the smallest node.
CanonicalRotation(c) == RotatedTo(c, CHOOSE i \in DOMAIN c : c[i] = Min(Range(c)))

\* Mutant: only the cycles through the smallest node of a component.
RepresentativeCyclesOfFirst(R) ==
  LET of(scc) == {CanonicalRotation(ShortestPath(Within(R, scc), p[2], p[1])) :
                    p \in {q \in Within(R, scc) : q[2] = Min(scc)}}
  IN  UNION {of(scc) : scc \in Sccs(R)}

\* The shortest cycle of every edge on a cycle, each once. Their order is that
\* of the components, which is left open in the code too.
RepresentativeCycles(R) ==
  LET of(scc) == {CanonicalRotation(ShortestPath(Within(R, scc), p[2], p[1])) : p \in Within(R, scc)}
  IN  UNION {of(scc) : scc \in Sccs(R)}

\* edge_cycles: for every edge of some cycle, its cycles.
EdgeCycles(cycles) ==
  [e \in UNION {CycleEdges(c) : c \in cycles} |-> {c \in cycles : e \in CycleEdges(c)}]

-----------------------------------------------------------------------------
RemovalBias(e) ==
  CASE ContainsChild(e[1], e[2]) -> Bias.structural
    [] ContainsChild(e[2], e[1]) ->
         IF \E f \in FindEdge(e[1], e[2]) : IsReexport(f) THEN Bias.structural ELSE Bias.preferred
    [] OTHER -> Bias.neutral

Symbols(e) == Size(SymbolsOf(e[1], e[2]))

\* Lexicographic comparison of two sequences of numbers.
LexLess(s, t) ==
  \E i \in DOMAIN s \cap DOMAIN t : s[i] < t[i] /\ \A j \in 1 .. (i - 1) : s[j] = t[j]

\* The greedy choice: most open cycles, then the direction in the module tree,
\* then the fewest symbols, then the name.
Better(coverage, e, f) ==
  LET key(g) == <<Cardinality(coverage[f] \cup coverage[e]) - Cardinality(coverage[g]),
                  2 - RemovalBias(g), Symbols(g), g[1], g[2]>>
  IN  LexLess(key(e), key(f))

\* Mutant: a round takes every edge of as many open cycles as the best.
GreedyCoverTies(edgeCycles) ==
  LET open(chosen) ==
        [e \in DOMAIN edgeCycles |-> edgeCycles[e] \ UNION {edgeCycles[f] : f \in chosen}]
      best(coverage) ==
        {e \in DOMAIN coverage : /\ coverage[e] # {}
                                 /\ \A f \in DOMAIN coverage : Cardinality(coverage[f]) <= Cardinality(coverage[e])}
      cover[k \in Nat] ==
        IF k = 0 THEN {} ELSE cover[k - 1] \cup best(open(cover[k - 1]))
  IN  cover[Cardinality(DOMAIN edgeCycles)]

\* The edges chosen, one after the other, until no cycle is open.
GreedyCover(edgeCycles) ==
  LET open(chosen) ==
        [e \in DOMAIN edgeCycles |-> edgeCycles[e] \ UNION {edgeCycles[f] : f \in chosen}]
      best(coverage) ==
        CHOOSE e \in DOMAIN coverage : \A f \in DOMAIN coverage \ {e} : Better(coverage, e, f)
      cover[k \in Nat] ==
        IF k = 0 THEN {}
        ELSE LET chosen == cover[k - 1]
                 coverage == open(chosen)
             IN  IF \A e \in DOMAIN coverage : coverage[e] = {} THEN chosen
                 ELSE chosen \cup {best(coverage)}
  IN  cover[Cardinality(DOMAIN edgeCycles)]

\* Mutant: no residual is covered.
FeedbackEdgesOfCover(R, edgeCycles, countsEveryCycle) == GreedyCover(edgeCycles)

\* The cover of the cycles, and of what is left while something is.
FeedbackEdges(R, edgeCycles, countsEveryCycle) ==
  LET residual(removed) == RepresentativeCycles(R \ removed)
      round[k \in Nat] ==
        IF k = 0 THEN GreedyCover(edgeCycles)
        ELSE LET removed == round[k - 1]
                 cycles == residual(removed)
             IN  IF cycles = {} THEN removed ELSE removed \cup GreedyCover(EdgeCycles(cycles))
  IN  IF countsEveryCycle THEN round[Cardinality(R)] ELSE round[0]

\* The members of a set of pairs <<key, member>>, by keys that tell them apart:
\* each at the place of its rank.
SortedBy(keyed) ==
  [i \in 1 .. Cardinality(keyed) |->
     (CHOOSE p \in keyed : Cardinality({q \in keyed : LexLess(q[1], p[1])}) = i - 1)[2]]

\* rank: traffic descending, then symbols, then names.
Ranked(es, edgeCycles) ==
  LET carried(e) == IF e \in DOMAIN edgeCycles THEN Cardinality(edgeCycles[e]) ELSE 0
      most == Max({0} \cup {carried(e) : e \in es})
      ranked == SortedBy({<<<<most - carried(e), Symbols(e), e[1], e[2]>>, e>> : e \in es})
  IN  [i \in DOMAIN ranked |->
         [edge |-> ranked[i], cycles |-> carried(ranked[i]), symbols |-> Symbols(ranked[i])]]

\* A cycle whose edges are all tolerated is; the layout tolerates none.
ClusterOf(R, cycles, scc, tolerated) ==
  LET all == {c \in cycles : c[1] \in scc}
      untolerated == {c \in all : ~(CycleEdges(c) \subseteq tolerated)}
      counted == IF untolerated = {} THEN all ELSE untolerated
      every == untolerated \in {{}, all}
      edgeCycles == EdgeCycles(counted)
      inside == Within(R, scc)
  IN  [crate |-> OwningCrate(Min(scc)), nodes |-> scc, cycles |-> counted,
       tolerated |-> untolerated = {}, countsEveryCycle |-> every,
       feedback |-> Ranked(FeedbackEdges(inside, edgeCycles, every), edgeCycles),
       edges |-> Ranked(inside, edgeCycles)]

ClusterKey(c) == <<Len(c.feedback), Cardinality(c.cycles), Cardinality(c.nodes), Min(c.nodes)>>

Clusters(R, cycles, tolerated) == {ClusterOf(R, cycles, scc, tolerated) : scc \in Sccs(R)}

\* Best first: the shortest list of feedback edges.
ClusterReport(R, cycles, tolerated) ==
  SortedBy({<<ClusterKey(c), c>> : c \in Clusters(R, cycles, tolerated)})

=============================================================================

-------------------------------- MODULE Rules --------------------------------
(***************************************************************************)
(* The rules engine (src/src/rules/engine.rs, baseline.rs): one rule held   *)
(* against the graph. What it finds is allowed by the rule's entries,       *)
(* frozen by the baseline, or reported.                                     *)
(*                                                                         *)
(* An edge is a pair of nodes here and a pair of paths in the baseline, the *)
(* violations of a run are a set, and nodes stand for the order of names.   *)
(***************************************************************************)
EXTENDS RulesFile, Cycles

VARIABLE options   \* of the command line: explicit rules file, re-exports

BaselineEntry == {"rule", "edge", "symbols"}

-----------------------------------------------------------------------------
NoSymbols == [named |-> {}, bare |-> FALSE]
CoversSymbols(tolerated, observed) ==
  observed.named \subseteq tolerated.named /\ (tolerated.bare \/ ~observed.bare)
Surplus(tolerated, observed) ==
  [named |-> tolerated.named \ observed.named, bare |-> tolerated.bare /\ ~observed.bare]

Entry(rule, a, b, symbols) ==
  [rule |-> rule.name, edge |-> <<nodes[a].path, nodes[b].path>>, symbols |-> symbols]
SameKey(x, y) == x.rule = y.rule /\ x.edge = y.edge

\* Two records of an edge under a rule tolerate both sets of symbols.
Merged(entries) ==
  LET all(x) == {y.symbols : y \in {z \in entries : SameKey(x, z)}}
  IN  {[x EXCEPT !.symbols = [named |-> UNION {s.named : s \in all(x)},
                              bare |-> \E s \in all(x) : s.bare]] : x \in entries}

\* A baseline that cannot be read counts as garbled: both end the command.
LoadBaseline(file) ==
  CASE file.is = "missing" -> [error |-> {}, entries |-> {}]
    [] file.is = "garbled" -> [error |-> {"BaselineParse"}, entries |-> {}]
    [] OTHER -> IF file.version = FormatVersion
                THEN [error |-> {}, entries |-> Merged(file.entries)]
                ELSE [error |-> {"BaselineVersion"}, entries |-> {}]

\* What the rule tolerates on the entry's edge, as a set of at most one.
FrozenFor(baseline, x) == {y.symbols : y \in {z \in baseline : SameKey(x, z)}}

\* Mutant: an entry is confirmed by its edge alone.
UnmatchedByKey(baseline, hits) ==
  {[entry |-> x, surplus |-> {}] : x \in {y \in baseline : ~\E h \in hits : SameKey(y, h)}}

\* Entries that the run does not confirm, and what of them nothing crosses.
Unmatched(baseline, hits) ==
  LET observed(x) == {h \in hits : SameKey(x, h)}
      gone == {x \in baseline : observed(x) = {}}
  IN  {[entry |-> x, surplus |-> {}] : x \in gone} \cup
      {u \in {[entry |-> x, surplus |-> {Surplus(x.symbols, h.symbols) : h \in observed(x)}] :
                x \in baseline \ gone} :
         u.surplus # {NoSymbols}}

EntriesUnder(baseline, names) == {x \in baseline : x.rule \in names}

-----------------------------------------------------------------------------
States == {"Reported", "Allowed", "Frozen"}
Details == {"edge", "cluster"}

Violation(rule, state, by, detail) ==
  [rule |-> rule.name, severity |-> rule.severity, state |-> state, by |-> by, detail |-> detail]

\* frozenFor: what an entry tolerates that no longer covers the edge.
EdgeDetail(a, b, frozenFor, via, locations) ==
  [is |-> "edge", edge |-> <<a, b>>, frozenFor |-> frozenFor, via |-> via, locations |-> locations]

Result(violations, entries, hits) == [violations |-> violations, entries |-> entries, hits |-> hits]
AllOf(results) ==
  Result(UNION {r.violations : r \in results}, UNION {r.entries : r \in results},
         UNION {r.hits : r \in results})

\* Of the last edge added, as petgraph finds it.
ModuleDepLocations(a, b) ==
  LET places == {i \in DOMAIN edges :
                   edges[i].src = a /\ edges[i].dst = b /\ edges[i].weight = "ModuleDep"}
  IN  IF places = {} THEN {} ELSE edges[Max(places)].locations

ProductionEdges == {e \in EdgeSet : IsProduction(e)}

\* via: the edges that lead from source to target over other nodes.
Dependency(a, b, via, locations) == [source |-> a, target |-> b, via |-> via, locations |-> locations]

\* One dependency for each pair, with the uses of all its edges.
WrittenDependencies(rejected) ==
  LET between(p) == {e \in ProductionEdges : e.src = p[1] /\ e.dst = p[2]}
  IN  {Dependency(p[1], p[2], <<>>, UNION {e.locations : e \in between(p)}) :
         p \in {<<e.src, e.dst>> : e \in ProductionEdges} \cap rejected}

\* The entry of one pair: allowed before frozen, and frozen only if covered.
Judge(rule, baseline, d) ==
  LET allowing == CoveredBy(rule.allow, d.source, d.target)
      entry == Entry(rule, d.source, d.target,
                     IF d.via = <<>> THEN EdgeSymbols(d.locations) ELSE NoSymbols)
      tolerated == FrozenFor(baseline, entry)
      covered == \E t \in tolerated : CoversSymbols(t, entry.symbols)
      found(state, by, frozenFor) ==
        {Violation(rule, state, by, EdgeDetail(d.source, d.target, frozenFor, d.via, d.locations))}
      hits == IF tolerated = {} THEN {} ELSE {entry}
  IN  IF allowing # {} THEN Result(found("Allowed", rule.allow[Min(allowing)].pattern, {}), {}, {})
      ELSE IF covered THEN Result(found("Frozen", NoName, {}), {}, hits)
      ELSE Result(found("Reported", NoName, tolerated), {entry}, hits)

CheckDependencies(rule, baseline, dependencies) ==
  AllOf({Judge(rule, baseline, d) : d \in dependencies})

CheckForbidden(rule, baseline) ==
  LET from == ResolvePattern(rule.from)
      to == ResolvePattern(rule.to)
  IN  CheckDependencies(rule, baseline, WrittenDependencies(from \X to))

-----------------------------------------------------------------------------
\* The places of the ordinary layers that claim n; the first one holds it.
ClaimedBy(layers, n) == {i \in Ordinary(layers) : n \in ResolveAll(layers[i])}
Overlaps(layers) == {n \in Members : Cardinality(ClaimedBy(layers, n)) > 1}

LayerIndex(layers) ==
  LET rest == IF HasCatchAll(layers) THEN LayerRest(layers) ELSE {}
      catchAll == CHOOSE i \in DOMAIN layers : layers[i] = CatchAll
  IN  [n \in {m \in Members : ClaimedBy(layers, m) # {}} \cup rest |->
         IF n \in rest THEN catchAll ELSE Min(ClaimedBy(layers, n))]

Rejects(rule, index, a, b) ==
  CASE rule.direction = "TopDown"  -> index[a] > index[b]
    [] rule.direction = "BottomUp" -> index[a] < index[b]

LexMin(S) == CHOOSE s \in S : \A t \in S \ {s} : LexLess(s, t)

\* Mutant: a route runs over one node at most.
RoutesOfTwoEdges(source, positioned) ==
  {[target |-> p[2].dst, over |-> <<p[1].dst>>] :
     p \in {q \in ProductionEdges \X ProductionEdges :
       /\ q[1].src = source /\ q[1].dst = q[2].src
       /\ q[1].dst \notin positioned /\ q[2].dst \in positioned \ {source}}}

\* The shortest ways over unpositioned nodes, level by level: the walk enters a
\* node once and ends at a positioned one. `over` is the way of each node
\* before it.
AtSource(source) == [reached |-> {source}, frontier |-> [n \in {source} |-> <<>>], found |-> {}]
NextLevel(w, positioned) ==
  LET near == {p \in (DOMAIN w.frontier) \X (DOMAIN nodes) :
                 /\ p[2] \notin w.reached
                 /\ \E e \in ProductionEdges : e.src = p[1] /\ e.dst = p[2]}
      entered == {p[2] : p \in near}
      over == [n \in entered |-> LexMin({w.frontier[p[1]] : p \in {q \in near : q[2] = n}})]
  IN  IF DOMAIN w.frontier = {} THEN w
      ELSE [reached |-> w.reached \cup entered,
            frontier |-> [n \in entered \ positioned |-> Append(over[n], n)],
            found |-> w.found \cup {[target |-> n, over |-> over[n]] :
                        n \in {m \in entered \cap positioned : over[m] # <<>>}}]

RoutesOverUnpositioned(source, positioned) ==
  LET walk[k \in Nat] == IF k = 0 THEN AtSource(source) ELSE NextLevel(walk[k - 1], positioned)
  IN  walk[Cardinality(DOMAIN nodes)].found

WrittenEdges(source, route) ==
  LET way == <<source>> \o Append(route.over, route.target)
  IN  [i \in 1 .. Len(way) - 1 |->
         [edge |-> <<way[i], way[i + 1]>>, locations |-> ModuleDepLocations(way[i], way[i + 1])]]

DependenciesOverUnpositioned(positioned, rejected) ==
  UNION {{Dependency(a, r.target, WrittenEdges(a, r), {}) :
            r \in {q \in RoutesOverUnpositioned(a, positioned) : <<a, q.target>> \in rejected}} :
         a \in positioned}

CheckLayers(rule, baseline) ==
  LET rejected(index) ==
        {p \in (DOMAIN index) \X (DOMAIN index) : Rejects(rule, index, p[1], p[2])}
      broken(index, pairs) ==
        WrittenDependencies(pairs) \cup DependenciesOverUnpositioned(DOMAIN index, pairs)
      found(index) == broken(index, rejected(index))
  IN  CheckDependencies(rule, baseline, found(LayerIndex(rule.layers)))

-----------------------------------------------------------------------------
\* A cluster named for the reader: its place among those of its state, the
\* path that its modules share, and one cycle in full, its edges ranked as those
\* of the cluster, or the feedback edges.
ClusterDetail(report, c) ==
  LET group == SelectSeq(report, LAMBDA d : d.tolerated = c.tolerated)
      single == Cardinality(c.cycles) = 1
      named == CHOOSE cycle \in c.cycles : TRUE
  IN  [is |-> "cluster",
       position |-> CHOOSE i \in DOMAIN group : group[i] = c,
       total |-> Len(group),
       place |-> LongestCommonPrefix({nodes[n].path : n \in c.nodes}),
       nodes |-> c.nodes, cycles |-> Cardinality(c.cycles),
       members |-> IF single THEN named ELSE <<>>,
       edges |-> IF single THEN Ranked(CycleEdges(named), EdgeCycles(c.cycles)) ELSE c.feedback,
       countsEveryCycle |-> c.countsEveryCycle]

Scope(rule) == Within(ProductionSubgraph(options.reexports), ResolvePattern(rule.scope))
AllowedEdges(rule) == {p \in Scope(rule) : CoveredBy(rule.allow, p[1], p[2]) # {}}
OnCycles(R) == UNION {Within(R, scc) : scc \in Sccs(R)}

\* What the baseline says about the edges on cycles.
EdgeEntry(rule, p) == Entry(rule, p[1], p[2], EdgeSymbols(ModuleDepLocations(p[1], p[2])))

\* Mutant: an entry freezes its edge whatever crosses it.
CoveredEdgesByKey(rule, baseline, R) ==
  {p \in OnCycles(R) : FrozenFor(baseline, EdgeEntry(rule, p)) # {}}

CoveredEdges(rule, baseline, R) ==
  {p \in OnCycles(R) :
     \E t \in FrozenFor(baseline, EdgeEntry(rule, p)) : CoversSymbols(t, EdgeEntry(rule, p).symbols)}

EdgeViolation(rule, p, state, by, frozenFor) ==
  Violation(rule, state, by,
            EdgeDetail(p[1], p[2], frozenFor, <<>>, ModuleDepLocations(p[1], p[2])))
AllowedOnCycle(rule, p) ==
  EdgeViolation(rule, p, "Allowed", rule.allow[Min(CoveredBy(rule.allow, p[1], p[2]))].pattern, {})

ClusterViolations(rule, clusters, report) ==
  {Violation(rule, IF c.tolerated THEN "Frozen" ELSE "Reported", NoName, ClusterDetail(report, c)) :
     c \in clusters}

\* The cycles of what is left of the scope, and the edges that grew.
CyclesIn(rule, R, covered, frozen) ==
  LET clusters(cycles) ==
        ClusterViolations(rule, Clusters(R, cycles, covered), ClusterReport(R, cycles, covered))
      grown == {p \in DOMAIN frozen : frozen[p] # {}} \ covered
  IN  Result(clusters(RepresentativeCycles(R))
               \cup {EdgeViolation(rule, p, "Reported", NoName, frozen[p]) : p \in grown},
             {EdgeEntry(rule, p) : p \in DOMAIN frozen \ covered},
             {EdgeEntry(rule, p) : p \in {q \in DOMAIN frozen : frozen[q] # {}}})

\* Allowed edges are taken out before the search, the frozen ones stay in.
CheckCycles(rule, baseline) ==
  LET allowed(edgesOfScope, exempt) ==
        Result({AllowedOnCycle(rule, p) : p \in exempt \cap OnCycles(edgesOfScope)}, {}, {})
      frozen(R) == [p \in OnCycles(R) |-> FrozenFor(baseline, EdgeEntry(rule, p))]
      left(R) == CyclesIn(rule, R, CoveredEdges(rule, baseline, R), frozen(R))
  IN  AllOf({allowed(Scope(rule), AllowedEdges(rule)), left(Scope(rule) \ AllowedEdges(rule))})

CheckRule(rule, baseline) ==
  CASE rule.kind = "ForbiddenDependency" -> CheckForbidden(rule, baseline)
    [] rule.kind = "NoCycles"            -> CheckCycles(rule, baseline)
    [] rule.kind = "Layers"              -> CheckLayers(rule, baseline)

=============================================================================

------------------------------ MODULE Diagnosis ------------------------------
(***************************************************************************)
(* The diagnosis of a finished graph (src/src/diagnose/): its cycles and    *)
(* clusters, and where the consumers of a module's symbols sit.             *)
(***************************************************************************)
EXTENDS DependencyGraph, Cycles

CONSTANT Tolerations   \* the sets of edges whose cycles a caller may accept

VARIABLES
  tolerated,           \* the edges whose cycles the caller accepts
  analysis,            \* the representative cycles
  report,              \* the clusters, best first
  localities           \* where the consumers of a module's symbols sit

diagnosisVars == <<tolerated, analysis, report, localities>>

DiagnosisInit ==
  /\ tolerated \in Tolerations
  /\ analysis = {} /\ report = <<>> /\ localities = {}

-----------------------------------------------------------------------------
\* Who takes each symbol of `provider`; a re-export takes none.
Consumers(provider) ==
  LET uses == UNION {{<<e, l>> : l \in {k \in e.locations : ~k.reexport}} :
                       e \in {f \in In(provider) : IsProductionModuleDep(f)}}
  IN  [s \in UNION {u[2].symbols : u \in uses} |->
         {u[1].src : u \in {v \in uses : s \in v[2].symbols}}]

\* Mutant: the home of the consumers may hold the provider.
ConsumerLocalityAnywhere(provider, consumers) ==
  IF Cardinality(consumers) = 1 THEN [locality |-> "SingleConsumer", home |-> consumers]
  ELSE LET home == DeepestCommonModule(consumers)
       IN  IF home = {} THEN [locality |-> "CrateWide", home |-> {}]
           ELSE [locality |-> "CommonAncestor", home |-> home]

ConsumerLocality(provider, consumers) ==
  LET home == {m \in DeepestCommonModule(consumers) : provider \notin ContainmentSubtree(m)}
  IN  IF Cardinality(consumers) = 1 THEN [locality |-> "SingleConsumer", home |-> consumers]
      ELSE IF home # {} THEN [locality |-> "CommonAncestor", home |-> home]
      ELSE [locality |-> "CrateWide", home |-> {}]

ConsumerGroups(provider) ==
  LET consumers == Consumers(provider)
      group(cs) == {s \in DOMAIN consumers : consumers[s] = cs}
      at(cs) == ConsumerLocality(provider, cs)
  IN  {[provider |-> provider, consumers |-> cs, symbols |-> group(cs),
        locality |-> at(cs).locality, home |-> at(cs).home] : cs \in Range(consumers)}

Subgraph == ProductionSubgraph(ws.includeReexports)

\* One analysis of the finished graph.
Diagnose ==
  LET R == Subgraph IN
  /\ pc = "graph"
  /\ pc' = "diagnosed"
  /\ analysis' = RepresentativeCycles(R)
  /\ report' = ClusterReport(R, analysis', tolerated)
  /\ localities' = UNION {ConsumerGroups(n) : n \in DOMAIN nodes}
  /\ UNCHANGED <<ws, nodes, edges, moduleMap, tolerated>>

DiagnosisNext ==
  \/ BuildGraph /\ UNCHANGED diagnosisVars
  \/ Diagnose

DiagnosisSpec == GraphInit /\ DiagnosisInit /\ [][DiagnosisNext]_<<graphVars, diagnosisVars>>

-----------------------------------------------------------------------------
Counted(c) == {CycleEdges(cycle) : cycle \in c.cycles}
FeedbackOf(c) == {f.edge : f \in Range(c.feedback)}

\* Whether R leads from u to v in at most k steps.
LeadsWithin(R, u, v, k) ==
  LET near[j \in Nat] ==
        IF j = 0 THEN {u}
        ELSE LET nearer == near[j - 1] IN nearer \cup {p[2] : p \in {q \in R : q[1] \in nearer}}
  IN  v \in near[k]

(***************************************************************************)
(* Every edge on a cycle has a representative that is as short as any cycle *)
(* through it, every representative is a simple cycle of the graph, and     *)
(* none is listed twice (representative_cycles).                            *)
(***************************************************************************)
RepresentativesAreShortest ==
  pc = "diagnosed" =>
    /\ \A c \in analysis :
         /\ CycleEdges(c) \subseteq Subgraph
         /\ Cardinality(Range(c)) = Len(c)
         /\ \A d \in analysis : CycleEdges(c) = CycleEdges(d) => c = d
    /\ \A p \in Subgraph : p[1] \in ReachedFrom({p[2]}, Subgraph) =>
         \E c \in analysis :
           p \in CycleEdges(c) /\ ~LeadsWithin(Subgraph, p[2], p[1], Len(c) - 2)

\* Whether an edge lies on a cycle of what R leaves without the others of `picks`.
OnCycleWithout(R, picks, e) == e[1] \in ReachedFrom({e[2]}, R \ (picks \ {e}))

(***************************************************************************)
(* Without the feedback edges no counted cycle stands, and a cluster that  *)
(* counts every cycle is acyclic. The edges can be put in an order in which *)
(* each breaks a cycle, a counted one where not every cycle counts, that   *)
(* the edges before it leave: of any of them, one (the last in the order)  *)
(* lies on a cycle that avoids the rest. No cycle is tolerated that a      *)
(* caller rejects (cluster_report, "verified feedback edge sets").         *)
(***************************************************************************)
FeedbackBreaksCycles ==
  pc = "diagnosed" => \A c \in Range(report) :
    LET inside == Within(Subgraph, c.nodes) IN
    /\ \A cycle \in Counted(c) : cycle \cap FeedbackOf(c) # {}
    /\ c.countsEveryCycle =>
         /\ Acyclic(inside \ FeedbackOf(c))
         /\ \A picks \in (SUBSET FeedbackOf(c)) \ {{}} :
              \E e \in picks : OnCycleWithout(inside, picks, e)
    /\ ~c.countsEveryCycle =>
         /\ \A picks \in (SUBSET FeedbackOf(c)) \ {{}} :
              \E cycle \in Counted(c) : Cardinality(cycle \cap picks) = 1
         /\ \A cycle \in Counted(c) : ~(cycle \subseteq tolerated)
    /\ FeedbackOf(c) \subseteq {f.edge : f \in Range(c.edges)}
    /\ c.tolerated => \A cycle \in analysis :
         cycle[1] \in c.nodes => CycleEdges(cycle) \subseteq tolerated

(***************************************************************************)
(* The home of a symbol's consumers holds all of them and not the provider, *)
(* no module below it does, and where there is none the symbol is used      *)
(* across the crate; every production use counts once                       *)
(* (importer_partition).                                                    *)
(***************************************************************************)
LocalityIsDeepestHome ==
  pc = "diagnosed" =>
    LET homes(g) == {m \in ModuleNodes :
          /\ g.consumers \subseteq ContainmentSubtree(m)
          /\ g.provider \notin ContainmentSubtree(m)}
        taken(e) == UNION {l.symbols : l \in {k \in e.locations : ~k.reexport}}
        used == UNION {{<<e.dst, s, e.src>> : s \in taken(e)} : e \in {f \in EdgeSet : IsProductionModuleDep(f)}}
    IN  /\ used = UNION {{<<g.provider, s, c>> : s \in g.symbols, c \in g.consumers} : g \in localities}
        /\ \A g, h \in localities :
             g.provider = h.provider /\ g.symbols \cap h.symbols # {} => g = h
        /\ \A g \in localities : Cardinality(g.consumers) > 1 =>
             CASE g.locality = "CommonAncestor" ->
                    \A home \in g.home :
                      home \in homes(g) /\ \A m \in homes(g) : home \in ContainmentSubtree(m)
               [] g.locality = "CrateWide" ->
                    \A m \in homes(g) : FALSE
               [] OTHER -> FALSE

=============================================================================

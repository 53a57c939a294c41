------------------------------ MODULE ArcGraph ------------------------------
(***************************************************************************)
(* The arc graph and what is asked of it (src/src/graph.rs): crates,        *)
(* modules and packages, held and used by each other.                       *)
(*                                                                         *)
(* A path is a sequence of names that begins with a crate's. A node is its  *)
(* index in `nodes`, and `edges` is in the order in which edges are added.  *)
(***************************************************************************)
EXTENDS Naturals, Sequences, FiniteSets, FiniteSetsExt, SequencesExt

VARIABLES nodes, edges

NodeKinds == {"crate", "module", "package"}
EdgeWeights == {"Contains", "CrateDep", "DevDep", "ModuleDep"}

ArcGraphTypeOK ==
  /\ \A n \in Range(nodes) : n.kind \in NodeKinds /\ n.crate \in DOMAIN nodes
  /\ \A e \in Range(edges) :
       /\ {e.src, e.dst} \subseteq DOMAIN nodes
       /\ e.weight \in EdgeWeights /\ e.kind \in {"production", "test"}

-----------------------------------------------------------------------------
Node(kind, path, crate) == [kind |-> kind, path |-> path, crate |-> crate]
Edge(a, b, weight, kind, locations) ==
  [src |-> a, dst |-> b, weight |-> weight, kind |-> kind, locations |-> locations]

Kind(n) == nodes[n].kind
CrateNodes == {n \in DOMAIN nodes : Kind(n) = "crate"}
ModuleNodes == {n \in DOMAIN nodes : Kind(n) = "module"}
PackageNodes == {n \in DOMAIN nodes : Kind(n) = "package"}
Members == CrateNodes \cup ModuleNodes

EdgeSet == Range(edges)
Out(n) == {e \in EdgeSet : e.src = n}
In(n) == {e \in EdgeSet : e.dst = n}

\* The edge that was added last, as a set of at most one.
FindEdge(a, b) ==
  LET places == {i \in DOMAIN edges : edges[i].src = a /\ edges[i].dst = b}
  IN  IF places = {} THEN {} ELSE {edges[Max(places)]}

IsProduction(e) == e.weight \in {"CrateDep", "ModuleDep"} /\ e.kind = "production"
IsProductionModuleDep(e) == e.weight = "ModuleDep" /\ e.kind = "production"
IsProductionCrateDep(e) == e.weight = "CrateDep" /\ e.kind = "production"
IsTestModuleDep(e) == e.weight = "ModuleDep" /\ e.kind = "test"
IsTestCrateDep(e) == e.weight = "CrateDep" /\ e.kind = "test"
IsCrateDep(e) == e.weight \in {"CrateDep", "DevDep"}
IsReexport(e) ==
  /\ IsProductionModuleDep(e)
  /\ e.locations # {}
  /\ \A l \in e.locations : l.reexport

OwningCrate(n) == nodes[n].crate
ContainsChild(a, b) == \E e \in Out(a) : e.dst = b /\ e.weight = "Contains"
ParentOf(n) == {e.src : e \in {f \in In(n) : f.weight = "Contains"}}

\* n and what holds it, from it upwards: a node's parent has a smaller index.
Chain(n) ==
  LET up[k \in Nat] == IF ParentOf(k) = {} THEN <<k>> ELSE <<k>> \o up[Max(ParentOf(k))]
  IN  up[n]
ContainmentSubtree(n) == {m \in DOMAIN nodes : n \in Range(Chain(m))}

\* As a set of at most one module.
DeepestCommonModule(ns) ==
  LET common == {m \in ModuleNodes : \A n \in ns : m \in Range(Chain(n))}
  IN  {m \in common : \A k \in common : k \in Range(Chain(m))}

\* The names that cross an edge, and whether some use has none. A re-export
\* counts only where all the uses are.
EdgeSymbols(locations) ==
  LET counted == {l \in locations : l.reexport => \A k \in locations : k.reexport}
  IN  [named |-> UNION {l.symbols : l \in counted},
       bare |-> \E l \in counted : l.symbols = {}]
Size(symbols) == Cardinality(symbols.named) + (IF symbols.bare THEN 1 ELSE 0)
SymbolsOf(a, b) ==
  EdgeSymbols(UNION {e.locations : e \in {f \in FindEdge(a, b) : f.weight = "ModuleDep"}})

-----------------------------------------------------------------------------
HasModules(c) == \E e \in Out(c) : e.weight = "Contains"

\* No crate depends on it, and it depends on production code itself.
IsEntryPoint(c) ==
  /\ ~\E e \in In(c) : IsCrateDep(e)
  /\ \E e \in Out(c) : IsProductionCrateDep(e) /\ e.dst \in CrateNodes

\* Mutant: a crate with modules is no anchor by itself.
AnchorsByEntry ==
  IF \E c \in CrateNodes : HasModules(c) THEN {c \in CrateNodes : IsEntryPoint(c)} ELSE CrateNodes

Anchors ==
  IF \E c \in CrateNodes : HasModules(c)
  THEN {c \in CrateNodes : HasModules(c) \/ IsEntryPoint(c)}
  ELSE CrateNodes

\* What is reached from S along the pairs of R.
ReachedFrom(S, R) ==
  LET reached[k \in Nat] ==
        IF k = 0 THEN S
        ELSE LET near == reached[k - 1] IN near \cup {p[2] : p \in {q \in R : q[1] \in near}}
  IN  reached[Cardinality({p[2] : p \in R})]

\* The crates that the diagram shows.
ProductionReachable ==
  IF \E e \in EdgeSet : IsTestCrateDep(e) THEN CrateNodes
  ELSE ReachedFrom(Anchors, {<<e.src, e.dst>> :
         e \in {f \in EdgeSet : IsProductionCrateDep(f) /\ {f.src, f.dst} \subseteq CrateNodes}})

\* The edges that the cycle analysis runs on.
ProductionSubgraph(reexports) ==
  {<<e.src, e.dst>> : e \in {f \in EdgeSet : IsProductionModuleDep(f) /\ (reexports \/ ~IsReexport(f))}}

=============================================================================

---------------------------- MODULE DiagramLayout ----------------------------
(***************************************************************************)
(* The layout of the diagram (src/src/layout/build.rs, jump.rs): graph and  *)
(* diagnosis become items from top to bottom, arcs between them, side tables*)
(* and the table of jump targets.                                           *)
(*                                                                         *)
(* An item's id is its place, an id of the jump table its entry's. What      *)
(* stable_toposort does with siblings is SiblingOrder's; here it may give    *)
(* every order that SiblingOrder allows.                                     *)
(***************************************************************************)
EXTENDS Diagnosis

VARIABLES
  sorted,     \* the children of each parent placed so far, from top to bottom
  ir,         \* the items, the arcs, and what hangs on them
  table       \* the jump targets, and the item each file belongs to

layoutVars == <<graphVars, diagnosisVars, sorted, ir, table>>

\* The parent of the crates, and of the packages.
Root == 0
Section == Len(nodes) + 1

LayoutStart ==
  /\ DiagnosisInit
  /\ sorted = [p \in {} |-> <<>>]
  /\ ir = [items |-> <<>>, arcs |-> <<>>, clusters |-> {}, localities |-> {},
           definitions |-> [d \in {} |-> 0]]
  /\ table = [entries |-> <<>>, nodeFiles |-> [f \in {} |-> 0]]

-----------------------------------------------------------------------------
ChildrenOf(p) ==
  IF p = Root THEN CrateNodes
  ELSE IF p = Section THEN PackageNodes
  ELSE {m \in ModuleNodes : ContainsChild(p, m)}

\* The children of p whose subtrees the edges E lead between.
SiblingPairs(p, E) ==
  LET of(n) ==
        IF p = Root THEN {OwningCrate(n)} \cap CrateNodes
        ELSE IF p = Section THEN {n} \cap PackageNodes
        ELSE {c \in ChildrenOf(p) : n \in ContainmentSubtree(c)}
  IN  {pair \in UNION {of(e.src) \X of(e.dst) : e \in E} : pair[1] # pair[2]}

\* build_sibling_dep_graph, order_crates above the modules and the packages'
\* ext_graph: the children that depend on each other in production.
DependencyPairs(p) ==
  SiblingPairs(p, {e \in EdgeSet : IF p = Root THEN IsProduction(e)
                                   ELSE IF p = Section THEN IsProductionCrateDep(e)
                                   ELSE IsProductionModuleDep(e)})

\* The test edges that add_soft_test_edges tries; the packages have none.
TestPairs(p) ==
  SiblingPairs(p, {e \in EdgeSet : IF p = Root THEN IsTestCrateDep(e)
                                   ELSE p # Section /\ IsTestModuleDep(e)})

\* Packages of which more edges tell come first; the others go by name.
NameOrder(p, c, d) ==
  LET uses(n) == Cardinality(In(n))
  IN  IF p = Section /\ uses(c) # uses(d) THEN uses(c) > uses(d) ELSE c < d

\* Mutant: the order of the names alone.
ReadingOrdersByName(p) == {SetToSortSeq(ChildrenOf(p), LAMBDA c, d : NameOrder(p, c, d))}

\* Mutant: test edges join whatever they close.
AllTestPairs(p) == {TestPairs(p)}

\* add_soft_test_edges: no test edge that joins closes a cycle, and each one
\* left out would. Which of two rivals joins is for SiblingOrder's weights.
JoinedTestPairs(p) ==
  {T \in SUBSET TestPairs(p) :
     \A t \in TestPairs(p) : t \in T <=> t[1] \notin ReachedFrom({t[2]}, DependencyPairs(p) \cup T)}

\* What SiblingOrder promises: a node before those it depends on, unless they
\* are tangled, and the order of the names where nothing depends on anything.
ReadingOrders(p) ==
  LET ordersUnder(R) ==
        IF R = {} THEN {SetToSortSeq(ChildrenOf(p), LAMBDA c, d : NameOrder(p, c, d))}
        ELSE {s \in SetToSeqs(ChildrenOf(p)) :
                \A i, j \in DOMAIN s : i < j /\ <<s[j], s[i]>> \in R => Tangled(R, s[i], s[j])}
  IN  UNION {ordersUnder(DependencyPairs(p) \cup T) : T \in JoinedTestPairs(p)}

\* order_crates, ordered_children and the externals' stable_toposort.
OrderSiblings ==
  LET parents == {0, Section} \cup Members
      open == parents \ DOMAIN sorted
  IN  /\ pc = "diagnosed" /\ open # {}
      /\ \E s \in ReadingOrders(Min(open)) : sorted' = sorted @@ (Min(open) :> s)
      /\ UNCHANGED <<graphVars, diagnosisVars, ir, table>>

-----------------------------------------------------------------------------
\* Inserting targets one after the other.
Insert(entries, places) == entries \o places
\* Mutant: an id counts from zero into a table that counts from one.
NewIdsFromZero(entries, places) == [i \in DOMAIN places |-> Len(entries) + i - 1]
NewIds(entries, places) == [i \in DOMAIN places |-> Len(entries) + i]

\* crate_targets and module_targets: the files a node jumps to.
FilesOf(n) ==
  CASE Kind(n) = "crate" -> ws.crates[n].files
    [] Kind(n) = "package" -> <<nodes[n].path>>
    [] OTHER -> LET f == ws.modules[n - Len(ws.crates)].file
                IN  IF f = NoItem THEN <<>> ELSE <<f>>
Targets(n) == [i \in DOMAIN FilesOf(n) |-> <<FilesOf(n)[i], 1>>]

PlaceOf(items, n) == {i \in DOMAIN items : items[i].node = n}

\* The reachable crates, each with its modules in preorder, then modules of
\* other crates.
OrderedItems ==
  LET subtree[n \in 1 .. Len(nodes)] == <<n>> \o FlattenSeq([i \in DOMAIN sorted[n] |-> subtree[sorted[n][i]]])
      crates == SelectSeq(sorted[Root], LAMBDA c : c \in ProductionReachable)
      claimed == FlattenSeq([i \in DOMAIN crates |-> subtree[crates[i]]])
  IN  claimed \o SetToSortSeq(ModuleNodes \ Range(claimed), <)

\* The component that holds n, named by its smallest node; 0 outside of cycles.
SccOf(n) ==
  LET scc == {s \in Sccs(Subgraph) : n \in s}
  IN  IF scc = {} THEN 0 ELSE Min(UNION scc)

Item(n, kind, parent, nesting, scc, targets) ==
  [node |-> n, kind |-> kind, parent |-> parent, nesting |-> nesting, scc |-> scc,
   targets |-> targets]

NestingDepth(n) == Len(Chain(n)) - 1

\* A module whose parent is not yet an item hangs under the first one.
AddItem(acc, n) ==
  LET parent == UNION {PlaceOf(acc.items, p) : p \in ParentOf(n)}
      ids == NewIds(acc.entries, Targets(n))
      item == IF Kind(n) = "crate" THEN Item(n, "Crate", 0, 0, SccOf(n), ids)
              ELSE Item(n, "Module", IF parent = {} THEN 1 ELSE Max(parent),
                        NestingDepth(n), SccOf(n), ids)
  IN  [items |-> Append(acc.items, item),
       entries |-> Insert(acc.entries, Targets(n)),
       nodeFiles |-> [f \in Range(FilesOf(n)) |-> Len(acc.items) + 1] @@ acc.nodeFiles]

\* A package on which a crate of the workspace depends itself.
IsDirect(n) == \E d \in ws.workspaceDeps : d[2] = n - Len(ws.crates) - Len(ws.modules)

\* Their files lie outside of the workspace: no file belongs to them.
AddExternalItem(acc, n) ==
  LET kind == IF IsDirect(n) THEN "ExternalCrate" ELSE "ExternalTransitive"
      section == Max({i \in DOMAIN acc.items : acc.items[i].kind = "ExternalSection"})
  IN  [acc EXCEPT
        !.items = Append(@, Item(n, kind, section, 0, 0, NewIds(acc.entries, Targets(n)))),
        !.entries = Insert(@, Targets(n))]

PopulateItems ==
  LET empty == [items |-> <<>>, entries |-> <<>>, nodeFiles |-> [f \in {} |-> 0]]
      workspace == FoldLeft(AddItem, empty, OrderedItems)
      header == [workspace EXCEPT !.items = Append(@, Item(Section, "ExternalSection", 0, 0, 0, <<>>))]
      all == IF PackageNodes = {} THEN workspace
             ELSE FoldLeft(AddExternalItem, header, sorted[Section])
  IN  /\ pc = "diagnosed" /\ {0, Section} \cup Members \subseteq DOMAIN sorted
      /\ pc' = "items"
      /\ ir' = [ir EXCEPT !.items = all.items]
      /\ table' = [entries |-> all.entries, nodeFiles |-> all.nodeFiles]
      /\ UNCHANGED <<ws, nodes, edges, moduleMap, diagnosisVars, sorted>>

-----------------------------------------------------------------------------
\* The crates between which modules depend on each other.
SuppressedCratePairs ==
  {<<OwningCrate(e.src), OwningCrate(e.dst)>> : e \in {f \in EdgeSet : f.weight = "ModuleDep"}}

\* compute_cycle_info; a cycle stands for its id.
CycleInfo(e) ==
  LET ids == {c \in analysis : <<e.src, e.dst>> \in CycleEdges(c)}
      back == \E f \in FindEdge(e.dst, e.src) : f.weight = "ModuleDep"
  IN  IF ids = {} THEN [cycle |-> "None", ids |-> {}, scc |-> 0]
      ELSE [cycle |-> IF e.weight = "ModuleDep" /\ back THEN "Direct" ELSE "Transitive",
            ids |-> ids, scc |-> SccOf(e.src)]

\* Whether an edge is drawn, as far as its ends are.
IsDrawn(e) ==
  \/ e.weight = "ModuleDep"
  \/ e.weight = "CrateDep" /\ <<e.src, e.dst>> \notin SuppressedCratePairs

PlacesOf(locations) == [i \in DOMAIN locations |-> locations[i].at]

\* Each location with the id that it gets in the table.
LocateSources(entries, locations) ==
  LET ids == NewIds(entries, PlacesOf(locations))
  IN  [i \in DOMAIN locations |-> [location |-> locations[i], id |-> ids[i]]]

LayoutEdge(from, to, e, sources) ==
  [from |-> from, to |-> to, kind |-> e.kind, reexport |-> IsReexport(e), sources |-> sources]
    @@ CycleInfo(e)

AddArc(acc, e) ==
  LET from == PlaceOf(ir.items, e.src)
      to == PlaceOf(ir.items, e.dst)
      locations == SetToSeq(e.locations)
      arc == LayoutEdge(Max(from), Max(to), e, LocateSources(acc.entries, locations))
  IN  IF ~IsDrawn(e) \/ {} \in {from, to} THEN acc
      ELSE [arcs |-> Append(acc.arcs, arc),
            entries |-> Insert(acc.entries, PlacesOf(locations))]

PopulateEdges ==
  LET all == FoldLeft(AddArc, [arcs |-> <<>>, entries |-> table.entries], edges)
  IN  /\ pc = "items"
      /\ pc' = "edges"
      /\ ir' = [ir EXCEPT !.arcs = all.arcs]
      /\ table' = [table EXCEPT !.entries = all.entries]
      /\ UNCHANGED <<ws, nodes, edges, moduleMap, diagnosisVars, sorted>>

-----------------------------------------------------------------------------
RotateToMin(c, rank) ==
  LET first == CHOOSE i \in DOMAIN c : \A j \in DOMAIN c : rank[c[i]] <= rank[c[j]]
  IN  SubSeq(c, first, Len(c)) \o SubSeq(c, 1, first - 1)

\* order_cycle_blocks: by start, then length, then the rest.
CycleBlocks(cycles, rank) ==
  LET key(b) == <<rank[b[1]], Len(b)>> \o [i \in 1 .. (Len(b) - 1) |-> rank[b[i + 1]]]
  IN  SetToSortSeq({RotateToMin(c, rank) : c \in cycles}, LAMBDA b, d : LexLess(key(b), key(d)))

\* Of one cluster; cycles: the edges of each, by their ends' places.
ClusterInfo(c, cycles) ==
  [scc |-> Min(c.nodes), crate |-> c.crate, moduleCount |-> Cardinality(c.nodes),
   cycleCount |-> Cardinality(c.cycles), cycles |-> cycles]

AttachClusters ==
  LET rank == [n \in UNION {Range(c) : c \in analysis} |->
                 IF PlaceOf(ir.items, n) = {} THEN Len(ir.items) + 1 ELSE Max(PlaceOf(ir.items, n))]
      block(b) == [i \in DOMAIN b |-> <<rank[b[i]], rank[b[(i % Len(b)) + 1]]>>]
      blocks(c) == LET ordered == CycleBlocks(c.cycles, rank)
                   IN  [i \in DOMAIN ordered |-> block(ordered[i])]
  IN  /\ pc = "edges"
      /\ pc' = "clusters"
      /\ ir' = [ir EXCEPT !.clusters = {ClusterInfo(c, blocks(c)) : c \in Range(report)}]
      /\ UNCHANGED <<ws, nodes, edges, moduleMap, diagnosisVars, sorted, table>>

\* A home that is not laid out leaves the symbol used across the crate.
AttachSymbolLocalities ==
  LET places(ns) == UNION {PlaceOf(ir.items, n) : n \in ns}
      shown(g) == places(g.home)
  IN  /\ pc = "clusters"
      /\ pc' = "localities"
      /\ ir' = [ir EXCEPT !.localities =
           {[provider |-> Max(PlaceOf(ir.items, g.provider)), symbols |-> g.symbols,
             consumers |-> places(g.consumers), home |-> shown(g),
             locality |-> IF shown(g) = {} THEN "CrateWide" ELSE g.locality] :
               g \in {h \in localities : PlaceOf(ir.items, h.provider) # {}}}]
      /\ UNCHANGED <<ws, nodes, edges, moduleMap, diagnosisVars, sorted, table>>

\* The provider, symbol and line of what an arc leads to, where the module that
\* it enters defines it.
DefinitionsOf(arc) ==
  LET n == ir.items[arc.to].node
      m == ws.modules[n - Len(ws.crates)]
      symbols == UNION {s.location.symbols : s \in Range(arc.sources)}
  IN  IF ir.items[arc.to].kind # "Module" \/ FilesOf(n) = <<>> THEN <<>>
      ELSE SetToSeq({[at |-> <<m.file, m.definitions[s]>>, provider |-> arc.to, symbol |-> s] :
                       s \in symbols \cap DOMAIN m.definitions})

\* One target for each symbol of a provider, at the first arc that needs it.
AddDefinition(acc, d) ==
  IF <<d.provider, d.symbol>> \in DOMAIN acc.definitions THEN acc
  ELSE [definitions |-> (<<d.provider, d.symbol>> :> Len(acc.entries) + 1) @@ acc.definitions,
        entries |-> Append(acc.entries, d.at)]

AttachSymbolDefinitions ==
  LET wanted == FlattenSeq([i \in DOMAIN ir.arcs |-> DefinitionsOf(ir.arcs[i])])
      all == FoldLeft(AddDefinition, [definitions |-> ir.definitions, entries |-> table.entries], wanted)
  IN  /\ pc = "localities"
      /\ pc' = "laid"
      /\ ir' = [ir EXCEPT !.definitions = all.definitions]
      /\ table' = [table EXCEPT !.entries = all.entries]
      /\ UNCHANGED <<ws, nodes, edges, moduleMap, diagnosisVars, sorted>>

BuildLayout ==
  \/ OrderSiblings
  \/ PopulateItems
  \/ PopulateEdges
  \/ AttachClusters
  \/ AttachSymbolLocalities
  \/ AttachSymbolDefinitions

-----------------------------------------------------------------------------
\* Whether item i lies in the block of item p.
Inside(i, p) == i > p /\ \A k \in (p + 1) .. i : ir.items[k].nesting > ir.items[p].nesting
Subtree(p) == {p} \cup {i \in DOMAIN ir.items : Inside(i, p)}

IdsAt(place) == {i \in DOMAIN table.entries : table.entries[i] = place}

(***************************************************************************)
(* Every dependency between two items is drawn, and once: a production      *)
(* dependency of modules as an arc that names its uses, one of crates as an *)
(* arc between them or between their modules. No crate of the workspace is  *)
(* left out that a crate shown depends on, and every module of a crate is   *)
(* shown under it (suppressed_crate_pairs, production_reachable,            *)
(* order_items).                                                            *)
(***************************************************************************)
EveryDependencyDrawn ==
  pc = "edges" =>
    LET shown == {i.node : i \in Range(ir.items)} \cap DOMAIN nodes
        place(n) == Max(PlaceOf(ir.items, n))
        arcs(S, T) == {i \in DOMAIN ir.arcs : ir.arcs[i].from \in S /\ ir.arcs[i].to \in T}
    IN  /\ ModuleNodes \cup PackageNodes \subseteq shown
        /\ \A m \in ModuleNodes : ParentOf(m) \subseteq shown /\ place(m) \in Subtree(place(Max(ParentOf(m))))
        /\ \A e \in EdgeSet : IsProductionModuleDep(e) /\ e.src \in shown =>
             \E i \in arcs({place(e.src)}, {place(e.dst)}) :
               {s.location : s \in Range(ir.arcs[i].sources)} = e.locations
        /\ \A e \in EdgeSet : IsProductionCrateDep(e) /\ e.src \in shown =>
             /\ e.dst \in shown
             /\ e.dst \in CrateNodes => arcs(Subtree(place(e.src)), Subtree(place(e.dst))) # {}
             /\ e.dst \in PackageNodes => arcs({place(e.src)}, {place(e.dst)}) # {}
        /\ \A i \in DOMAIN ir.arcs : arcs({ir.arcs[i].from}, {ir.arcs[i].to}) = {i}

(***************************************************************************)
(* GLOSSARY.md, "Reading order": an arc between two modules points down the *)
(* page unless the subtrees in which they lie, side by side, depend on each *)
(* other both ways, in production for an arc of production code, with their *)
(* tests for any other one (add_soft_test_edges).                           *)
(***************************************************************************)
ArcsPointDown ==
  pc = "edges" =>
    \A a \in Range(ir.arcs) : a.from > a.to =>
      LET u == ir.items[a.from].node
          v == ir.items[a.to].node
          sides == {<<x, y>> \in Range(Chain(u)) \X Range(Chain(v)) :
                      x # y /\ \E p \in DOMAIN sorted : {x, y} \subseteq Range(sorted[p])}
          counted(p) == DependencyPairs(p) \cup (IF a.kind = "production" THEN {} ELSE TestPairs(p))
      IN  v \in Range(Chain(u)) \/ \E s \in sides :
            \E p \in DOMAIN sorted :
              {s[1], s[2]} \subseteq Range(sorted[p]) /\ Tangled(counted(p), s[1], s[2])

(***************************************************************************)
(* A target that the page shows resolves to the place that it names, no two *)
(* of them share an id, and a file that an item jumps to belongs to an item *)
(* that jumps to it: a request sends the id, the editor's cursor the place, *)
(* and the table answers both (JumpTable).                                  *)
(***************************************************************************)
TargetsResolve ==
  pc = "laid" =>
    LET sources == UNION {Range(a.sources) : a \in Range(ir.arcs)}
        shown == {<<s.id, s.location.at>> : s \in sources}
          \cup UNION {{<<i.targets[k], Targets(i.node)[k]>> : k \in DOMAIN i.targets} :
                        i \in {j \in Range(ir.items) : j.kind # "ExternalSection"}}
          \cup {<<ir.definitions[d],
                  LET m == ws.modules[ir.items[d[1]].node - Len(ws.crates)]
                  IN  <<m.file, m.definitions[d[2]]>>>> : d \in DOMAIN ir.definitions}
    IN  /\ \A t \in shown : t[1] \in IdsAt(t[2])
        /\ {t[1] : t \in shown} = DOMAIN table.entries
        /\ \A i \in DOMAIN ir.items : ir.items[i].kind \in {"Crate", "Module"} =>
             \A f \in Range(FilesOf(ir.items[i].node)) :
               f \in Range(FilesOf(ir.items[table.nodeFiles[f]].node))

=============================================================================

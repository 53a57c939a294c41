------------------------------- MODULE ArcPage -------------------------------
(***************************************************************************)
(* The page of the diagram (src/src/render/mod.rs, elements.rs,             *)
(* positioning.rs, static_data.rs, toolbar.rs, theme.rs): what a layout is  *)
(* drawn as, what the page's script is told about it, and the state the     *)
(* page starts in.                                                          *)
(*                                                                         *)
(* A layout d has items, arcs, clusters, localities and definitions as      *)
(* DiagramLayout makes them. Coordinates are left out, except for rows; so  *)
(* are markup, colours and labels.                                          *)
(***************************************************************************)
EXTENDS Integers, Sequences, FiniteSets, FiniteSetsExt, SequencesExt, Functions, TLC

\* No expand level: everything starts expanded.
Unlimited == 0 - 1

\* RenderConfig: what the caller chooses.
Plain ==
  [level |-> Unlimited, served |-> FALSE, document |-> "Svg", switches |-> {}, theme |-> "none"]
ServedWith(switches) == [Plain EXCEPT !.served = TRUE, !.document = "Page", !.switches = switches]

-----------------------------------------------------------------------------
\* Which items are parents, how deep an item is, and what lies above it.
Parents(d) == {i.parent : i \in Range(d.items)} \ {0}
ItemNesting(item) ==
  CASE item.kind \in {"Crate", "ExternalSection"} -> 0
    [] item.kind = "Module" -> item.nesting
    [] OTHER -> 1
AncestorsOf(d, i) ==
  LET above[k \in 0 .. Len(d.items)] ==
        IF k = 0 \/ d.items[k].parent = 0 THEN {} ELSE {d.items[k].parent} \cup above[d.items[k].parent]
  IN  above[i]

\* render: the items down to the level, and the parents at it or below it.
VisibleItems(d, level) ==
  {i \in DOMAIN d.items : level = Unlimited \/ ItemNesting(d.items[i]) <= level}
\* Mutant: a parent at the level itself stays open.
CollapsedBelow(d, level) == {p \in Parents(d) : level # Unlimited /\ ItemNesting(d.items[p]) > level}
CollapsedParents(d, level) == {p \in Parents(d) : level # Unlimited /\ ItemNesting(d.items[p]) >= level}

\* collapse_positions: what is shown has no gaps, what is hidden its own row.
RowOf(visible, i) == IF i \in visible THEN Cardinality({j \in visible : j <= i}) ELSE i

RowsSpanned(visible, arc) ==
  LET rows == RowOf(visible, arc.to) - RowOf(visible, arc.from)
  IN  Max({1, rows, 0 - rows})

\* calculate_canvas_size, calculate_max_arc_width: of what is shown.
Canvas(d, visible) ==
  LET drawn == {a \in Range(d.arcs) : {a.from, a.to} \subseteq visible}
  IN  [rows |-> Cardinality(visible),
       indents |-> Max({0} \cup {ItemNesting(d.items[i]) : i \in visible}),
       widest |-> Max({0} \cup {RowsSpanned(visible, a) : a \in drawn})]

-----------------------------------------------------------------------------
\* Packages hang in their section without lines.
TreeLines(d, visible) ==
  {<<d.items[i].parent, i>> : i \in {k \in visible : d.items[k].kind = "Module" /\ d.items[k].parent \in visible}}

\* CycleMarks::from_ir.
OnCycle(d) == UNION {{a.from, a.to} : a \in {b \in Range(d.arcs) : b.ids # {}}}
\* Mutant: the parents alone.
AboveCycleByParent(d) == {d.items[i].parent : i \in OnCycle(d)} \ {0}
AboveCycle(d) == UNION {AncestorsOf(d, i) : i \in OnCycle(d)}

ChildCount(d, p) == Cardinality({i \in DOMAIN d.items : d.items[i].parent = p})

\* render_nodes, label_classes, render_collapse_toggle: an item's box, its
\* label with its classes, and the toggle and the count of a parent.
NodeElement(d, visible, collapsed, i) ==
  LET closed == i \in collapsed
      hidesCycle == closed /\ i \in AboveCycle(d)
  IN  [kind |-> d.items[i].kind, row |-> RowOf(visible, i), parent |-> d.items[i].parent,
       hidden |-> i \notin visible,
       toggle |-> IF i \notin Parents(d) THEN "none" ELSE IF closed THEN "+" ELSE "-",
       count |-> IF closed THEN ChildCount(d, i) ELSE 0,
       label |-> {"label"} \cup (IF i \notin visible THEN {"collapsed"} ELSE {})
                   \cup (IF i \in OnCycle(d) THEN {"cycle-node"} ELSE {})
                   \cup (IF hidesCycle THEN {"hides-cycle"} ELSE {})]

Direction(arc) == IF arc.from < arc.to THEN "downward" ELSE "upward"

\* arc_attrs: one type for each arc, by which it is filtered.
ArcType(d, arc) ==
  CASE arc.reexport -> "reexport"
    [] ~arc.reexport /\ {d.items[arc.from].kind, d.items[arc.to].kind}
                          \subseteq {"Crate", "ExternalCrate", "ExternalTransitive"} -> "crate-dep"
    [] OTHER -> "module-dep"

\* render_edges, arc_attrs, render_arrow: the curve, its arrows and its
\* hit area share these classes.
ArcElement(d, visible, arc) ==
  [from |-> arc.from, to |-> arc.to, direction |-> Direction(arc), type |-> ArcType(d, arc),
   filtered |-> arc.reexport,
   collapsed |-> ~({arc.from, arc.to} \subseteq visible),
   onCycle |-> arc.cycle # "None", cycles |-> arc.ids,
   arrows |-> IF arc.cycle = "Direct" THEN {arc.from, arc.to} ELSE {arc.to}]

\* What is drawn later lies in front: test code, then down, up, and on a cycle.
DrawingOrder(d) ==
  LET layer(a) == CASE a.kind # "production" -> 0
                    [] a.kind = "production" /\ a.cycle # "None" -> 3
                    [] OTHER -> IF Direction(a) = "downward" THEN 1 ELSE 2
      of(k) == SelectSeq(d.arcs, LAMBDA a : layer(a) = k)
  IN  of(0) \o of(1) \o of(2) \o of(3)

-----------------------------------------------------------------------------
\* ToolbarFacts and toolbar_content: the boxes with what they start as, and
\* the buttons. Only a served page has switches, and an editor to follow.
Toolbar(d, config) ==
  LET kinds == {i.kind : i \in Range(d.items)}
      external == "ExternalSection" \in kinds
      transitive == external /\ "ExternalTransitive" \in kinds
  IN  [button |-> IF CollapsedParents(d, config.level) # {} THEN "Expand All" ELSE "Collapse All",
       boxes |-> [b \in {"crate-dep", "module-dep", "reexport", "cycles"}
                          \cup (IF external THEN {"external"} ELSE {})
                          \cup (IF transitive THEN {"transitive"} ELSE {}) |-> b # "reexport"],
       pressed |-> IF config.served
                   THEN [b \in {"externals", "tests", "follow", "on-save"} |->
                           b \in config.switches \cup {"follow", "on-save"}]
                   ELSE [b \in {} |-> FALSE]]

\* close_with_overlays: a page's hosts stand beside the drawing.
Document(config) ==
  IF config.document = "Page" THEN <<"svg", "end", "toolbar", "sidebar", "script">>
  ELSE <<"svg", "toolbar", "sidebar", "script", "end">>

\* Appearance::root_attributes: the editor's mode goes before a pinned theme
\* of the other one.
RootAttributes(theme, mode) ==
  [mode |-> mode,
   theme |-> IF theme # "none" /\ (mode = "none" \/ theme[2] = mode) THEN theme ELSE "none"]

-----------------------------------------------------------------------------
\* generate_static_data.
NodeData(d, config, i) ==
  LET item == d.items[i]
  IN  [type |-> item.kind, parent |-> item.parent, hasChildren |-> i \in Parents(d),
       nesting |-> ItemNesting(item), scc |-> item.scc,
       targets |-> IF config.served THEN item.targets ELSE <<>>]

\* format_source_locations_by_symbol: the places of each symbol, "" for those
\* without one. Mutant: a symbol is a re-export if one place re-exports it.
UsagesByAnyPlace(arc, config) ==
  LET symbols(s) == IF s.location.symbols = {} THEN {""} ELSE s.location.symbols
      places(x) == {s \in Range(arc.sources) : x \in symbols(s)}
  IN  [x \in UNION {symbols(s) : s \in Range(arc.sources)} |->
         [viaReexport |-> x # "" /\ \E s \in places(x) : s.location.reexport,
          places |-> {[at |-> s.location.at, jump |-> IF config.served THEN {s.id} ELSE {}] : s \in places(x)}]]
Usages(arc, config) ==
  LET symbols(s) == IF s.location.symbols = {} THEN {""} ELSE s.location.symbols
      places(x) == {s \in Range(arc.sources) : x \in symbols(s)}
  IN  [x \in UNION {symbols(s) : s \in Range(arc.sources)} |->
         [viaReexport |-> x # "" /\ \A s \in places(x) : s.location.reexport,
          places |-> {[at |-> s.location.at, jump |-> IF config.served THEN {s.id} ELSE {}] : s \in places(x)}]]

\* attach_definitions: where the provider defines the symbol, if it is known.
SymbolDefinition(d, arc, config, x) ==
  IF config.served /\ <<arc.to, x>> \in DOMAIN d.definitions THEN {d.definitions[<<arc.to, x>>]} ELSE {}

ArcData(d, config, arc) ==
  LET usages == Usages(arc, config)
  IN  [from |-> arc.from, to |-> arc.to, kind |-> arc.kind, cycles |-> arc.ids, scc |-> arc.scc,
       usages |-> [x \in DOMAIN usages |-> usages[x] @@ [definition |-> SymbolDefinition(d, arc, config, x)]]]

\* The cycles are put together from the arcs that are on them.
CycleData(d) ==
  LET on(c) == {a \in Range(d.arcs) : c \in a.ids}
  IN  [c \in UNION {a.ids : a \in Range(d.arcs)} |->
         [nodes |-> UNION {{a.from, a.to} : a \in on(c)},
          arcs |-> {<<a.from, a.to>> : a \in on(c)},
          sccs |-> {a.scc : a \in on(c)} \ {0}]]

StaticData(d, config) ==
  [nodes |-> [i \in DOMAIN d.items |-> NodeData(d, config, i)],
   arcs |-> [p \in {<<a.from, a.to>> : a \in Range(d.arcs)} |->
               ArcData(d, config, d.arcs[Max({k \in DOMAIN d.arcs : <<d.arcs[k].from, d.arcs[k].to>> = p})])],
   cycles |-> CycleData(d), clusters |-> d.clusters, localities |-> d.localities,
   expandLevel |-> config.level]

\* render and render_script.
RenderPage(d, config) ==
  LET visible == VisibleItems(d, config.level)
      collapsed == CollapsedParents(d, config.level)
      order == DrawingOrder(d)
  IN  [document |-> Document(config), theme |-> config.theme, canvas |-> Canvas(d, visible),
       treeLines |-> TreeLines(d, visible),
       nodes |-> [i \in DOMAIN d.items |-> NodeElement(d, visible, collapsed, i)],
       arcs |-> [k \in DOMAIN order |-> ArcElement(d, visible, order[k])],
       toolbar |-> Toolbar(d, config), data |-> StaticData(d, config)]

-----------------------------------------------------------------------------
(***************************************************************************)
(* The page starts as its script would have drawn it: what lies below a     *)
(* closed parent is hidden and nothing else is, the rows have no gaps, an   *)
(* arc is shown with both its ends. No cycle goes unseen: an end of its     *)
(* arcs is marked, or the closed parent in front of it is (render,          *)
(* collapse_positions, CycleMarks; computeCurrentPositions in the script).  *)
(***************************************************************************)
FirstViewIsWhole(d, page) ==
  LET closed == {i \in DOMAIN page.nodes : page.nodes[i].toggle = "+"}
      shown == {i \in DOMAIN page.nodes : ~page.nodes[i].hidden}
      front(i) == IF i \in shown THEN i ELSE Min(AncestorsOf(d, i) \cap closed)
  IN  /\ \A i \in DOMAIN page.nodes : i \in shown <=> AncestorsOf(d, i) \cap closed = {}
      /\ {page.nodes[i].row : i \in shown} = 1 .. page.canvas.rows
      /\ \A i, j \in shown : i < j => page.nodes[i].row < page.nodes[j].row
      /\ \A k \in DOMAIN page.arcs :
           /\ ~page.arcs[k].collapsed <=> {page.arcs[k].from, page.arcs[k].to} \subseteq shown
           /\ page.arcs[k].cycles # {} => \A i \in {page.arcs[k].from, page.arcs[k].to} :
                page.nodes[front(i)].label \cap {"cycle-node", "hides-cycle"} # {}
      /\ page.toolbar.button = "Expand All" <=> closed # {}

(***************************************************************************)
(* What the script is told fits together: a cycle has all its arcs, closed  *)
(* and within one cluster (the page data's "every cycle lies in an SCC"),   *)
(* an arc of a cluster is on a cycle, a cluster's blocks are arcs of the    *)
(* page, and a use that would be dropped from the view of cycles as a       *)
(* re-export is at no place an import (compute_cycle_info,                  *)
(* generate_static_data, format_source_locations_by_symbol).               *)
(***************************************************************************)
PageDataIsWhole(d, page) ==
  LET data == page.data
      blocks == UNION {Range(c.cycles) : c \in data.clusters}
  IN  /\ \A c \in DOMAIN data.cycles :
           LET arcs == data.cycles[c].arcs
           IN  /\ Cardinality(data.cycles[c].sccs) = 1
               /\ \A n \in data.cycles[c].nodes :
                    /\ Cardinality({a \in arcs : a[1] = n}) = 1 /\ Cardinality({a \in arcs : a[2] = n}) = 1
                    /\ {data.nodes[n].scc} = data.cycles[c].sccs
      /\ \A a \in DOMAIN data.arcs : data.arcs[a].scc # 0 => data.arcs[a].cycles # {}
      /\ \A b \in blocks : \E c \in DOMAIN data.cycles : Range(b) = data.cycles[c].arcs
      /\ \A a \in Range(d.arcs) : \A s \in Range(a.sources) : \A x \in s.location.symbols :
           LET use == data.arcs[<<a.from, a.to>>].usages[x]
           IN  /\ use.viaReexport => s.location.reexport
               /\ \E p \in use.places : p.at = s.location.at

=============================================================================

------------------------------- MODULE ArcView -------------------------------
(***************************************************************************)
(* What the reader of the diagram's page does to it (src/js/svg_script.js   *)
(* with app_state.js, derived_state.js, virtual_edge_logic.js, tree_logic,  *)
(* row_state.js, sidebar.js and view_snapshot.js): nodes are collapsed and  *)
(* expanded, filters are ticked, nodes and arcs are pinned, the editor      *)
(* focuses a node, and after a recomputation the page reloads and takes its *)
(* view along.                                                              *)
(*                                                                         *)
(* A page is one of ArcPage with the names of its nodes. Its elements keep  *)
(* their own classes beside the state they are derived from, and every      *)
(* handler changes some of both. Hovering, search, scrolling and colours    *)
(* are left out.                                                            *)
(***************************************************************************)
EXTENDS ArcPage

CONSTANT Pages        \* the diagrams of one service, before and after a save

\* compute_cycle_info: an arc gets its cluster with its cycles.
ASSUME PagesAssumption ==
  \A p \in Pages : \A a \in DOMAIN p.data.arcs : p.data.arcs[a].scc # 0 => p.data.arcs[a].cycles # {}

VARIABLES page,       \* the document and its STATIC_DATA
          view,       \* what is closed and filtered, and the classes of the document's elements
          chosen,     \* AppState's pin and cluster, the rows of its table, the sidebar
          stored      \* the view kept in the session's storage

vars == <<page, view, chosen, stored>>

NotStarted == [collapsed |-> {}]     \* the page's script has not run
Nothing == <<"nothing">>
ThisNode(n) == <<"node", n>>
ThisArc(a) == <<"arc", a>>
Summary(a) == <<"summary", a>>
Cluster(scc) == <<"cluster", scc>>

-----------------------------------------------------------------------------
\* StaticData.
Nodes == DOMAIN page.data.nodes
Arcs == DOMAIN page.data.arcs
ParentOf(n) == page.data.nodes[n].parent
ParentNodes == {n \in Nodes : page.data.nodes[n].hasChildren}
OfType(types) == {n \in Nodes : page.data.nodes[n].type \in types}
ArcsAt(nodes) == {a \in Arcs : {a[1], a[2]} \cap nodes # {}}
ExternalTypes == {"ExternalSection", "ExternalCrate", "ExternalTransitive"}
SccOf(a) == IF a \in Arcs THEN page.data.arcs[a].scc ELSE 0
RowsOfCluster(scc) == {a \in Arcs : scc # 0 /\ SccOf(a) = scc /\ page.data.arcs[a].cycles # {}}

\* TreeLogic.
Above(n) ==
  LET above[k \in {0} \cup Nodes] == IF k = 0 \/ ParentOf(k) = 0 THEN {} ELSE {ParentOf(k)} \cup above[ParentOf(k)]
  IN  above[n]
Descendants(n) == {m \in Nodes : n \in Above(m)}

\* getVisibleAncestor. Mutant: the nearest collapsed node, seen or not.
FrontOfNearest(collapsed, n) ==
  LET closed == Above(n) \cap collapsed IN IF closed = {} THEN n ELSE Max(closed)
FrontOf(collapsed, n) ==
  LET front[k \in Nodes] ==
        LET p == ParentOf(k)
        IN  CASE p = 0 -> k
              [] p # 0 /\ p \in collapsed -> front[p]
              [] OTHER -> IF front[p] # p THEN front[p] ELSE k
  IN  front[n]

\* deriveNodeVisibility.
OnScreen(v) == {n \in Nodes \ v.filtered : FrontOf(v.collapsed, n) = n}

-----------------------------------------------------------------------------
(***************************************************************************)
(* relayout, recalculateVirtualEdges, aggregateHiddenEdges: an arc without  *)
(* both ends on screen is not drawn; what the ends' fronts have in common   *)
(* is summed up in an arc of its own, with the same kind of id as the arcs  *)
(* of the page.                                                             *)
(***************************************************************************)
Relayout(v) ==
  LET shown == OnScreen(v)
      hidden == {a \in Arcs : ~({a[1], a[2]} \subseteq shown)}
      ends(a) == <<FrontOf(v.collapsed, a[1]), FrontOf(v.collapsed, a[2])>>
      keys == {e \in {ends(a) : a \in hidden} : e[1] # e[2] /\ {e[1], e[2]} \subseteq shown}
  IN  [v EXCEPT !.undrawn = hidden,
                !.summaries = [e \in keys |->
                   [of |-> {a \in hidden : ends(a) = e}, filtered |-> FALSE]]]

\* setCollapsed: descendants under another collapsed node stay hidden.
\* Mutant: they all appear.
SetCollapsedForgetful(v, n, closing) ==
  [v EXCEPT !.collapsed = IF closing THEN @ \cup {n} ELSE @ \ {n},
            !.folded = IF closing THEN @ \cup Descendants(n) ELSE @ \ Descendants(n)]
SetCollapsed(v, n, closing) ==
  LET freed == {m \in Descendants(n) : Above(m) \cap v.collapsed \subseteq {n}}
  IN  [v EXCEPT !.collapsed = IF closing THEN @ \cup {n} ELSE @ \ {n},
                !.folded = IF closing THEN @ \cup Descendants(n) ELSE @ \ freed]

\* refreshPinnedSidebar.
RefreshSidebar(c) == [c EXCEPT !.sidebar = IF c.pin[1] = "node" THEN c.pin ELSE @]

ToggleCollapse(v, n) == Relayout(SetCollapsed(v, n, n \notin v.collapsed))

\* toggleCollapseAll does what the button says.
ToggleCollapseAll(v) ==
  LET closing == v.button = "Collapse All"
      under == UNION {Descendants(p) : p \in ParentNodes}
      all == [v EXCEPT !.collapsed = IF closing THEN @ \cup ParentNodes ELSE @ \ ParentNodes,
                       !.folded = IF closing THEN @ \cup under ELSE @ \ under,
                       !.button = IF closing THEN "Expand All" ELSE "Collapse All"]
  IN  Relayout(all)

-----------------------------------------------------------------------------
\* arcFilters: the boxes that cover an arc, read off its classes.
Covering(a) ==
  LET drawn == CHOOSE e \in Range(page.arcs) : <<e.from, e.to>> = a
  IN  {drawn.type} \cup (IF drawn.onCycle THEN {"cycles"} ELSE {})

(***************************************************************************)
(* recomputeArcVisibility, matchesActiveFilters. The elements of an arc are *)
(* looked up in a cache by id, in which a summary of the same id takes the  *)
(* arc's place (cacheArcElements, getArc): it has no type, and the arc's    *)
(* own path and arrows are not reached. Summaries follow the module         *)
(* dependencies.                                                            *)
(***************************************************************************)
RecomputeArcs(v) ==
  LET cached == DOMAIN v.summaries
      visible == {a \in Arcs \ cached : {a[1], a[2]} \cap v.filtered = {} /\ Covering(a) \cap v.checked # {}}
  IN  [v EXCEPT !.unpainted = (@ \cap cached) \cup (Arcs \ (visible \cup cached)),
                !.untouchable = Arcs \ visible,
                !.hiddenArcs = Arcs \ visible,
                !.summaries = [e \in cached |-> [@[e] EXCEPT !.filtered = "module-dep" \notin v.checked]]]

Tick(v, box) == [v EXCEPT !.checked = IF box \in @ THEN @ \ {box} ELSE @ \cup {box}]

\* toggleFilterCheckbox, toggleClusterMode: the mode is the box of the cycles.
ToggleFilter(v, box) == RecomputeArcs(Tick(v, box))
ClusterMode(v) == "cycles" \in v.checked

\* toggleFilteredNodes: the nodes, and the arcs at them whatever their type.
ToggleNodes(v, on, nodes) ==
  LET arcs == ArcsAt(nodes)
      turn(S, these) == IF on THEN S \ these ELSE S \cup these
  IN  Relayout([v EXCEPT !.filtered = turn(@, nodes),
                         !.unpainted = turn(@, arcs \ DOMAIN v.summaries),
                         !.untouchable = turn(@, arcs), !.hiddenArcs = turn(@, arcs)])

\* toggleExternalDepVisibility takes the transitive box along.
ToggleExternals(v) ==
  LET ticked == Tick(v, "external")
      on == "external" \in ticked.checked
      shown == ToggleNodes(ticked, on, OfType(ExternalTypes))
  IN  [shown EXCEPT !.checked = IF on THEN @ \cup ({"transitive"} \cap DOMAIN page.toolbar.boxes)
                                ELSE @ \ {"transitive"}]

\* toggleTransitiveDepVisibility needs the external box.
ToggleTransitive(v) ==
  LET ticked == Tick(v, "transitive")
  IN  IF "external" \notin v.checked THEN v
      ELSE ToggleNodes(ticked, "transitive" \in ticked.checked, OfType({"ExternalTransitive"}))

ToggleBox(v, box) ==
  CASE box = "external" -> ToggleExternals(v)
    [] box = "transitive" -> ToggleTransitive(v)
    [] OTHER -> ToggleFilter(v, box)

-----------------------------------------------------------------------------
\* AppState.create.
NothingChosen == [pin |-> Nothing, scc |-> 0, rows |-> {}, sidebar |-> Nothing]

\* AppState.toggleSelection.
TogglePin(c, what) == [c EXCEPT !.pin = IF @ = what THEN Nothing ELSE what]

\* _enterScc. Mutant: the rows stay open.
EnterSccKeepingRows(c, scc) == [c EXCEPT !.scc = scc]
EnterScc(c, scc) == IF c.scc = scc THEN c ELSE [c EXCEPT !.scc = scc, !.rows = {}]

\* RowState: a row is open or not and pinned or not.
Pinned(c, a) == [c EXCEPT !.rows = IF c.pin = ThisArc(a) THEN @ ELSE @ \cup {a}, !.pin = ThisArc(a)]
Unpinned(c, a) == [c EXCEPT !.pin = IF @ = ThisArc(a) THEN Nothing ELSE @]

(***************************************************************************)
(* AppState.clickEdge: the first click on an arc of a cluster selects the   *)
(* cluster, the next ones pin its arcs; another cluster opens afresh.       *)
(***************************************************************************)
ClickEdge(c, a) ==
  LET scc == SccOf(a)
  IN  CASE scc = 0 -> TogglePin(EnterScc(c, 0), ThisArc(a))
        [] scc # 0 /\ c.scc = 0 -> EnterScc(c, scc)
        [] scc # 0 /\ c.scc = scc -> IF c.pin = ThisArc(a) THEN Unpinned(c, a) ELSE Pinned(c, a)
        [] OTHER -> [EnterScc(c, scc) EXCEPT !.pin = Nothing]

\* buildContent: an arc of a cluster is shown as its cluster in cluster mode.
SidebarOf(mode, a) ==
  IF mode /\ SccOf(a) # 0 THEN Cluster(SccOf(a)) ELSE ThisArc(a)

\* handleEdgeClick; shown is the sidebar that an arc off every cycle gets.
HandleEdge(c, mode, a, shown) ==
  LET clicked == ClickEdge(c, a)
  IN  [clicked EXCEPT !.sidebar =
         CASE SccOf(a) # 0 -> SidebarOf(mode, a)
           [] SccOf(a) = 0 /\ clicked.pin = ThisArc(a) -> shown
           [] OTHER -> Nothing]

ClickNode(c, n) ==
  LET clicked == TogglePin(c, ThisNode(n))
  IN  [clicked EXCEPT !.sidebar = IF clicked.pin = ThisNode(n) THEN ThisNode(n) ELSE Nothing]

\* AppState.clickEmpty.
ClickEmpty(c) == [EnterScc(c, 0) EXCEPT !.pin = Nothing, !.sidebar = Nothing]

\* rowToggle, rowPinClick: of the cluster that the sidebar shows.
ToggleRow(c, a) == [c EXCEPT !.rows = IF a \in @ THEN @ \ {a} ELSE @ \cup {a}]
PinRow(c, a) ==
  LET entered == EnterScc(c, SccOf(a))
  IN  IF entered.pin = ThisArc(a) THEN Unpinned(entered, a) ELSE Pinned(entered, a)
OpenRows(c, opening) ==
  LET rows == RowsOfCluster(c.scc) IN [c EXCEPT !.rows = IF opening THEN @ \cup rows ELSE @ \ rows]

\* expandTo, focusNode: the editor's cursor. The rows are those of the jumps
\* that lie on the cursor's line.
ExpandTo(v, n) ==
  LET closed == SelectSeq([k \in 1 .. n |-> k], LAMBDA m : m \in Above(n) \cap v.collapsed)
  IN  FoldRight(LAMBDA m, acc : ToggleCollapse(acc, m), closed, v)
FocusNode(c, n, rows) ==
  LET seen == [c EXCEPT !.pin = ThisNode(n), !.sidebar = ThisNode(n)]
      focused == IF c.pin = ThisNode(n) THEN c ELSE seen
  IN  [focused EXCEPT !.rows = IF focused.sidebar[1] = "cluster" THEN @ \cup rows ELSE @]

-----------------------------------------------------------------------------
\* The view of a freshly loaded page: what ArcPage renders, with the collapsed
\* nodes taken from the level; only then is there anything to sum up.
Opened ==
  LET hidden == {<<a.from, a.to>> : a \in {e \in Range(page.arcs) : e.filtered}}
      level == page.data.expandLevel
      rendered ==
        [collapsed |-> {n \in ParentNodes : level # Unlimited /\ page.data.nodes[n].nesting >= level},
         folded |-> {n \in Nodes : page.nodes[n].hidden}, filtered |-> {},
         checked |-> {b \in DOMAIN page.toolbar.boxes : page.toolbar.boxes[b]},
         unpainted |-> hidden, untouchable |-> hidden, hiddenArcs |-> {},
         undrawn |-> {<<a.from, a.to>> : a \in {e \in Range(page.arcs) : e.collapsed}},
         summaries |-> [e \in {} |-> {}], button |-> page.toolbar.button]
  IN  IF level = Unlimited THEN rendered ELSE Relayout(rendered)

\* nodeKey: ids are given out anew with every page, names are kept.
KeyOf(n) == [k \in 1 .. Cardinality(Above(n)) + 1 |->
               LET chain == SetToSortSeq(Above(n) \cup {n}, <) IN page.names[chain[k]]]
WithKey(key) == {n \in Nodes : KeyOf(n) = key}

\* captureView, ViewSnapshot.capture.
Capture(v, c) ==
  [collapsed |-> {KeyOf(n) : n \in v.collapsed},
   checks |-> [b \in DOMAIN page.toolbar.boxes |-> b \in v.checked],
   pin |-> CASE c.pin[1] = "node" -> <<KeyOf(c.pin[2])>>
             [] c.pin[1] = "arc" -> <<KeyOf(c.pin[2][1]), KeyOf(c.pin[2][2])>>
             [] OTHER -> <<>>]

Boxes == <<"crate-dep", "module-dep", "reexport", "cycles", "external", "transitive">>

(***************************************************************************)
(* ViewSnapshot.restore, applyRestoredView: the collapsed nodes, one        *)
(* relayout, the boxes in their order with the handlers a click has, and    *)
(* the pin.                                                                 *)
(***************************************************************************)
Wanted(s) == {n \in ParentNodes : KeyOf(n) \in s.collapsed}
\* Mutant: nodes are closed, but none that the level closed is opened.
CloseAsStored(s) == FoldSet(LAMBDA n, v : SetCollapsed(v, n, TRUE), Opened, Wanted(s))
CollapseAsStored(s) ==
  FoldSet(LAMBDA n, v : IF (n \in Wanted(s)) = (n \in v.collapsed) THEN v ELSE SetCollapsed(v, n, n \in Wanted(s)),
          Opened, ParentNodes)

Restore(s) ==
  LET check(v, b) == IF b \in DOMAIN s.checks \cap DOMAIN page.toolbar.boxes /\ s.checks[b] # (b \in v.checked)
                     THEN ToggleBox(v, b) ELSE v
  IN  FoldLeft(check, Relayout(CollapseAsStored(s)), Boxes)

\* The pin is clicked again once the view is there; a key of one name is a
\* node's, of two an arc's.
RestorePin(s, v) ==
  LET pinned == [k \in DOMAIN s.pin |-> WithKey(s.pin[k])]
  IN  CASE {} \in Range(pinned) \/ s.pin = <<>> -> NothingChosen
        [] {} \notin Range(pinned) /\ Len(s.pin) = 1 -> ClickNode(NothingChosen, Max(pinned[1]))
        [] OTHER -> LET a == <<Max(pinned[1]), Max(pinned[2])>>
                    IN  HandleEdge(NothingChosen, ClusterMode(v), a, ThisArc(a))

-----------------------------------------------------------------------------
Init == page \in Pages /\ view = NotStarted /\ chosen = NothingChosen /\ stored = {}

\* The script of a loaded page; the stored view serves once.
Start ==
  /\ view = NotStarted
  /\ IF stored = {}
     THEN view' = Opened /\ chosen' = NothingChosen
     ELSE LET s == CHOOSE s \in stored : TRUE
          IN  view' = Restore(s) /\ chosen' = RestorePin(s, view')
  /\ stored' = {} /\ page' = page

Stays == page' = page /\ stored' = stored
InSight(n) == n \notin view.folded \cup view.filtered

ClickCollapse(n) ==
  InSight(n) /\ view' = ToggleCollapse(view, n) /\ chosen' = RefreshSidebar(chosen) /\ Stays
ClickCollapseAll == view' = ToggleCollapseAll(view) /\ chosen' = RefreshSidebar(chosen) /\ Stays
ClickBox(b) == view' = ToggleBox(view, b) /\ UNCHANGED <<page, chosen, stored>>
ClickOnNode(n) == InSight(n) /\ chosen' = ClickNode(chosen, n) /\ UNCHANGED <<page, view, stored>>
ClickOnArc(a) ==
  /\ a \notin view.undrawn \cup view.untouchable
  /\ chosen' = HandleEdge(chosen, ClusterMode(view), a, ThisArc(a)) /\ UNCHANGED <<page, view, stored>>
ClickOnSummary(e) ==
  /\ ~view.summaries[e].filtered
  /\ chosen' = HandleEdge(chosen, ClusterMode(view), e, Summary(e)) /\ UNCHANGED <<page, view, stored>>
ClickBackground == chosen' = ClickEmpty(chosen) /\ UNCHANGED <<page, view, stored>>

\* The rows of the cluster that the sidebar shows.
RowsInSight == IF chosen.sidebar[1] = "cluster" THEN RowsOfCluster(chosen.sidebar[2]) ELSE {}
ClickRow ==
  /\ \/ \E a \in RowsInSight : chosen' = ToggleRow(chosen, a) \/ chosen' = PinRow(chosen, a)
     \/ RowsInSight # {} /\ \E opening \in BOOLEAN : chosen' = OpenRows(chosen, opening)
  /\ UNCHANGED <<page, view, stored>>

\* A focus event of the editor, on a line that up to one row jumps to. The
\* node that is pinned already is not looked for.
Focus(n) ==
  /\ page.data.nodes[n].type \in {"Crate", "Module"}
  /\ \E rows \in SUBSET RowsInSight : Cardinality(rows) <= 1 /\ chosen' = FocusNode(chosen, n, rows)
  /\ view' = IF chosen.pin = ThisNode(n) THEN view ELSE ExpandTo(view, n)
  /\ Stays

\* The page stores its view and loads the new diagram.
Reload(q) ==
  /\ page' = q /\ view' = NotStarted /\ chosen' = NothingChosen
  /\ stored' = {Capture(view, chosen)}

Click ==
  \/ \E n \in ParentNodes : ClickCollapse(n)
  \/ ClickCollapseAll
  \/ \E b \in DOMAIN page.toolbar.boxes : ClickBox(b)
  \/ \E n \in Nodes : ClickOnNode(n)
  \/ \E a \in Arcs : ClickOnArc(a)
  \/ \E e \in DOMAIN view.summaries : ClickOnSummary(e)
  \/ ClickBackground
  \/ ClickRow

Next ==
  \/ Start
  \/ view # NotStarted /\ (Click \/ (\E n \in Nodes : Focus(n)) \/ (\E q \in Pages : Reload(q)))

Spec == Init /\ [][Next]_vars

-----------------------------------------------------------------------------
(***************************************************************************)
(* No dependency is lost in closed nodes, whatever was clicked before: a    *)
(* node is folded away exactly below a closed one, and each arc is drawn    *)
(* between its ends, or summed up once between the outermost closed nodes   *)
(* over them, or lies within one of these, or has an end that its filter    *)
(* hides (relayout, aggregateHiddenEdges, setCollapsed).                    *)
(***************************************************************************)
NoDependencyIsLost ==
  view # NotStarted =>
  LET closedOver(n) == Above(n) \cap view.collapsed
      face(n) == IF closedOver(n) = {} THEN n ELSE Min(closedOver(n))
      faces(a) == <<face(a[1]), face(a[2])>>
      gone(a) == {faces(a)[1], faces(a)[2]} \cap view.filtered # {}
  IN  /\ view.folded = {n \in Nodes : closedOver(n) # {}}
      /\ \A a \in Arcs :
           LET sums == {e \in DOMAIN view.summaries : a \in view.summaries[e].of}
           IN  CASE gone(a) -> a \in view.undrawn /\ sums = {}
                 [] ~gone(a) /\ faces(a) = a -> a \notin view.undrawn /\ sums = {}
                 [] OTHER -> a \in view.undrawn /\ sums = (IF faces(a)[1] = faces(a)[2] THEN {} ELSE {faces(a)})
      /\ ("external" \in DOMAIN page.toolbar.boxes =>
           view.filtered = OfType(IF "external" \notin view.checked THEN ExternalTypes
                                  ELSE IF "transitive" \in DOMAIN page.toolbar.boxes \ view.checked
                                       THEN {"ExternalTransitive"} ELSE {}))

(***************************************************************************)
(* The pin, the selected cluster, the open rows and the sidebar tell one    *)
(* story: a pinned arc of a cluster is one of the selected cluster, rows    *)
(* are open in that cluster only, and the sidebar shows no other cluster    *)
(* (AppState.clickEdge, rowPinClick, clickEmpty, SidebarLogic.show).        *)
(***************************************************************************)
OneClusterAtATime ==
  /\ chosen.pin[1] = "arc" /\ SccOf(chosen.pin[2]) # 0 => chosen.scc = SccOf(chosen.pin[2])
  /\ chosen.rows \subseteq RowsOfCluster(chosen.scc)
  /\ chosen.sidebar[1] = "cluster" => chosen.sidebar[2] = chosen.scc

(***************************************************************************)
(* A reload keeps the view: on a page with other ids, the nodes that are    *)
(* still there are open and closed as before, the boxes they both have are  *)
(* ticked as before, and a pinned node is pinned with its sidebar           *)
(* (captureView, ViewSnapshot, applyRestoredView).                          *)
(***************************************************************************)
ReloadKeepsView ==
  [][Start => \A was \in stored : \E now \in {Capture(view', chosen')} :
       LET parents == {KeyOf(n) : n \in ParentNodes}
           still == Range(was.pin) \subseteq {KeyOf(n) : n \in Nodes}
       IN  /\ now.collapsed = was.collapsed \cap parents
           /\ \A b \in DOMAIN was.checks \cap DOMAIN now.checks : now.checks[b] = was.checks[b]
           /\ Len(was.pin) = 1 /\ still => now.pin = was.pin /\ chosen'.sidebar = chosen'.pin
           /\ Len(was.pin) = 2 /\ still => now.pin = was.pin \/ chosen'.scc # 0
    ]_vars

(***************************************************************************)
(* The manual: "An arc is shown when at least one arc filter covering it is *)
(* on and the node filters leave both its endpoints standing." An arc with  *)
(* both ends in sight is drawn exactly then (recomputeArcVisibility).       *)
(***************************************************************************)
FiltersDecide ==
  view # NotStarted =>
  \A a \in Arcs \ view.undrawn : a \notin view.unpainted <=> Covering(a) \cap view.checked # {}

=============================================================================

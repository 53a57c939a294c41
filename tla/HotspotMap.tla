----------------------------- MODULE HotspotMap -----------------------------
(***************************************************************************)
(* The hotspot map beside the diagram (src/src/hotspots/tree.rs,            *)
(* src/src/render/hotspots.rs, src/src/cli.rs): the crates, modules and     *)
(* files of the graph as circles with their size and their commits, the     *)
(* files ranked, and each with a jump target of its own.                    *)
(*                                                                         *)
(* Circle <<n, 0>> holds node n, <<n, k>> is the k-th file of node n, and    *)
(* <<0, 0>> is the workspace. Coordinates are left out.                     *)
(***************************************************************************)
EXTENDS DiagramLayout, Volatility

CONSTANTS
  TopHotspots,       \* --hotspots
  DefaultHotspots    \* DEFAULT_HOTSPOTS, for the map that is served

VARIABLE map   \* the circles in their order, the list beside them, and what colours them

mapVars == <<repo, map>>

NoMap ==
  [total |-> 0, colours |-> "Window", nodes |-> [k \in {} |-> 0], hotspots |-> <<>>,
   sidebar |-> [window |-> TRUE, toggle |-> TRUE, note |-> "", rows |-> <<>>]]

\* Nothing is known of the files yet.
NoRepo ==
  [asked |-> TRUE, usable |-> TRUE, below |-> {}, log |-> <<>>, lines |-> [f \in {} |-> 0]]

MapStart == repo = NoRepo /\ map = NoMap

-----------------------------------------------------------------------------
\* The Contains edges of n as petgraph's `edges` gives them: the last comes first.
Contained(n) ==
  LET held == SelectSeq(edges, LAMBDA e : e.src = n /\ e.weight = "Contains")
  IN  Reverse([i \in DOMAIN held |-> held[i].dst])

\* A crate's target roots, a module's own file; a manifest is no circle.
OwnFiles(n) == IF Kind(n) = "crate" THEN Front(FilesOf(n)) ELSE FilesOf(n)

\* A module without a file takes what it holds off the map.
OnMap(n) == n \in Members /\ \A m \in Range(Chain(n)) : Kind(m) = "module" => OwnFiles(m) # <<>>
IsContainer(n) == Kind(n) = "crate" \/ Contained(n) # <<>>

\* A sole crate is the root itself.
MapRoot == IF Cardinality(CrateNodes) = 1 THEN <<Max(CrateNodes), 0>> ELSE <<0, 0>>
Circles ==
  {MapRoot} \cup {<<n, 0>> : n \in {m \in Members : OnMap(m) /\ IsContainer(m)}}
    \cup UNION {{<<n, k>> : k \in DOMAIN OwnFiles(n)} : n \in {m \in Members : OnMap(m)}}

CircleFor(n) == <<n, IF IsContainer(n) THEN 0 ELSE 1>>

NameOf(c) ==
  IF c = <<0, 0>> THEN "workspace"
  ELSE IF c[2] = 0 THEN Last(nodes[c[1]].path)
  ELSE Last(OwnFiles(c[1])[c[2]])

\* build_workspace_root, build_crate, build_module: own files, then modules.
ChildrenOfCircle(c) ==
  LET own == [k \in DOMAIN OwnFiles(c[1]) |-> <<c[1], k>>]
      held == SelectSeq(Contained(c[1]), OnMap)
  IN  IF c[2] # 0 THEN <<>>
      ELSE IF c = <<0, 0>>
        THEN SetToSortSeq({<<n, 0>> : n \in CrateNodes}, LAMBDA a, b : NameBefore(NameOf(a), NameOf(b)))
      ELSE own \o [i \in DOMAIN held |-> CircleFor(held[i])]

FileOf(c) ==
  IF c = <<0, 0>> THEN <<>>
  ELSE IF c[2] # 0 THEN OwnFiles(c[1])[c[2]]
  ELSE IF Kind(c[1]) = "crate" THEN Last(FilesOf(c[1])) ELSE FilesOf(c[1])[1]

KindOf(c) ==
  CASE c[2] # 0 -> "File"
    [] c = <<0, 0>> -> "Workspace"
    [] OTHER -> IF Kind(c[1]) = "crate" THEN "Crate" ELSE "Module"

\* Without volatility no file has commits.
CommitsOf(f) == IF repo.asked /\ repo.usable THEN Commits(f) ELSE {}

\* An unreadable file counts no lines.
LinesOf(f) == IF f \in DOMAIN repo.lines THEN repo.lines[f] ELSE 0

Tree == [c \in Circles |-> ChildrenOfCircle(c)]

\* A container adds up its children's lines, and unites their commits.
Lines(tree) ==
  LET lines[c \in DOMAIN tree] ==
        IF c[2] # 0 THEN LinesOf(FileOf(c))
        ELSE FoldLeft(LAMBDA sum, d : sum + lines[d], 0, tree[c])
  IN  [c \in DOMAIN tree |-> lines[c]]

\* Mutant: a commit that touched two files counts twice.
TouchesByFile(tree) ==
  LET touches[c \in DOMAIN tree] ==
        IF c[2] # 0 THEN {<<c, k>> : k \in CommitsOf(FileOf(c))}
        ELSE UNION {touches[d] : d \in Range(tree[c])}
  IN  [c \in DOMAIN tree |-> touches[c]]
Touches(tree) ==
  LET touches[c \in DOMAIN tree] ==
        IF c[2] # 0 THEN CommitsOf(FileOf(c))
        ELSE UNION {touches[d] : d \in Range(tree[c])}
  IN  [c \in DOMAIN tree |-> touches[c]]

-----------------------------------------------------------------------------
\* Each container before its children.
Preorder(tree) ==
  LET walk[c \in DOMAIN tree] ==
        <<c>> \o FlattenSeq([i \in DOMAIN tree[c] |-> walk[tree[c][i]]])
  IN  walk[MapRoot]

\* sorted_children: largest first, then by name, the order in which circles are
\* packed, and in which render reads them back.
SortedChildren(tree, lines) ==
  LET before(below, i, j) ==
        \/ lines[below[i]] > lines[below[j]]
        \/ /\ lines[below[i]] = lines[below[j]]
           /\ NameBefore(NameOf(below[i]), NameOf(below[j])) \/ (NameOf(below[i]) = NameOf(below[j]) /\ i < j)
      places(below) == SetToSortSeq(DOMAIN below, LAMBDA i, j : before(below, i, j))
      ordered(below, order) == [i \in DOMAIN order |-> below[order[i]]]
  IN  [c \in DOMAIN tree |-> ordered(tree[c], places(tree[c]))]

FilesInTree(tree) == SelectSeq(Preorder(tree), LAMBDA c : c[2] # 0)

\* Mutant: the cut comes before the order.
RankLeavesOfFirst(files, score, n) == SelectSeq(SubSeq(files, 1, Min({n, Len(files)})), LAMBDA c : score[c] > 0)

\* rank_leaves: the files with the highest scores, none without one.
RankLeaves(files, score, n) ==
  LET scored == SelectSeq(files, LAMBDA c : score[c] > 0)
      before(i, j) ==
        \/ score[scored[i]] > score[scored[j]]
        \/ /\ score[scored[i]] = score[scored[j]]
           /\ NameBefore(NameOf(scored[i]), NameOf(scored[j])) \/ (NameOf(scored[i]) = NameOf(scored[j]) /\ i < j)
      ranked == SetToSortSeq(DOMAIN scored, before)
  IN  [i \in 1 .. Min({n, Len(ranked)}) |-> scored[ranked[i]]]

\* rank_of: 0 for none. A container is none even if its file is one.
RankOf(ranking, c) ==
  LET places == {i \in DOMAIN ranking : FileOf(ranking[i]) = FileOf(c)}
  IN  IF c[2] = 0 \/ places = {} THEN 0 ELSE Min(places)

\* Why the map is grey, if it is.
Colours(total) ==
  CASE ~repo.asked -> "Flag"
    [] repo.asked /\ ~repo.usable -> "GitUnavailable"
    [] OTHER -> IF total = 0 THEN "NoCommitsInWindow" ELSE "Window"

\* node_keys: the file, and how often it came before.
NodeKeys(circles) ==
  [i \in DOMAIN circles |->
     <<FileOf(circles[i]), Cardinality({j \in 1 .. i : FileOf(circles[j]) = FileOf(circles[i])})>>]

\* register_hotspot_targets: every file at its first line, after the diagram's.
FileTargets(files) == [i \in DOMAIN files |-> <<FileOf(files[i]), 1>>]
RegisteredIds(targets) ==
  LET ids == NewIds(table.entries, targets)
  IN  [f \in {t[1] : t \in Range(targets)} |-> ids[Max({i \in DOMAIN ids : targets[i][1] = f})]]

\* Only a served file has an id to open it with.
LeafTargets(c, jumps) == IF c[2] # 0 /\ FileOf(c) \in DOMAIN jumps THEN <<jumps[FileOf(c)]>> ELSE <<>>

\* reference_commits: a file is coloured against the busiest file, a container
\* against the workspace.
Reference(c, busiest, total) == Max({1, IF c[2] # 0 THEN busiest ELSE total})

\* circle_svg.
Classes(c, rank, grey) ==
  {"circle"} \cup (IF c[2] # 0 THEN {"leaf"} ELSE {}) \cup (IF grey THEN {"grey"} ELSE {})
    \cup (IF rank # 0 THEN {"outline"} ELSE {})

\* render_hotspot_sidebar: the window or the note, the toggle, and the list's rows.
Sidebar(colours, hotspots, nodesByKey) ==
  [window |-> colours = "Window",
   toggle |-> colours = "Window",
   note |-> IF colours = "Window" THEN "" ELSE colours,
   rows |-> [i \in DOMAIN hotspots |->
               [key |-> hotspots[i], place |-> i, lines |-> nodesByKey[hotspots[i]].lines,
                commits |-> nodesByKey[hotspots[i]].commits]]]

\* hotspots::build, pack and render: the circles by their keys, and the list of
\* those that are ranked.
RenderMap(tree, files, lines, touches, ranking, jumps) ==
  LET circles == Preorder(SortedChildren(tree, lines))
      keys == NodeKeys(circles)
      commits == [c \in DOMAIN tree |-> Cardinality(touches[c])]
      rank == [c \in DOMAIN tree |-> RankOf(ranking, c)]
      busiest == Max({0} \cup {commits[c] : c \in Range(files)})
      total == commits[MapRoot]
      colours == Colours(total)
      parentKeys(c) == {keys[i] : i \in {j \in DOMAIN circles : c \in Range(tree[circles[j]])}}
      data(c) ==
        [circle |-> c, kind |-> KindOf(c), file |-> FileOf(c), parent |-> parentKeys(c),
         lines |-> lines[c], commits |-> commits[c], rank |-> rank[c],
         against |-> Reference(c, busiest, total), targets |-> LeafTargets(c, jumps),
         classes |-> Classes(c, rank[c], colours # "Window")]
      listed == SetToSortSeq({i \in DOMAIN circles : rank[circles[i]] # 0},
                  LAMBDA i, j : \/ rank[circles[i]] < rank[circles[j]]
                                \/ rank[circles[i]] = rank[circles[j]] /\ i < j)
      hotspots == [i \in DOMAIN listed |-> keys[listed[i]]]
      byKey == [k \in Range(keys) |-> data(circles[CHOOSE i \in DOMAIN keys : keys[i] = k])]
  IN  [total |-> total, colours |-> colours, nodes |-> byKey, hotspots |-> hotspots,
       sidebar |-> Sidebar(colours, hotspots, byKey)]

-----------------------------------------------------------------------------
\* run_hotspots writes the map alone, without ids; run_ui serves it beside the
\* diagram, and its targets join the table.
DrawMap(served) ==
  LET tree == Tree
      files == FilesInTree(tree)
      lines == Lines(tree)
      touches == Touches(tree)
      score == [c \in DOMAIN tree |-> lines[c] * Cardinality(touches[c])]
      ranking == RankLeaves(files, score, IF served THEN DefaultHotspots ELSE TopHotspots)
      jumps == IF served THEN RegisteredIds(FileTargets(files)) ELSE [f \in {} |-> 0]
  IN  /\ pc = "laid"
      /\ pc' = "mapped"
      /\ map' = RenderMap(tree, files, lines, touches, ranking, jumps)
      /\ table' = [table EXCEPT !.entries = IF served THEN Insert(@, FileTargets(files)) ELSE @]
      /\ UNCHANGED <<repo, ws, nodes, edges, moduleMap, diagnosisVars, sorted, ir>>

-----------------------------------------------------------------------------
\* The file of an item, by which a selection crosses over: its manifest, or a
\* module's own. A target root of a crate is no item's file.
ItemFile(i) ==
  LET n == ir.items[i].node
  IN  IF ir.items[i].kind = "Crate" THEN Last(FilesOf(n)) ELSE FilesOf(n)[1]

\* findNodeIdByFile: the diagram's first item of a file.
FindNodeIdByFile(f) ==
  LET found == {i \in DOMAIN ir.items : ir.items[i].kind \in {"Crate", "Module"} /\ ItemFile(i) = f}
  IN  IF found = {} THEN {} ELSE {Min(found)}

\* leafKeyForFile: where a file that the editor shows is on the map.
LeafKeysForFile(f) == {k \in DOMAIN map.nodes : map.nodes[k].kind = "File" /\ map.nodes[k].file = f}

\* Mutant: the leaf wins.
PlaceForFileByLeaf(f) == LeafKeysForFile(f)
\* placeForFile: a container of the file, or else its leaf.
PlaceForFile(f) ==
  LET containers == {k \in DOMAIN map.nodes : map.nodes[k].kind # "File" /\ map.nodes[k].file = f}
  IN  IF containers = {} THEN LeafKeysForFile(f) ELSE containers

FilesBelow(k) ==
  LET above[j \in DOMAIN map.nodes] ==
        {j} \cup UNION {above[p] : p \in map.nodes[j].parent}
  IN  {j \in DOMAIN map.nodes : map.nodes[j].kind = "File" /\ k \in above[j]}

\* Each file of the report is counted under the level that it is listed with.
LevelsAddUp ==
  LET listing == FormatReport
      of(level) == Cardinality({i \in DOMAIN listing.rows : listing.rows[i].level = level})
  IN  [listing.statistics EXCEPT !.files = 0] =
        [files |-> 0, low |-> of("LOW"), medium |-> of("MEDIUM"), high |-> of("HIGH")]

(***************************************************************************)
(* Every file of the crates and modules is a circle, and a container's      *)
(* figures are those of the files below it: their lines summed, a commit    *)
(* that touched several of them counted once (build_module, build_crate,    *)
(* build_workspace_root). No circle is hotter than its scale. The report    *)
(* of the same log agrees with its own rows (statistics, from_count).       *)
(***************************************************************************)
MapAddsUp ==
  pc = "mapped" =>
    /\ \A n \in Members : \A f \in Range(OwnFiles(n)) : LeafKeysForFile(f) # {}
    /\ \A k \in DOMAIN map.nodes :
         LET files == FilesBelow(k)
         IN  /\ map.nodes[k].lines = MapThenSumSet(LAMBDA j : LinesOf(map.nodes[j].file), files)
             /\ map.nodes[k].commits = Cardinality(UNION {CommitsOf(map.nodes[j].file) : j \in files})
             /\ map.nodes[k].commits <= map.nodes[k].against
    /\ DOMAIN ChangesByFile # {} => LevelsAddUp

(***************************************************************************)
(* HOTSPOT_MAP.md, "Hotspots": the list holds the files of the highest      *)
(* lines times commits in the order of their rank, and no file without a    *)
(* score; a grey map lists none (rank_leaves, rank_of).                     *)
(***************************************************************************)
HotspotsAreRanked ==
  pc = "mapped" =>
    LET score(k) == map.nodes[k].lines * map.nodes[k].commits
        files == {k \in DOMAIN map.nodes : map.nodes[k].kind = "File"}
        shared == {k \in files : LeafKeysForFile(map.nodes[k].file) # {k}}
        top == {k \in files : map.nodes[k].rank # 0}
    IN  /\ Range(map.hotspots) = top
        /\ \A i, j \in DOMAIN map.hotspots : i < j => score(map.hotspots[i]) >= score(map.hotspots[j])
        /\ \A i \in DOMAIN map.hotspots :
             map.hotspots[i] \in shared \/ map.nodes[map.hotspots[i]].rank = i
        /\ \A k \in top, j \in files \ top : score(k) >= score(j) /\ score(k) > 0
        /\ \A i \in DOMAIN map.sidebar.rows :
             LET row == map.sidebar.rows[i]
             IN  "outline" \in map.nodes[row.key].classes /\ row.lines * row.commits = score(row.key)
        /\ map.sidebar.note # "" => map.sidebar.rows = <<>> /\ ~map.sidebar.toggle

(***************************************************************************)
(* HOTSPOT_MAP.md, "a selection carries over": an item of the diagram leads *)
(* to the circle of the same crate or module, a module's file on the map to *)
(* its item, a file that the editor shows to its circle, and a circle's id  *)
(* to its file (placeForFile, findNodeIdByFile, register_hotspot_targets).  *)
(***************************************************************************)
SelectionCarriesOver ==
  pc = "mapped" =>
    LET circles(keys) == {map.nodes[k].circle : k \in keys}
        resolves(k) == \A i \in DOMAIN map.nodes[k].targets :
                         table.entries[map.nodes[k].targets[i]] = <<map.nodes[k].file, 1>>
    IN  /\ \A i \in DOMAIN ir.items : ir.items[i].kind \in {"Crate", "Module"} =>
             circles(PlaceForFile(ItemFile(i))) = {CircleFor(ir.items[i].node)}
        /\ \A n \in ModuleNodes, i \in DOMAIN ir.items :
             ir.items[i].node = n /\ FilesOf(n) # <<>> => FindNodeIdByFile(FilesOf(n)[1]) = {i}
        /\ \A f \in DOMAIN table.nodeFiles : \A k \in LeafKeysForFile(f) : resolves(k)
        /\ \A k \in DOMAIN map.nodes : resolves(k)

=============================================================================

# A TLA+ model of cargo-arc

cargo-arc analyses a Rust workspace, draws its dependency structure as an SVG diagram (the *arc diagram*)
and a hotspot map, and checks architecture rules. `cargo arc ui` serves both pages to an editor's plugin: it
recomputes them while the editor works, pushes events to every open page and sends jumps back to the editor.

This directory is the verification development of that code: TLA+ modules translated from `src/`, TLC
configurations that check them on small instances, and TLAPS proofs of the properties that matter most.
`PROJECT.json` lists every component, run, property, hazard and theorem, and maps each definition to its lines.

## Inventory

| Part | State it keeps | Operations | Hard because |
|---|---|---|---|
| Recomputation (`ui/server.rs`: `Wanted`, `recompute_on_demand`; `ui/service.rs`: `recompute`) | wanted switches, count of commands, rerun and stop flag behind one mutex; the served pages behind another | switch and rerun commands, the thread's loop, the end | commands during a run, lost wakeups, failed runs, order of swap, broadcast and line |
| Jump service (`ui/server.rs`, `ui/service.rs`) | on-save flag, editor mode, list of senders, two command threads, one thread per connection | the stdin commands, `GET /`, `/events`, `/jump`, `POST /command`, shutdown | two lock regions per command, dead senders, every thread must return |
| Pages (`follow.js`, `switch_toggles.js`, `on_save_toggle.js`, `jump.js`, `theme.js`) | the page's layout, mode, buttons, one EventSource | load, connect, reconnect, events, clicks, reload | what happens between load and connection; stale ids |
| Editor plugins (`editors/nvim`, `vscode`, `rustrover`) | the child process, its port, flags for stop and restart | open, stop, restart, the exit handler | callbacks and threads that arrive after the state changed |
| Analysis (`analyze/`) | none kept; a pipeline over the workspace | choose crates, walk files, resolve paths, follow re-exports, find uses | names that shadow, globs, re-exports across crates, two targets in one crate |
| Graph (`graph.rs`, `model.rs`) | nodes and edges with their use contexts | build, merge, prune, queries | one edge per pair, production and test contexts |
| Diagnosis (`diagnose/`) | none | cycles, clusters, feedback edges, importers | shortest representatives, what breaks a tangle |
| Layout (`layout/`) | none | reading order, items, arcs, clusters, jump table | order inside cycles, edges that stand for others, ids that must resolve |
| Rules (`rules/`) | the rules file and a baseline file | load, match, evaluate, freeze, diagnose, report | ways around a layer, what a baseline hides and what it must not |
| Volatility and hotspots (`volatility.rs`, `hotspots/`, `render/hotspots.rs`) | none; git's log is read | count, classify, rank, draw | files without history, deleted files, shared leaves |
| Rendering (`render/`) | none | rows, elements, classes, first view, the script's data | the page and its script must agree before the first click |
| Diagram frontend (`js/`) | collapse, filters, pin, selected cluster, rows, sidebar, the document's own classes | clicks, focus events, reload with the stored view | visibility kept in two places, order of clicks, ids that change |
| Command line (`cli.rs`, `main.rs`) | nothing between commands; files on disk | diagram, volatility, hotspots, check, ui | the order of failures, what is left on disk, a long-running `ui` beside edits |
| Build, release, editors' own calls, DOM helpers | | | not modelled |

What makes each correct: the last command wins and every run is reported of the page that is served
(recomputation); no open page drops out of the events and the service ends completely (service); every connected
page follows the service's state (pages); one process per plugin and none after a stop (plugins); the
dependencies found are those the names mean in Rust (analysis); one edge per pair (graph); a reported cycle is a
shortest one and the feedback edges break every cycle (diagnosis); orders respect every edge outside a cycle, and
every dependency is drawn once (layout); no way around the rules goes unreported, and a baseline keeps green what it was
written for (rules); counts add up and one ranking serves both pages (hotspots); the result of the clicks does not
depend on their order, and a reload keeps it (frontend); two commands agree about the same code (command line).

## Modules

An arrow is EXTENDS.

| Module | Models |
|---|---|
| `RunOnDemand` | what recomputing promises, without threads and locks (abstract) |
| `Recompute` | the `Wanted` monitor, its thread, the swap, the reports, the stop; refines `RunOnDemand` |
| `JumpService` → `Recompute` | the two command threads, the state for later pages, streams, jumps and shutdown; its steps are `Recompute`'s or leave it alone |
| `ServicePages` → `JumpService` | pages beside the service: fetch, connect, events, clicks, posts, jumps, reloads |
| `ServiceProcess` | the child process `cargo arc ui` as a plugin sees it (external but for its ready line) |
| `NvimPlugin`, `VscodePlugin`, `RustRoverPlugin` → `ServiceProcess` | each plugin's commands, callbacks and threads around that process |
| `ArcGraph` | the graph's nodes and edges and the questions asked of it |
| `DependencyGraph` → `ArcGraph` | `ArcGraph::build`, pass by pass |
| `Cargo` → `DependencyGraph` | the crates to analyse, features and targets, packages outside of the workspace |
| `SourceTree` → `Cargo` | parsed files, module declarations, the walks over them |
| `PathResolution` → `SourceTree` | what module and item a path names |
| `Reexports` → `PathResolution` | what modules export and where it is defined |
| `UseParser` → `Reexports`; `Analysis` → `UseParser` | how an item is used, the paths that code writes with their positions, bindings, globs and dependencies of one file; the phases of a run |
| `RustNames` → `Analysis` | what names mean in Rust: the reference for what the analysis finds |
| `Cycles` → `ArcGraph`, `Diagnosis` → `Cycles` | representative cycles, clusters, feedback edges, consumers of symbols |
| `SiblingOrder` | the reading order of the nodes under one parent: both topological sorts, step by step |
| `DiagramLayout` → `Diagnosis` | rows, external section, arcs, clusters, definitions, jump targets |
| `Volatility`, `HotspotMap` → `DiagramLayout` | the log, counts and report; the tree of circles, its ranking, the selection that moves between pages |
| `ArcPage`; `ArcView` → `ArcPage` | the page a layout is drawn as and what its script is told; what the reader does to it |
| `Matching` → `ArcGraph`, `RulesFile` → `Matching` | patterns and `allow` targets; loading of `arc-rules.toml` |
| `Rules` → `RulesFile`, `Cycles` | one rule against the graph and the baseline |
| `CheckCommand` → `Rules`, `CheckReport` → `CheckCommand` | `cargo arc check`, its diagnostics and the baseline on disk; its report |
| `CommandLine` → `CheckReport` | every command with what it reads and writes, and a running `ui` beside them |
| `SampleProjects` | inputs of `MCDiagram`: small file trees (its workspaces as found are its own) |
| `MCJumpService`, `MCServicePages`, `MCEditorPlugins`, `MCDiagram`, `MCCheckCommand`, `MCArcView` | the instances TLC checks |
| `ServicePagesProofs`, `EditorPluginsProofs`, `SiblingOrderProofs`, `ArcViewProofs`, `CycleProofs`, `DiagramProofs`, `CheckProofs` | the theorems |
| `Rounds` | functions that are computed in rounds: that they exist, and invariants of the rounds |

### State and actions against the code

* **`Recompute`.** `wanted` is the record `Wanted`; `seen`, `run` and `pc` are the locals and the position of
  `recompute_on_demand`; `current` is `JumpService::current`. Every critical section is one action: `Take` is
  the block that ends in `mem::take`, `Swap` the write lock in `JumpService::recompute`, `Broadcast` and
  `WriteReport` the two reports. `Park` and `SpuriousWake` are the condition variable: `NotifyAll` moves a
  parked thread back to its condition, and a notification while it is elsewhere is lost, as in the code. The
  analysis is two outcomes, `Analyse` and `AnalyseFails`. A page is its switches and a version: the disk's at
  some moment of the run. `disk` and `announced` are there for the properties only.
* **`JumpService`.** `exec[t]` is what a command thread still owes after its first lock: a broadcast (`Tell`),
  a rerun request (`Rerun`), or the second read of `JumpService::page` (`Render`). `subscribers` is the list of
  senders, `chan[s]` the channel behind one of them, `stream[s]` its thread. `SendAll` is `broadcast`: a send to
  an ended stream drops its sender. `ThreadStep` is a step of the recomputation with its broadcast joined to the
  streams. The commands are the arms of `execute`.
* **`ServicePages`.** A page is closed, loaded, live, lost or reloading. `Fetch`/`Fetched` are the two reads of
  `JumpService::page`; `Connect` is the EventSource, at the first time and after a loss; `Deliver` the event
  handlers; `Click` the buttons and locations; `Answer` the request loop's side. `post[p]` holds the requests that a page
  has under way, answered in any order: the script waits for none before the next click, and `Slot` bounds their number. A
  reload drops those that have not arrived; otherwise a post fails only when the service is gone, which is left out here.
  `EditorSends` and `PageClicks` select what the environment does, so that one run stays small. `page[p].missed` records what had already
  passed when the page connected; the code has no such field, and the properties use it to tell what is
  guaranteed from what is not: a page that connects after a broadcast misses it (ARC_DIAGRAM.md:50), so that
  `ConnectedPageReloads` and `PageFollowsEditorMode` say nothing of that gap.
* **Plugins.** `proc` is the operating system's side: a process is spawned, announces its port, exits, and its
  exit is collected by the plugin. `service` and `started` are Neovim's and VS Code's `service` variable and the
  record that `start` or `startService` makes for each process; `queue` holds Neovim's scheduled callbacks, `frames`
  the `showFrame` calls of VS Code that await their address. Everything there runs on one event loop, so an action
  is a whole command or callback. RustRover has threads: `thread` says where the UI thread and each process's exit
  watcher are, a block under `lock` is one action, and `start` is two, `Spawn` and `Store`. `asked` is the user's
  last command and `crossed` whether a command fell on another thread's start or on a restart that still pends; both
  are there for the properties. Ports are named after the process that first had them. Neovim is taken to run no
  scheduled callback after `VimLeavePre`, and a signal may take any time to end the process it reaches.
  `MCEditorPlugins` holds the three side by side; the variable `editor` picks the one a behaviour is of.
* **`SiblingOrder`.** The input is built by the actions that count it: `CountProduction` and `CountTest` are the
  loops of `build_sibling_dep_graph` and `order_crates`, over the pairs of siblings. `TryTestEdge` is a round of
  `add_soft_test_edges`; `Place` a round of `stable_toposort`'s loop while `pc` is `nodes`, and of
  `kahns_toposort`'s, with the expansion of what it places, while `pc` is `tangles`. `FallBack` is the switch from
  one to the other. In-degrees are kept as the set of predecessors still to be placed (`waits`), the mean position
  that breaks ties as a fraction. Nodes are their ranks by name, so siblings are taken to have distinct names.
* **Analysis to page.** `build_dependency_graph` runs once and keeps nothing, so its functions are operators and a
  phase is an action: `AnalyzeWorkspace`, `AnalyzeExternals`, the module trees, the exports, then `AnalyzeModules`,
  which hands the workspace to the passes of `BuildGraph` (`AddCrates`, `AddModules`, `AddCrateDeps`,
  `AddModuleDeps`, `AddExternals`). `Diagnose` and `BuildLayout` follow; `ReadHistory` and `DrawMap` are the
  hotspot command. A file is the parsed tree that the walkers read, a line a number in it. A path is a sequence of
  names. Orders that reach the output (of nodes, edges, ids) are kept as sequences; where the code iterates over a
  hash table, the model takes one order or leaves it open. Sibling order inside `DiagramLayout` is its definition
  by properties (`ReadingOrders`, with the test edges of `JoinedTestPairs`), which allows every order that weights and names
  would decide between; `SiblingOrder` is how it is computed.
* **Rules.** A pattern is a form with segments that are sets of names. `CheckRule` finds a rule's violations,
  each allowed, frozen or reported, with the baseline's entries that were hit. In `CheckCommand` an action is a
  whole command (`Check`, `GenerateBaseline`) or a change between commands (`EditCode`, `EditRules`);
  `WriteBaseline` may break off, leaving a file that is cut. `frozenAt` remembers the code an entry was written
  for, and only the properties read it. `CommandLine` adds the other commands, the disk around them and a
  running `ui` with its reruns. An unreadable rules file or baseline is taken for a garbled one, which ends the command
  as well (config.rs:720, baseline.rs:85), and a write to standard output is taken to succeed (cli.rs:735). The
  second part of `CommandsAgree` tells the page that `ui` started with by its switches, not by its content.
* **`ArcPage` and `ArcView`.** `RenderPage` is the page's elements with their classes, boxes and buttons, and its
  `STATIC_DATA`. `view` holds both what `AppState` keeps of closed nodes and filters and the classes that the
  document's elements carry on their own, because the code keeps both and derives neither from the other in every
  handler: `collapsed` against `folded`, `checked` against `filtered`, `unpainted`, `hiddenArcs`, `undrawn`. `chosen`
  is the rest of `AppState`, the pin, the cluster and its rows, with what the sidebar shows. A handler of
  `svg_script.js` is an operator on one of the two and its click an action. `Reload` stores `Capture(view, chosen)`
  and loads another page, whose ids differ; `Restore` and `RestorePin` are `applyRestoredView`.

## Runs

| Run | Shows | Bounds |
|---|---|---|
| `service` | the inductive invariant, `LastCommandWins`, `ReportedPageIsServed`, `CommandsSettle`, refinement of `RunOnDemand`; `OpenStreamsAreSubscribed`, `ShutdownCompletes` | below: 679,984 states |
| `pages` | `ConnectedPageReloads`, `PageFollowsEditorMode`, `ClicksAreHeeded`, `OnSaveShownUncrossed` | one page, two connections, two requests under way, 2 commands from stdin and page: 1,271,280 states |
| `on_save_race` (violation) | `OpenPagesShowOnSave`: two threads tell their on-save commands in the other order | on-save commands alone |
| `stale_jump` (violation) | a jump id of the replaced table opens another file | one switch command |
| `plugins` | `OneService`, `ServiceEnds`, `PageShowsService`, `OwnsItsService` | four processes, five commands: 1.9 million states |
| `arc_stop` (violation) | Neovim: a restart that is pending survives `:Arc stop` | two processes, three commands |
| `reading_order` | `ReadingOrder`, `LeastWeightPointsUp`, `TestEdgesKeepTangles` | every graph of four siblings with four dependencies in all, searched tangles up to three nodes |
| `diagram` | from files to page: `ImportsAreFollowed`, `OneEdgePerPair`, `RepresentativesAreShortest`, `FeedbackBreaksCycles`, `LocalityIsDeepestHome`, `EveryDependencyDrawn`, `ArcsPointDown`, `TargetsResolve`, `MapAddsUp`, `HotspotsAreRanked`, `SelectionCarriesOver`, `PagesAreWhole` | below: 179,492 states |
| `check` | `OrderIsChecked`, `CyclesAreJudged`, `FrozenStaysGreen`, `StaleEntriesAreDropped`, `ReportIsTrue`, `CommandsAgree` | any number of commands and changes over the small projects of `MCCheckCommand`: 54,026 states |
| `shrinking_baseline` (violation) | an edge that only lost an import counts as grown | one edge, two locations |
| `view` | `NoDependencyIsLost`, `OneClusterAtATime`, `ReloadKeepsView` | any number of clicks and reloads on four pages: 93,044 states |
| `arc_filters` (violation) | a filter misses an arc whose id a summary shares | as above |

*Plugins.* Four processes are a first service, its restart, a restart of that and one more to be forgotten; five
commands are needed for a stop or an open between any two of them, and for a restart that failed to start anything
and is answered by the exit of an earlier process.

*Service.* `MCJumpService` has two scenes, which a behaviour never leaves. In "thread" only what reaches the
recomputation happens, over two switches, three commands and two edits: a command before, during and after a run, with an
edit on either side. In "service" everything does, over one switch, one mode, one stream and two commands: both threads
between their locks at once, a sender that dies before, during and after a broadcast.

*Pages.* One page is enough: pages meet only through the service, and what another page posts is what the stdin
thread sends here, up to the thread that executes it. Two connections are what a reload or a reconnection needs, two
requests what two clicks on different buttons, or on one, need to be answered in the other order. The editor sends modes,
switches, saves and on-save commands, as Neovim's plugin does (init.lua:264). `SYMMETRY` permutes the connections and the
places of the requests, which no definition tells apart. `crossed` is a history variable of `MCServicePages`: whether both
threads ever stood between the two locks of an on-save command at once. Without such a crossing the button is right
(`OnSaveShownUncrossed`), with one it need not be (`on_save_race`).

*Reading order.* Four dependencies are enough for a tangle of four nodes, beyond the limit of the search, for one
of three whose weights differ, for two test edges that close a cycle together, and for a test edge beside a
production edge. The limit is a constant of the module; the code's 8 would need a graph of nine nodes to be passed.

*Diagram.* The sample projects have one item that is passed on by up to two imports, or two items and one import,
between a crate's root, its modules and a second crate, in every pair of visibilities, aliases and globs; 772 more
name an item of each kind in every position and scope, in every kind of target, file layout and package. An import
chain of two is a re-export of a re-export, or a name that shadows a glob. Three imports are left out: two modules
that import each other's globs is a case the code does not follow (below). The sample workspaces choose up to
`MaxUses` = 5 uses freely among four modules, a ring, shared files or three crates with dev-dependencies and an
external one: two cycles through one node, and a tangle whose edges differ in weight, need no more. Histories are a
commit of any files and a second of any two, an old one, a deletion and a rename, on two of the workspaces. Each layout is drawn as a page at the levels
none, 0, 1 and 2, and served.

*Check.* Each family of projects is small in the direction that a property asks about: layers over every set of
dependencies between four modules, cycles over the edges of three, frozen and allowed entries, rules that are
switched off and on, files that are missing, garbled, cut or refused.

*View.* Two tangles, one across a closed node; reordered and renamed nodes after a save; externals.

Deadlock is not checked where the system may stop: in the service and the plugins, which are meant to, and in runs
whose environment runs out of commands or whose input has been computed. It is checked in `check` and `view`,
where a step is always possible.

### Findings

Each run that expects a violation states a sentence of the repository that the code does not keep.

* `on_save_race`: docs/ARC_DIAGRAM.md:53 says that the service holds the button's state, so that every open page shows
  the same state. `execute` sets the state and tells it under two locks (server.rs:184): when the stdin thread and the
  HTTP thread are at an on-save command at once, the state set last may be told first.
* `stale_jump`: docs/adr/027-editor-plugins-own-a-service-and-read-its-stdout.md says a stale diagram cannot open the
  wrong file. Ids are resolved against the table served now, so it can.
* `arc_stop`: the plugin's README says `:Arc stop` ends the service. `M.stop` of the Neovim plugin does not take
  `restart` back; VS Code's `endService` and RustRover's `stop` do.
* `shrinking_baseline`: docs/RULES.md says a check reports only what is added after the baseline. The names of
  re-exports are not frozen beside an import, so deleting the import makes them count as new.
* `arc_filters`: docs/ARC_DIAGRAM.md says an arc is shown when a filter covering it is on. The cache by id confuses an
  arc with the summary arc of the same id.

Other differences met while modelling, which no run states:

* Service. The comment at `Command::Recompute` speaks of the served switches, and the code runs with the wanted ones
  (server.rs:216 against service.rs:67). After a failed run the next save therefore makes the failed switch
  again. A page that connects after a broadcast misses it, and only the on-save state is repeated to it (server.rs:290,
  ARC_DIAGRAM.md:50). A click on a switch that another command takes back before the thread looks is answered by no
  report, so that its button stays busy (server.rs:219; switch_toggles.js:1 promises a page or an error); `ClicksAreHeeded`
  shows that this is the only case, since the page then shows the switches wanted.
* RustRover. A restart that is past its decision survives the project's end (ArcService.java:326,
  editors/rustrover/README.md:5). A restart whose spawn fails leaves `restartRequested` set, since `start` returns
  before it is reset, and `stop` returns early without a live process: the exit of an older process then starts a
  service after the stop. The attempt to prove `OwnsItsService` showed this; `RestartPending` counts it as crossed.
* Analysis (docs/adr/020 gives its limits). The roots of a library and a binary overwrite each other's re-exports.
  Re-exports of the root named by `crate::X`, globs across crates, republished modules, two modules that import each
  other's globs, and an inner block's glob beside an outer named binding are not followed. `use super::*` does not
  lend private named imports, and private definitions do not shadow globs. `impl_owner` drops the crate of an
  imported type. A qualified path in macro input is no use, so that its import is listed as dead; a path in an
  attribute inherits the position around it. An unused import of an external type inside a module is listed as a
  function. The order of unused globs depends on a hash table. Two packages of one name share their externals
  (`external_map` is keyed by name). The `hir` feature does not compile (hir.rs:305).
* Graph. `Direct` cycles count a reverse edge that only tests have. With an external dev-dependency every crate
  counts as reachable in production. Modules have edges to external crates, against ARC_DIAGRAM.md:152.
* Check. In a workspace without crates the implicit rule exits 1, because its `**` matches nothing (diagnostics.rs:452,
  README.md:53). Files that do not parse are no error of a check. `-o` before `hotspots` has no effect.
* Hotspots. `git log` runs in the manifest's directory (volatility.rs:146), so a member's map differs from
  docs/RULES.md:202. No arc node leads to the leaf of a crate's root file. A map without ranks also comes from files
  without lines. Modules that share a file share one rank. Names that git quotes are skipped. Thresholds in the wrong
  order are accepted (volatility.rs:325).
* Frontend. Showing filtered nodes again reveals arcs whose type filter is off. A relayout makes summaries of arcs
  that a filter hides, and a filter click can make the hit area of an arc unclickable whose id a summary shares.
  `hiddenArcIds` starts empty although re-export arcs start hidden. The page says "(+n)" for direct children and the
  script for all descendants. A restored view does not update the Collapse All button; a restored pinned inner edge
  of a tangle comes back as the overview, a restored summary with an empty sidebar. Unpinning a node while a cluster
  is selected hides the sidebar but not the cluster; the first click on a cycle arc leaves a pinned node pinned, and
  with cluster mode off does not pin the arc (ARC_DIAGRAM.md:37). Externals of one name share a snapshot key.

### Fairness

`RecomputeFairness` and `ServiceFairness` are weak fairness of threads: the recomputation thread, the end of
`run` (straight-line code), the stdin thread's return at end of file, the second lock of a command, and the
stream threads, whose writes to a loopback connection either succeed or fail. An analysis is assumed to end. No
command, request, click, edit, lost connection or end of the request loop is ever owed. No other module states
fairness: their properties are safety.

## Proofs

`tlapm` checks every proof to its leaves, for any sets of switches, modes, streams and pages, any number of
processes and siblings, and any bounds. Each inductive invariant was first checked by TLC on the instance of its run.

* **`ServicePagesProofs`, the service.** `RecomputeInv` is inductive. `LastCommandWins` is not by itself: its premise becomes true
  in the last step of a run, so the invariant follows the run through its steps. `RunAnswersCommands` says that
  a run without later commands works for what is wanted, `SwappedPageIsFresh` that its version is no older than
  the last rerun it took, `ReportedRunIsServed` and `ReportsAgree` that page, event and line agree in this order,
  and `ServedPageIsFresh` and `SettledPageIsWanted` carry it to the next wait. `ImplementsRunOnDemandHolds` is the
  step simulation of the abstract specification (its `Safety`). Every action of the service is a step of `Recompute` or leaves its variables alone
  (`ServiceImplementsRecompute`), so each theorem above holds in the service (`LastCommandWinsInService`).
  `OpenStreamsStaySubscribed` proves that no open stream loses its sender.
* **`ServicePagesProofs`, its pages.** Every step of the service with its pages is a step of the service or leaves it alone,
  by the way the pages are written (`PagesStepIsService`); `BaseInv` carries over what was proved of the service and adds that an open page
  owns its stream. The properties are of one form: a page knows the state, or an event that tells it is under
  way. Such a property is not inductive, because the event has to reach the page: `ModeIsTold` and `OnSaveIsTold`
  say that whoever changed the state still owes the event, and `PageKnowsMode` and `PageKnowsOnSave` that the *last*
  event of that kind in a page's channel carries the state now. The lemmas `AppendLast`, `TailKeeps` and their
  relatives are about that last event. `BusyInv` says of a busy switch that its post, its command, its run or its
  event is under way, or that the served page is what is wanted (`ClickIsHeeded`), whence `ClicksAreHeededHolds`.
  `QuietStepKeeps`, `PageStepKeepsOthers` and `ServiceCases` divide the steps into those that tell something and those
  that do not, so that each property has only its own steps to look at. `OnSaveInv` is inductive only while no two
  threads are at an on-save command at once: `OnSaveShownUncrossedHolds` is about the behaviours in which they never are
  (`[]~OnSaveCrosses`), whoever sends the commands. The run `on_save_race` shows what happens in the others.
* **`EditorPluginsProofs`.** One inductive invariant per plugin, about the whole life of its processes. Neovim: a
  scheduled exit is the last callback of its process and only the current service has lines pending
  (`OnlyServicePends`, `ExitComesLast`), and an announced port's page is open (`PortsAreOpen`). VS Code:
  processes are born in order and the service is the last one (`BornInOrder`, `ServiceIsLast`), a frame for it
  is awaited or shown (`FrameOfService`), nothing survives a stop (`StopIsFinal`). RustRover: one thread is between
  its decision and its store (`OneStarts`), and while it is there nothing else runs unasked (`StarterIsAlone`,
  `ProcessIsKept`), as long as no command crossed it. The assumption is that the bounds are naturals.
* **`SiblingOrderProofs`.** `SiblingInv` is inductive. `NewEdgeClosesNoCycle` is the heart of `add_soft_test_edges`:
  if the new edge's end does not reach its start, no edge that was on no cycle is on one afterwards; reachability is
  defined by the sets of nodes that some edge must leave, so that the proof takes unions of closed sets. For the
  sorts, `SortInv` says that a group waits for exactly its predecessors not yet placed and that what is placed has
  all of its own placed; `PlaceStep` is one round of either sort and `TanglesPartition` what the second one needs of
  the strongly connected components.
* **`ArcViewProofs`.** `OneClusterAtATime` is restated as `ChoiceInv` of any record, so that handlers that call one
  another (`FocusNode`, `RestorePin`, `ClickEdge` with `EnterScc` and `Pinned`) are each shown to keep it, and the
  actions follow. Two facts make it hold. The first click on an arc of a cluster enters the cluster and leaves the
  pin, which is right because with no cluster chosen the pin is of none; and every row that is pinned or opened is
  one of the chosen cluster's, since the table in the sidebar is that cluster's. The folds of the same handlers
  change `view` alone and do not appear. `PagesAssumption` says that an arc of a cluster is on a cycle, as
  `compute_cycle_info` makes it; `PagesAreWhole` checks it of every page that `diagram` draws.
* **`CycleProofs`.** What `RepresentativeCycles` computes of any finite set of edges. The search keeps its levels apart
  and in reach (`LevelsWalks`, `LevelsReach`, `LevelsAreNew`), the way back takes one level at a time
  (`PathFollowsLevels`), and with the edge it was searched for it closes a cycle of the component
  (`RepresentativeIsCycle`), so that the representatives' edges are those of the components
  (`RepresentativesCoverComponents`). A walk that is shorter than the path would stay inside the component
  (`WalkStaysInside`) and so meet its end on an earlier level (`PathIsShortest`); a simple cycle that starts at its
  smallest node is determined by its edges (`SameEdgesSameCycle`). Together these are `RepresentativesAreShort`.
  The lists of edges and clusters are sorted by keys of numbers. Such keys order (`KeysOrder`), so there is a first
  (`FirstIsFound`) and each rank is taken once (`RanksAreDistinct`), and a sorted list holds all that it sorts (`SortedLists`).
  The greedy cover compares edges by a key that depends on the pair; up to a number that both share it is a key of each
  (`BetterByKey`), so there is a best edge, and it is on an open cycle while any is open (`BestIsFound`). A round takes one
  more edge or leaves nothing open, and there are as many rounds as edges (`GreedyCovers`). The edge taken last is on an
  open cycle that no other edge of the cover meets, and so of any of the edges taken, one is alone on a cycle (`EachIsNeeded`,
  `CoverNeedsEach`; around that cycle, `AroundTheCycle`, it lies on one without the rest). The rounds of `FeedbackEdges`
  are of the same kind (`EachBreaks`), and a graph without representatives is acyclic (`NoRepresentativeNoCycle`). Components are apart
  (`ComponentsAreApart`), so that a cluster's cycles are those of its component and its key is its own
  (`ReportHoldsClusters`). Together these are `ReportBreaksCycles`.
* **`DiagramProofs`.** `DiagramInv` follows the graph pass by pass (`DiagnosisSpec`: the passes of `ArcGraph::build` and the
  diagnosis). `NodesInv` says that crates come first, then modules, then packages, and to what a module's path resolves;
  `LinksInv` that the edges between modules are `AddModuleDeps`' alone and that none runs from a module to itself, so that
  `Subgraph` is a finite set of edges and `RepresentativesAreShort` applies to it (`RepresentativesAreShortestHolds`).
  `PairsInv` says of any two nodes that the one edge for the uses of one in the other is there exactly when there are
  such uses. It is established in one step: the lists that the pass puts one after the other are injective and apart
  (`SetsAreListed`, over `FlatIsJoined`, what `FlattenSeq` joins), and what they list between two nodes is the one edge
  (`DepsBetween`), because a module's references are grouped by path and a path resolves to one node (`PathIsOfNode`,
  `PathResolves`). The other passes keep those edges in place (`OthersKeepLinks`). The last step needs the hypothesis
  `PathsDiffer`, and the attempt without it failed for a reason: two `mod` declarations of one name under different `cfg`s,
  each with a `#[path]` of its own, are both kept (src/src/analyze/syn_walker.rs:527, the test
  `test_parse_mod_cfg_alternatives_with_distinct_paths_kept`), so that two modules have one path. That path resolves
  to the later one, the dependencies of both start there, and each brings an edge of its own, while a comment says of the
  grouping "This ensures at most one edge per (from, to) node pair, which the rendering pipeline requires."
  (src/src/graph.rs:553). No run is spent on it: the sampled workspaces satisfy `PathsDiffer`.
  `EndsInv` says that a parent is added before its children and that uses are of nodes by nodes. So what holds a node is a
  chain (`ChainsAreNested`; `ChainGoesUp` is its recursion, over `Rounds`), of two modules that hold all the consumers of
  a symbol one holds the other, and the deepest exists (`DeepestIsFound`). A module that holds the consumers and not the
  provider has it among its own descendants or is it, so that it does not hold the provider either: where
  `ConsumerLocality` finds no home there is none (`LocalityIsDeepestHomeHolds`).
  It also says that an edge carries finitely many symbols, so that they can be counted (`SymbolsAreCounted`): then
  `ReportBreaksCycles` applies to `Subgraph`, and `ReportStays` keeps its result while the graph stays
  (`FeedbackBreaksCyclesHolds`).
* **`CheckProofs`.** `StaleEntriesAreDropped` compares a check with the baseline that would be written next, and so
  needs that what a rule finds does not depend on the baseline: `IsFoundBy` says that of dependencies, layers and
  cycles, and that one rule finds one entry per pair of nodes (`ForbiddenIsFound`, `LayersAreFound`,
  `CyclesAreFound`). For layers that is `RoutesAreOfTheirOwn`: the walk around unpositioned nodes reaches nothing
  twice and skips what an edge reaches, by induction over its rounds. `ConfigIsNamedApart` adds that rules which were
  loaded differ in their names, so that entries of two rules are never of one key. Then an entry that was not hit is
  one that is not found (`UnmatchedIsUncovered`), and merging what is found yields one entry per key
  (`MergedIsFound`). `CheckInv` holds between commands: what the last check said is true of the files as they are;
  the lemmas named `...Stay` show that what a check reads stays while no command changes it.
  `FrozenStaysGreen` spans many commands, in which the code may change and come back. `SomeNodes`, `SomeEdges` and
  `SomeOptions` are any constants and `Then` is the rules engine on them; `FrozenInv` says of every rule frozen for
  that code that the baseline holds under its name exactly what the engine finds in it, which generating keeps for the
  rules it checks (`FoundOfRule`), for the ignored ones (`FrozenNowIs`) and through merging (`MergedOnce`). When the
  code is that code (`IsThen`), what was found then is found now, whatever the severity (`FoundThen`), and where all
  that a rule finds is frozen nothing of it is reported (`FrozenRule`), its status is ok (`OkIsGreen`) and nothing is
  stale (`FrozenIsMatched`). For cycles that rests on `RepresentativesCoverComponents`: no representative cycle has an
  edge that the baseline was not asked about. The code being arbitrary constants, the theorem holds of every code.
  `CommandsAgree` relates two commands that analyse the code on their own. A rule against all cycles looks at the edges
  that the diagram looks at (`ScopeOfAll`: dependencies between modules end at members), its tangles are the
  components (`TanglesAreComponents`), their nodes the ends of the edges on cycles (`EndsOnCycles`), and those edges
  are the marked ones (`MarkedAreOnCycles`, from `RepresentativesCoverComponents`). Without a rules file and a baseline
  a component is reported as an error (`UncoveredIsReported`) and the only gap a configuration of the implicit rule has
  is that `**` matches nothing (`ImplicitIsHeard`). `DrawingInv` keeps for every file and page that what it marks are
  the cycles of the code that it was made from, `AgreeInv` for every check that it judges the code as it is.
  `OrderIsChecked` is about ways of any length, while `check_layers` looks at single edges and at routes that stop at
  the first layered node. `RoutesReachTheNext` says what that walk reaches: from its start on and from every node
  without a layer all that an edge leads to, and each layered node it meets is an edge's end or the end of a route,
  whose least way runs over nodes without a layer (`LexMinIsOne`). `OrderIsBroken` follows a way against the order from
  one such walk to the next: at each place, some layered node before it that the end must not be reached from has a
  walk there, and where that walk meets a layered node without breaking the order, the order being total the end must
  not be reached from that node either (`RejectsOnward`), and its own walk takes over. In the end the end itself is
  met, and the pair is a broken one. `OrderInv` keeps this for the last check, of rules as they are loaded
  (`ConfigHasLayerings`: the positions are a list, the direction one of two).
  `CyclesAreJudged` speaks of single edges where `check_cycles` works by component. An edge is on a cycle if and only
  if its end leads back to its start (`OnCyclesAre`), and the edges around it are then those of its component
  (`AroundIsComponent`), of which there is one, so one tangle holds it. Its cycles cover the component
  (`ComponentCyclesCover`), so that the tangle is tolerated exactly when each of its edges is (`ToleratedIsCovered`), and
  by `ReportBreaksCycles`, or because a single cycle is listed whole, nothing is left without the edges it is named
  by (`NamedEdgesBreak`). `RuleIsJudged` puts this together for one rule; `JudgedInv` keeps it for the last check. It
  needs no names that differ: a rule's violations are told apart by the name of the rule, which `ConfigIsNamedApart`
  says no other has.
  `ReportIsTrue` is about the text. `IsTold` collects what it rests on: a check of a finite project finds finitely many
  violations (`RulesOfFileAreListed`, `RoutesAreFinite`, by rounds again, `ClustersAreTold`), each of an active rule, in
  one of three states, and an entry that is reported although the baseline names its edge lacks a symbol
  (`GrownIsTrue`). The blocks then hold exactly the violations to be shown (`BlocksAre`, `ToldIs`), so that their heads
  are the judgment and the status lines (`ErrorsAreHeads`, `StatusTells`) and the rest is counted (`RestIsCounted`). What
  is said of a tangle is `IsTable`, a part of `JudgedOver`: the rows are in the order of their counts (`IsRanking`, from
  the sorting in `CycleProofs`), a cycle that is listed whole goes round (`RepresentativeGoesRound`), and where a
  tangle does not count every cycle one of its edges is frozen. `TangleHolds` reads the closing sentence off that, and
  `ReportedInv` keeps both for the last check.
* **`Rounds`.** The library's induction takes an operator as parameter; this module has the operators as constants and
  is instantiated, with the least element of a set of naturals in place of induction.

The assumptions are the named `ASSUME`s: bounds are naturals, the "no value" constants are none of the values, and
`WorkspaceAssumption` says that what the analysis finds is made of lists and finite sets, each module after its parent
and of a crate that was found, `CheckAssumption` the same of a graph that is checked: its edges are a list, an edge
carries finitely many symbols; and for the theorems about
`CommandSpec`, except `CyclesAreJudgedHolds` and `ReportIsTrueHolds`, `NamesDiffer`, that no two nodes of the graph
bear one name. The graphs of the run `check` have it (TLC evaluates it in `MCCheckCommand`), and it is needed: where two nodes share a name,
`unmatched` keeps the last of two hits of one key and writing merges them.

Only model-checked:
* liveness (`CommandsSettle`, `ShutdownCompletes`) and the fairness half of the refinements, which need ENABLED, out of
  the prover's reach;
* what is computed by folds and by recursion over trees and paths, which needs induction over data with an operator as
  parameter: the analysis (`ImportsAreFollowed`), ids and jump targets, trees of
  circles, the summaries of `NoDependencyIsLost`, a restored view. `Rounds` reaches functions of a natural number only;
* that a tangle's order is the best one (`LeastWeightPointsUp`): a minimum over weights that a fold sums up.

## Plan

All parts of the inventory are modelled as far as the list below allows. What is left is to prove more of what is
only model-checked: `ArcsPointDown` and `EveryDependencyDrawn`, which need the folds of `DiagramLayout` as functions of
a natural number, so that `Rounds` reaches them.

## Not modelled

Wording, markup, colours, floating-point geometry (`pack.rs`) and style sheets; parsing of lines, TOML and JSON, which
become records; cargo metadata, rust-analyzer (the `hir` backend) and git, which are external input; the editors' own
jumps, cursors and settings, which keep no state of the plugin; hovering, search and scrolling on the page; build and
release. Components whose status in `PROJECT.json` is `not_modelled` or `partly` say what is left out.

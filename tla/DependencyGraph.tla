--------------------------- MODULE DependencyGraph ---------------------------
(***************************************************************************)
(* The dependency graph (src/src/graph.rs, model.rs): what the analysis     *)
(* found in a workspace becomes nodes and edges, pass by pass.              *)
(*                                                                         *)
(* The names of a workspace's crates are those in the code.                 *)
(***************************************************************************)
EXTENDS ArcGraph

CONSTANTS Workspaces,   \* what the analysis may find
          NoItem        \* a reference to a module as a whole

VARIABLES
  pc,
  ws,                   \* what the analysis found
  moduleMap             \* the node a module's path resolves to

graphVars == <<pc, ws, nodes, edges, moduleMap>>

\* What a file names of the module or crate `to`, first in the file and on the
\* line `at`; uses: where it does and how.
DependencyRef == {"to", "item", "at", "kind", "reexport", "uses"}

\* parent: the place of the parent among the modules, 0 for the crate's root;
\* definitions: the line on which each item is defined.
ModuleInfo == {"path", "parent", "file", "dependencies", "definitions"}

\* root: the dependencies of the root module; files: the library's root, the
\* binaries' and the manifest; the dependencies name crates.
CrateInfo == {"name", "root", "files", "dependencies", "devDependencies"}

\* packages are the names of the crates outside the workspace; a dependency on
\* one names its ends by their places, with the kinds that cargo gives it. The
\* switches of the run come with it.
Workspace ==
  {"crates", "modules", "packages", "workspaceDeps", "externalDeps", "includeTests",
   "includeReexports"}

IsListed(s) == s \in Seq(Range(s))
RefLists(w) == {m.dependencies : m \in Range(w.modules)} \cup {c.root : c \in Range(w.crates)}

IsWorkspace(w) ==
  /\ DOMAIN w = Workspace
  /\ IsListed(w.crates) /\ IsListed(w.modules) /\ IsListed(w.packages)
  /\ \A c \in Range(w.crates) : DOMAIN c = CrateInfo
  /\ \A i \in DOMAIN w.modules :
       /\ DOMAIN w.modules[i] = ModuleInfo /\ w.modules[i].parent \in 0 .. (i - 1)
       /\ IsListed(w.modules[i].path) /\ Len(w.modules[i].path) > 1
       /\ w.modules[i].path[1] \in {c.name : c \in Range(w.crates)}
  /\ \A refs \in RefLists(w) : IsFiniteSet(refs)
  /\ \A r \in UNION RefLists(w) :
       /\ DOMAIN r = DependencyRef /\ IsListed(r.to)
       /\ r.kind = "test" => w.includeTests
  /\ IsFiniteSet(w.workspaceDeps) /\ IsFiniteSet(w.externalDeps)

ASSUME WorkspaceAssumption == \A w \in Workspaces : IsWorkspace(w)

GraphInit ==
  /\ pc = "crates"
  /\ ws \in Workspaces
  /\ nodes = <<>> /\ edges = <<>>
  /\ moduleMap = [p \in {} |-> 0]

-----------------------------------------------------------------------------
CrateOf(name) == {i \in DOMAIN ws.crates : ws.crates[i].name = name}
Resolve(path) ==
  IF path \in DOMAIN moduleMap THEN {moduleMap[path]}
  ELSE IF Len(path) # 1 THEN {}
  ELSE IF CrateOf(path[1]) # {} THEN CrateOf(path[1])
  ELSE {n \in PackageNodes : nodes[n].path = path}

AddCrates ==
  /\ pc = "crates"
  /\ pc' = "modules"
  /\ nodes' = [i \in DOMAIN ws.crates |-> Node("crate", <<ws.crates[i].name>>, i)]
  /\ UNCHANGED <<ws, edges, moduleMap>>

\* add_modules: the trees of all crates; the later of two modules of one path
\* is the one that the path resolves to.
AddModules ==
  LET n == Len(nodes)
      crate(m) == Max(CrateOf(m.path[1]))
      parent(m) == IF m.parent = 0 THEN crate(m) ELSE n + m.parent
      paths == {m.path : m \in Range(ws.modules)}
  IN  /\ pc = "modules"
      /\ pc' = "crateDeps"
      /\ nodes' = nodes \o [i \in DOMAIN ws.modules |->
                    Node("module", ws.modules[i].path, crate(ws.modules[i]))]
      /\ edges' = [i \in DOMAIN ws.modules |->
                    Edge(parent(ws.modules[i]), n + i, "Contains", "production", {})]
      /\ moduleMap' = [p \in paths |-> n + Max({i \in DOMAIN ws.modules : ws.modules[i].path = p})]
      /\ UNCHANGED ws

AddCrateDeps ==
  LET depend(c, names, weight, kind) ==
        {Edge(c, d, weight, kind, {}) : d \in UNION {CrateOf(name) : name \in names}}
      dev == IF ws.includeTests THEN "CrateDep" ELSE "DevDep"
  IN  /\ pc = "crateDeps"
      /\ pc' = "moduleDeps"
      /\ edges' = edges \o FlattenSeq([c \in DOMAIN ws.crates |->
           SetToSeq(depend(c, ws.crates[c].dependencies, "CrateDep", "production"))
             \o SetToSeq(depend(c, ws.crates[c].devDependencies, dev, "test"))])
      /\ UNCHANGED <<ws, nodes, moduleMap>>

AggregateContext(group) ==
  IF \E r \in group : r.kind = "production" THEN "production" ELSE "test"

\* refs: those on the line `at`. Its use is a re-export if all of them are.
SourceLocation(at, refs) ==
  [at |-> at, symbols |-> {r.item : r \in refs} \ {NoItem}, reexport |-> \A r \in refs : r.reexport]

\* build_source_locations: one location for each line, with every symbol that
\* is used there.
Locations(group) ==
  {SourceLocation(l, {r \in group : r.at = l}) : l \in {r.at : r \in group}}

\* Mutant: the references are grouped by their context as well.
ModuleDepsByContext(from, refs) ==
  UNION {LET group == {r \in refs : r.to = t[1] /\ r.kind = t[2]} IN
           {Edge(a, b, "ModuleDep", AggregateContext(group), Locations(group)) :
              a \in Resolve(from), b \in Resolve(t[1]) \ Resolve(from)} :
         t \in {<<r.to, r.kind>> : r \in refs}}

\* A module's references, grouped by target.
ModuleDeps(from, refs) ==
  UNION {LET group == {r \in refs : r.to = to} IN
           {Edge(a, b, "ModuleDep", AggregateContext(group), Locations(group)) :
              a \in Resolve(from), b \in Resolve(to) \ Resolve(from)} :
         to \in {r.to : r \in refs}}

\* What the log lists of an edge's references.
LoggedUses(group) ==
  UNION {{[symbol |-> r.item, use |-> u] : u \in r.uses} : r \in {q \in group : q.item # NoItem}}

AddModuleDeps ==
  LET deps(path, refs) == SetToSeq(ModuleDeps(path, refs))
  IN  /\ pc = "moduleDeps"
      /\ pc' = "externals"
      /\ edges' = edges
           \o (FlattenSeq([i \in DOMAIN ws.crates |-> deps(<<ws.crates[i].name>>, ws.crates[i].root)])
           \o FlattenSeq([i \in DOMAIN ws.modules |-> deps(ws.modules[i].path, ws.modules[i].dependencies)]))
      /\ UNCHANGED <<ws, nodes, moduleMap>>

AddExternals ==
  LET n == Len(nodes)
      context(kinds) == IF "normal" \in kinds THEN "production" ELSE "test"
      depend(d, from) == Edge(from, n + d[2], "CrateDep", context(d[3]), {})
  IN  /\ pc = "externals"
      /\ pc' = "graph"
      /\ nodes' = nodes \o [k \in DOMAIN ws.packages |->
                    Node("package", <<ws.packages[k]>>, n + k)]
      /\ edges' = edges \o SetToSeq({depend(d, d[1]) : d \in ws.workspaceDeps})
                        \o SetToSeq({depend(d, n + d[1]) : d \in ws.externalDeps})
      /\ UNCHANGED <<ws, moduleMap>>

BuildGraph == AddCrates \/ AddModules \/ AddCrateDeps \/ AddModuleDeps \/ AddExternals

-----------------------------------------------------------------------------
RefsOf(n) ==
  IF Kind(n) = "crate" THEN ws.crates[n].root
  ELSE ws.modules[n - Len(ws.crates)].dependencies

\* Alternatives of one module, each with a file of its own, have one path.
PathsDiffer(w) ==
  /\ \A i, j \in DOMAIN w.crates : w.crates[i].name = w.crates[j].name => i = j
  /\ \A i, j \in DOMAIN w.modules : w.modules[i].path = w.modules[j].path => i = j

(***************************************************************************)
(* One edge at most between two nodes carries their uses, with a use in     *)
(* production code deciding its context and no symbol lost: the rendering   *)
(* keys arcs by their ends (GraphBuilder::add_module_deps). This holds where *)
(* no two crates and no two modules have one path, as in every workspace    *)
(* that the runs build (PathsDiffer). It fails for two alternatives of one  *)
(* module under different cfgs, each with a #[path] of its own: the uses of *)
(* both start at the later one, and each alternative brings an edge.        *)
(***************************************************************************)
OneEdgePerPair ==
  pc \in {"externals", "graph"} =>
    \A a, b \in Members :
      LET between == {i \in DOMAIN edges : /\ edges[i].src = a /\ edges[i].dst = b
                                          /\ edges[i].weight = "ModuleDep"}
          uses == {r \in RefsOf(a) : b \in Resolve(r.to)}
      IN  /\ Cardinality(between) = IF uses = {} \/ a = b THEN 0 ELSE 1
          /\ \A i \in between :
               /\ edges[i].kind = "production" <=> \E r \in uses : r.kind = "production"
               /\ UNION {l.symbols : l \in edges[i].locations} = {r.item : r \in uses} \ {NoItem}
               /\ IsReexport(edges[i]) <=>
                    edges[i].kind = "production" /\ \A r \in uses : r.reexport

(***************************************************************************)
(* A module that uses an external crate has an edge to it                   *)
(* (docs/ARC_DIAGRAM.md: "Show which external crates your modules depend    *)
(* on").                                                                    *)
(***************************************************************************)
ModulesReachExternals ==
  pc = "graph" =>
    \A a \in ModuleNodes : \A r \in RefsOf(a) :
      <<r.to[1]>> \in {nodes[n].path : n \in PackageNodes} =>
        \E e \in Out(a) : e.weight = "ModuleDep" /\ e.dst \in PackageNodes

=============================================================================

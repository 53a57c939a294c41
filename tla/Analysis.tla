------------------------------- MODULE Analysis -------------------------------
(***************************************************************************)
(* A run's analysis (build_dependency_graph in src/src/cli.rs): what each   *)
(* phase finds is there for the next, and the last one hands the workspace  *)
(* to the graph (analyze_modules_syn in src/src/analyze/syn_walker.rs).     *)
(***************************************************************************)
EXTENDS UseParser

foundVars == <<modulePaths, crateExports, reexports>>
analysisVars == <<project, crates, externals, foundVars>>

NoWorkspace ==
  [crates |-> <<>>, modules |-> <<>>, packages |-> <<>>, workspaceDeps |-> {}, externalDeps |-> {},
   includeTests |-> FALSE, includeReexports |-> FALSE]

NothingFound ==
  /\ crates = <<>>
  /\ externals = NoExternals
  /\ modulePaths = <<>> /\ crateExports = <<>> /\ reexports = <<>>

\* A run may be started on any project.
AnalysisInit ==
  /\ pc = "metadata"
  /\ IsProject(project)
  /\ NothingFound
  /\ ws = NoWorkspace
  /\ nodes = <<>> /\ edges = <<>> /\ moduleMap = [p \in {} |-> 0]

-----------------------------------------------------------------------------
ExternalNames(c) == IF c \in DOMAIN externals.names THEN externals.names[c] ELSE {}

\* What an entry's file writes; one that does not parse writes nothing. Only
\* the files below tests/ are test code throughout.
EntryDependencies(c, e) ==
  LET source(f) ==
        [ctx |-> Context(c.name, e.path, ExternalNames(c.name)), file |-> e.file, holds |-> f,
         kind |-> IF e.rank[1] \in DOMAIN c.roots THEN "production" ELSE "test"]
      written == UNION {FileDependencies(source(f)) : f \in Parsed(e.file)}
  IN  {d \in written : Switches.includeTests \/ d.kind = "production"}

EntryDefinitions(to) ==
  IF to \notin DOMAIN reexports THEN [n \in {} |-> 0]
  ELSE LET defined == reexports[to].definitions IN [n \in DOMAIN defined |-> defined[n].line]

IsRoot(c, e) == Len(e.rank) = 1 /\ e.rank[1] \in DOMAIN c.roots

\* The module of an entry, behind the one that declares it.
AnalyzedModule(c, e, found) ==
  LET to == <<c.name>> \o e.path
      parents == {k \in DOMAIN found : found[k].rank = Front(e.rank)}
  IN  [path |-> to, parent |-> IF parents = {} THEN 0 ELSE Max(parents), file |-> e.file,
       dependencies |-> EntryDependencies(c, e),
       definitions |-> IF Parsed(e.file) = {} THEN [n \in {} |-> 0] ELSE EntryDefinitions(to)]
InWalkOrder(entries) == SetToSortSeq(entries, LAMBDA a, b : InOrder(a.rank, b.rank))
ModulesOf(c, found) == [k \in DOMAIN found |-> AnalyzedModule(c, found[k], found)]
CrateModules(c) == ModulesOf(c, InWalkOrder({e \in ModuleTree(c) : ~IsRoot(c, e)}))

\* The roots are one module.
AnalyzedCrate(c) ==
  [name |-> c.name, files |-> c.files,
   dependencies |-> c.dependencies, devDependencies |-> c.devDependencies,
   root |-> UNION {EntryDependencies(c, e) : e \in RootEntries(c)}]

\* The modules of all crates, their parents among them.
Concatenated(lists) ==
  LET before(i) == MapThenSumSet(LAMBDA j : Len(lists[j]), 1 .. (i - 1))
      moved(i) == [k \in DOMAIN lists[i] |->
                     [lists[i][k] EXCEPT !.parent = IF @ = 0 THEN 0 ELSE @ + before(i)]]
  IN  FlattenSeq([i \in DOMAIN lists |-> moved(i)])
AllModules == Concatenated([i \in DOMAIN crates |-> CrateModules(crates[i])])

AnalyzeModules ==
  /\ pc = "moduleTrees"
  /\ pc' = "crates"
  /\ ws' = [crates |-> [i \in DOMAIN crates |-> AnalyzedCrate(crates[i])],
            modules |-> AllModules,
            packages |-> externals.packages,
            workspaceDeps |-> externals.workspaceDeps, externalDeps |-> externals.externalDeps,
            includeTests |-> Switches.includeTests, includeReexports |-> Switches.includeReexports]
  /\ UNCHANGED <<analysisVars, nodes, edges, moduleMap>>

Analyze ==
  \/ AnalyzeWorkspace /\ UNCHANGED <<foundVars, ws, nodes, edges, moduleMap>>
  \/ CollectModulePaths /\ UNCHANGED <<reexports, ws, nodes, edges, moduleMap>>
  \/ CollectCrateExports /\ UNCHANGED <<reexports, ws, nodes, edges, moduleMap>>
  \/ CollectReexports /\ UNCHANGED <<ws, nodes, edges, moduleMap>>
  \/ AnalyzeExternals /\ UNCHANGED <<foundVars, ws, nodes, edges, moduleMap>>
  \/ AnalyzeModules

=============================================================================

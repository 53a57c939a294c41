------------------------------ MODULE MCDiagram ------------------------------
(***************************************************************************)
(* From the files to the diagram: small projects that are analysed, and     *)
(* small workspaces as the analysis may find them, each drawn.              *)
(***************************************************************************)
EXTENDS HotspotMap, ArcPage, SampleProjects

CONSTANT MaxUses   \* bound: the dependencies between the modules of a crate

-----------------------------------------------------------------------------
(***************************************************************************)
(* Small workspaces as the analysis may find them: their dependencies are   *)
(* chosen in every way.                                                     *)
(***************************************************************************)
Crate(name, dependencies, devDependencies, root) ==
  [name |-> name, files |-> <<<<name, "lib">>, <<name, "toml">>>>, root |-> root,
   dependencies |-> dependencies, devDependencies |-> devDependencies]

Module(path, parent, refs) ==
  [path |-> path, parent |-> parent, file |-> path, dependencies |-> refs,
   definitions |-> [i \in {"S"} |-> 3]]

\* Node n of `paths` uses what `uses` lists for it: item, target, kind, re-export.
\* Its tests stand at its end.
Ref(path, line, u) ==
  [to |-> u.to, item |-> u.item, at |-> <<path, line>>, kind |-> u.kind, reexport |-> u.reexport,
   uses |-> {}]
Use(from, to, item) ==
  [from |-> from, to |-> to, item |-> item, kind |-> "production", reexport |-> FALSE]
Refs(paths, n, uses) ==
  {Ref(paths[n], IF u.kind = "test" THEN 9 ELSE CHOOSE k \in DOMAIN paths : paths[k] = u.to, u) :
     u \in {v \in uses : v.from = n}}

Alone(members, modules) ==
  [crates |-> members, modules |-> modules, packages |-> <<>>, workspaceDeps |-> {},
   externalDeps |-> {}, includeTests |-> TRUE, includeReexports |-> FALSE]

UpTo(k, S) == UNION {kSubset(i, S) : i \in 0 .. k}

-----------------------------------------------------------------------------
\* One crate: x holds w, beside y. Any few modules use each other.
NestedPaths == <<<<"a">>, <<"a", "x">>, <<"a", "x", "w">>, <<"a", "y">>>>
Nested(uses) ==
  Alone(<<Crate("a", {}, {}, Refs(NestedPaths, 1, uses))>>,
        [i \in 1 .. 3 |-> Module(NestedPaths[i + 1], IF i = 2 THEN 1 ELSE 0,
                                 Refs(NestedPaths, i + 1, uses))])
NestedPairs == {p \in (1 .. 4) \X (1 .. 4) : p[1] # p[2]}
PairUse(p) == Use(p[1], NestedPaths[p[2]], "S")
NestedWorkspaces ==
  {Nested({PairUse(p) : p \in R}) : R \in UpTo(MaxUses, NestedPairs)}
    \cup {[Nested({[PairUse(p) EXCEPT !.reexport = p \in prelude] : p \in R})
             EXCEPT !.includeReexports = include] :
             R \in kSubset(3, NestedPairs), include \in BOOLEAN,
             prelude \in {{<<3, 2>>}, {<<2, 3>>, <<4, 3>>}}}

\* Three siblings in tangles, with one or two symbols at each dependency.
FlatPaths == <<<<"a">>, <<"a", "x">>, <<"a", "y">>, <<"a", "z">>>>
Flat(uses) ==
  Alone(<<Crate("a", {}, {}, {})>>,
        [i \in 1 .. 3 |-> Module(FlatPaths[i + 1], 0, Refs(FlatPaths, i + 1, uses))])
Ring == {<<2, 3>>, <<3, 4>>, <<4, 2>>}
TangledWorkspaces ==
  {Flat(UNION {{Use(p[1], FlatPaths[p[2]], s) : s \in IF p \in heavy THEN {"S", "T"} ELSE {"S"}} :
          p \in R}) :
     R \in {S \in SUBSET (Ring \cup {<<p[2], p[1]>> : p \in Ring}) : Cardinality(S) >= 4},
     heavy \in {{}, Ring, {<<p[2], p[1]>> : p \in Ring}}}

\* Symbols of y and of w, each used by any of the modules, some in tests only
\* or for a re-export; and a cycle inside x beside a symbol that is both.
SharedPaths == <<<<"a">>, <<"a", "x">>, <<"a", "x", "v">>, <<"a", "x", "w">>, <<"a", "y">>>>
Shared(uses) ==
  Alone(<<Crate("a", {}, {}, Refs(SharedPaths, 1, uses))>>,
        [i \in 1 .. 4 |-> Module(SharedPaths[i + 1], IF i \in {2, 3} THEN 1 ELSE 0,
                                 Refs(SharedPaths, i + 1, uses))])
SharedWorkspaces ==
  {Shared({Use(n, <<"a", "y">>, "S") : n \in users}
          \cup {Use(n, <<"a", "x", "w">>, "S") : n \in others}
          \cup special) :
     users \in SUBSET (1 .. 4), others \in UpTo(2, {2, 3, 5}),
     special \in {{}, {[Use(2, <<"a", "y">>, "T") EXCEPT !.reexport = TRUE]},
                      {[Use(2, <<"a", "y">>, "T") EXCEPT !.kind = "test"]}}}
    \cup {Shared({Use(4, <<"a", "x", "v">>, "S"), Use(3, <<"a", "x", "w">>, "S"),
                  [Use(2, <<"a", "y">>, "S") EXCEPT !.kind = "test"],
                  [Use(2, <<"a", "y">>, "S") EXCEPT !.reexport = TRUE]})}

\* Crates a and b with a module each, c without: their dependencies, the uses
\* across crates, and two packages.
CratePaths == <<<<"a">>, <<"b">>, <<"c">>, <<"a", "x">>, <<"b", "y">>>>
Crates(deps, devDeps, uses, external) ==
  LET of(ds, n) == {CratePaths[p[2]][1] : p \in {q \in ds : q[1] = n}}
  IN  [crates |-> [n \in 1 .. 3 |->
         Crate(CratePaths[n][1], of(deps, n), of(devDeps, n), Refs(CratePaths, n, uses))],
       modules |-> [i \in 1 .. 2 |-> Module(CratePaths[i + 3], 0, Refs(CratePaths, i + 3, uses))],
       packages |-> IF external THEN <<"p", "q">> ELSE <<>>,
       workspaceDeps |-> IF external THEN {<<1, 2, {"normal"}>>, <<2, 1, {"dev"}>>} ELSE {},
       externalDeps |-> IF external THEN {<<2, 1, {"normal"}>>} ELSE {},
       includeTests |-> devDeps # {} \/ \E u \in uses : u.kind = "test",
       includeReexports |-> FALSE]
CrateUses ==
  {Use(4, <<"b", "y">>, "S"), Use(1, <<"b">>, "S"), Use(4, <<"b">>, "S"), Use(3, <<"b", "y">>, "S"),
   [Use(4, <<"b", "y">>, "T") EXCEPT !.kind = "test"], Use(5, <<"a", "x">>, "S")}
CrateWorkspaces ==
  {Crates(deps, devDeps, uses, external) :
     deps \in UpTo(2, {<<1, 2>>, <<2, 3>>, <<3, 2>>, <<1, 3>>}) \ {{<<2, 3>>, <<3, 2>>}},
     devDeps \in {{}, {<<2, 1>>}}, uses \in UpTo(2, CrateUses), external \in BOOLEAN}

\* What cargo allows: uses follow dependencies, test uses dev-dependencies too.
Legal(w) ==
  LET uses(i) == w.crates[i].root \cup
                 UNION {m.dependencies : m \in {n \in Range(w.modules) : n.path[1] = w.crates[i].name}}
  IN  \A i \in DOMAIN w.crates : \A r \in uses(i) :
        r.to[1] \in {w.crates[i].name} \cup w.crates[i].dependencies
                    \cup (IF r.kind = "test" THEN w.crates[i].devDependencies ELSE {})

SampleWorkspaces ==
  NestedWorkspaces \cup TangledWorkspaces \cup SharedWorkspaces
    \cup {w \in CrateWorkspaces : Legal(w)}

-----------------------------------------------------------------------------
MCAlphabet == <<"a", "b", "c", "it", "lib", "tests", "w", "x", "y">>

MCUpperCase == {"S", "V"}
MCCapitalised == MCUpperCase \cup {"New"}

MCTolerations ==
  {{}, {<<2, 3>>, <<3, 2>>}, {<<2, 3>>, <<3, 4>>, <<4, 2>>},
   (2 .. 4) \X (2 .. 4), {<<2, 3>>, <<3, 4>>}}

MCProjects ==
  <<SampleProjects({{X}, {W}, {Y}, {Z}}, Few(SampleImports)),
    SampleProjects({{X, W}, {X, Y}}, {{i} : i \in SampleImports}),
    UseProjects, ScopeProjects(Few(ScopeLeaves)), RootProjects, FileProjects, PackageProjects>>

NoProject == [packages |-> <<>>, files |-> [f \in {} |-> EmptyFile], options |-> Plainly]

\* Projects whose imports rustc accepts, and workspaces that are found already.
\* A caller tolerates edges when it checks rules, and then draws nothing.
Init ==
  \/ /\ \E k \in DOMAIN MCProjects : project \in MCProjects[k]
     /\ AnalysisInit /\ LayoutStart /\ MapStart /\ tolerated = {}
     /\ \E places \in {Places} : IsRust(places, BoundIn(places))
  \/ /\ GraphInit /\ LayoutStart /\ MapStart
     /\ project = NoProject /\ NothingFound
     /\ tolerated # {} => ws \in TangledWorkspaces

laterVars == <<diagnosisVars, sorted, ir, table, mapVars>>

-----------------------------------------------------------------------------
\* The workspaces that are mapped: a crate with nested modules, and three crates.
MappedWorkspaces ==
  {Nested({PairUse(<<2, 4>>)}), Crates({<<1, 2>>}, {}, {}, FALSE)}

Commit(age, files, letter) == [age |-> age, changes |-> [f \in files |-> letter]]

\* Any files in a commit of this month and any two in another; few in one that
\* is older, that deletes, or that is seen from the manifest of crate a.
Repositories(files) ==
  LET elsewhere == {<<"a", "tests", "it">>}
      ofA == {f \in files : f[1] = "a"}
      lines == {[f \in files |-> 2],
                [f \in files |-> IF Last(f) = "lib" THEN 1 ELSE IF Last(f) = "y" THEN 4 ELSE 3],
                [f \in files \ {<<"a", "x">>} |-> IF Last(f) = "lib" THEN 2 ELSE 1]}
      second == {<<>>, <<Commit(6, files, "M")>>, <<Commit(2, ofA \cup elsewhere, "D")>>}
                  \cup {<<Commit(1, S \cup elsewhere, "R")>> : S \in kSubset(2, files)}
      repository(asked, usable, below, log, n) ==
        [asked |-> asked, usable |-> usable, below |-> below \cup elsewhere, log |-> log, lines |-> n]
  IN  {repository(TRUE, TRUE, files, <<Commit(1, S, "A")>> \o rest, n) :
         S \in SUBSET files, rest \in second, n \in lines}
        \cup {repository(a, u, d, <<Commit(1, files, "M")>>, n) :
                 a \in BOOLEAN, u \in BOOLEAN, d \in {files, ofA}, n \in lines}

\* What the disk holds is read once the diagram is laid out.
ReadHistory ==
  /\ pc = "laid" /\ repo = NoRepo /\ ws \in MappedWorkspaces
  /\ repo' \in Repositories(UNION {Range(OwnFiles(n)) : n \in Members})
  /\ UNCHANGED <<layoutVars, map>>

Next ==
  \/ Analyze /\ UNCHANGED laterVars
  \/ DiagnosisNext /\ UNCHANGED <<analysisVars, sorted, ir, table, mapVars>>
  \/ tolerated = {} /\ BuildLayout /\ UNCHANGED <<analysisVars, mapVars>>
  \/ ReadHistory /\ UNCHANGED analysisVars
  \/ repo # NoRepo /\ (\E served \in BOOLEAN : DrawMap(served)) /\ UNCHANGED analysisVars

Spec == Init /\ [][Next]_<<layoutVars, analysisVars, mapVars>>

-----------------------------------------------------------------------------
\* The pages of a layout: expanded, down to each level, and served.
Pages == {RenderPage(ir, [Plain EXCEPT !.level = level]) : level \in {Unlimited, 0, 1, 2}}

\* Every page starts as its script would draw it and hides no cycle, and what
\* its script is told fits together (FirstViewIsWhole, PageDataIsWhole).
PagesAreWhole ==
  pc = "laid" /\ repo = NoRepo =>
    /\ \A page \in Pages : FirstViewIsWhole(ir, page)
    /\ PageDataIsWhole(ir, RenderPage(ir, ServedWith({"externals"})))

=============================================================================

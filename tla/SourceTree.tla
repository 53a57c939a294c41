------------------------------ MODULE SourceTree ------------------------------
(***************************************************************************)
(* The files of the crates (src/src/analyze/mod_resolver.rs and the walks   *)
(* of syn_walker.rs and reexports.rs): which modules a crate has, and where *)
(* they are.                                                                *)
(*                                                                         *)
(* A file is named by its directory, a sequence, and its stem. What it      *)
(* holds is parsed: its module declarations, the leaves of its `use` items, *)
(* its definitions, the items that its types carry and the paths it writes, *)
(* in their order.                                                          *)
(***************************************************************************)
EXTENDS Cargo

VARIABLES
  modulePaths,      \* the paths of each crate's modules
  crateExports      \* the names that each library's root exports

File == {"parses", "mods", "uses", "defs", "inner", "blocks", "code", "regions"}

\* at: where a #[path] attribute points, if there is one.
ModDecl == {"name", "at", "test", "vis"}

\* path ends in * for a glob, and `as` is the name that the leaf binds.
UseLeaf == {"path", "as", "vis", "region", "line", "test"}
Definition == {"name", "kind", "vis", "line"}

\* An enum or a trait, which is its own path, or the type of an impl block.
TypeBlock == {"is", "path", "variants", "fns", "consts"}

\* A path that the code writes, and what its node is: a type, a trait bound, an
\* impl, a value, a callee, a macro, a construction or its pattern, a bare name
\* in a pattern, an attribute, or the scope of a visibility. `inside` is the
\* node around it, 0 for none; tokens are a macro's or an attribute's input.
CodeNode == {"is", "path", "line", "region", "inside", "tokens"}

\* An inline module or a block; the first region is the file itself.
Region == {"parent", "module", "test"}

IsPackage(p, packages) ==
  /\ DOMAIN p = Package
  /\ \A d \in p.deps : DOMAIN d = NodeDep /\ d.pkg \in DOMAIN packages
IsFile(f) ==
  /\ DOMAIN f = File
  /\ \A m \in Range(f.mods) : DOMAIN m = ModDecl
  /\ \A u \in Range(f.uses) : DOMAIN u = UseLeaf /\ u.region \in DOMAIN f.regions
  /\ \A d \in Range(f.defs) : DOMAIN d = Definition
  /\ \A b \in Range(f.blocks) : DOMAIN b = TypeBlock
  /\ \A i \in DOMAIN f.code :
       /\ DOMAIN f.code[i] = CodeNode
       /\ f.code[i].region \in DOMAIN f.regions /\ f.code[i].inside < i
  /\ \A i \in DOMAIN f.regions : DOMAIN f.regions[i] = Region /\ f.regions[i].parent < i
IsProject(p) ==
  /\ DOMAIN p = {"packages", "files", "options"} /\ DOMAIN p.options = Options
  /\ \A q \in Range(p.packages) : IsPackage(q, p.packages)
  /\ \A f \in Range(p.files) : IsFile(f)

Files == DOMAIN project.files
Parsed(file) == {f \in {project.files[file]} : f.parses}

-----------------------------------------------------------------------------
\* Where the files of a file's modules lie.
ChildDir(file, isRoot) ==
  IF isRoot \/ file[2] \in {"mod", "lib", "main"} THEN file[1] ELSE Append(file[1], file[2])

\* The file of a declared module, as a set of at most one.
ModFile(dir, m) ==
  LET plain == <<dir, m.name>>
  IN  IF m.at # {} THEN {<<dir \o p[1], p[2]>> : p \in m.at} \cap Files
      ELSE IF plain \in Files THEN {plain}
      ELSE {<<Append(dir, m.name), "mod">>} \cap Files

\* Declarations, each under its first place in the file.
ModDeclarations(f, tests) ==
  {i \in DOMAIN f.mods :
     /\ tests \/ ~f.mods[i].test
     /\ ~\E j \in 1 .. (i - 1) :
          /\ f.mods[j].name = f.mods[i].name /\ f.mods[j].at = f.mods[i].at
          /\ tests \/ ~f.mods[j].test}

\* rank: the places of the root and of the declarations that lead to a module.
Entry(path, file, rank) == [path |-> path, file |-> file, rank |-> rank]
Children(e, tests) ==
  UNION {UNION {{Entry(Append(e.path, f.mods[i].name), child, Append(e.rank, i)) :
                   child \in ModFile(ChildDir(e.file, Len(e.rank) = 1), f.mods[i])} :
                  i \in ModDeclarations(f, tests)} : f \in Parsed(e.file)}

\* What declarations lead to from the roots on.
Walk(roots, tests) ==
  LET walked[k \in Nat] ==
        IF k = 0 THEN roots
        ELSE LET near == walked[k - 1] IN near \cup UNION {Children(e, tests) : e \in near}
  IN  walked[Cardinality(Files)]

RootEntries(c) == {Entry(<<>>, c.roots[i], <<i>>) : i \in DOMAIN c.roots}

\* The declared paths, whether their files are there or not.
SynModulePaths(c) ==
  UNION {UNION {{Append(e.path, f.mods[i].name) : i \in ModDeclarations(f, Switches.includeTests)} :
                  f \in Parsed(e.file)} : e \in Walk(RootEntries(c), Switches.includeTests)}

CrateNames == {c.name : c \in Range(crates)}
CrateNamed(name) == CHOOSE c \in Range(crates) : c.name = name

CollectModulePaths ==
  /\ pc = "modulePaths"
  /\ pc' = "crateExports"
  /\ modulePaths' = [name \in CrateNames |-> SynModulePaths(CrateNamed(name))]
  /\ UNCHANGED <<project, crates, externals, crateExports>>

\* What the library's root file exports by name.
Exports(c) ==
  IF c.lib = <<>> THEN {}
  ELSE UNION {{d.name : d \in {x \in Range(f.defs) : x.vis = "pub"}}
              \cup ({u.as : u \in {x \in Range(f.uses) : x.vis = "pub" /\ x.region = 1}} \ {"*"}) :
              f \in Parsed(c.lib[1])}

CollectCrateExports ==
  /\ pc = "crateExports"
  /\ pc' = "reexports"
  /\ crateExports' = [name \in CrateNames |-> Exports(CrateNamed(name))]
  /\ UNCHANGED <<project, crates, externals, modulePaths>>

\* tests/*.rs, each a root of its own.
TestEntries(c) ==
  LET dir == Append(c.dir, "tests")
      tests == SetToSeq({f \in Files : f[1] = dir})
  IN  {Entry(<<"tests", tests[i][2]>>, tests[i], <<Len(c.roots) + i>>) : i \in DOMAIN tests}

\* Of modules with one path under different roots the first root's stays.
Precedes(r, s) ==
  \E i \in DOMAIN r \cap DOMAIN s : r[i] < s[i] /\ SubSeq(r, 1, i - 1) = SubSeq(s, 1, i - 1)
InOrder(r, s) == IsPrefix(r, s) \/ Precedes(r, s)
Stays(walked, e, roots) ==
  LET top(x) == {t \in walked : Len(t.rank) = 2 /\ IsPrefix(t.rank, x.rank)}
  IN  \A t \in top(e) :
        \/ t.rank[1] \notin 2 .. roots
        \/ ~\E u \in walked : Len(u.rank) = 2 /\ u.path = t.path /\ Precedes(u.rank, t.rank)

\* The modules of the crate's tree, its roots included.
ModuleTree(c) ==
  LET walked == Walk(RootEntries(c), Switches.includeTests)
  IN  {e \in walked : Stays(walked, e, Len(c.roots))}
        \cup (IF Switches.includeTests THEN Walk(TestEntries(c), TRUE) ELSE {})

=============================================================================

-------------------------------- MODULE Cargo --------------------------------
(***************************************************************************)
(* The workspace as cargo describes it (src/src/analyze/workspace.rs,       *)
(* filtering.rs, externals.rs): the crates that a run analyses and the      *)
(* packages around them.                                                    *)
(*                                                                         *)
(* Names are those in the code (normalize_crate_name); a package is known   *)
(* by its place in cargo's list, its id.                                    *)
(***************************************************************************)
EXTENDS DependencyGraph

VARIABLES
  project,          \* cargo's metadata, the files and the switches of the run
  crates,           \* the crates that are analysed, with their target roots
  externals         \* the packages outside the workspace

\* lib and bins: the files of the targets; registry: from outside of the disk.
Package == {"name", "dir", "member", "registry", "features", "lib", "bins", "deps"}

\* pkg: the package that fulfils it; name: what the code calls it.
NodeDep == {"pkg", "name", "kinds"}

\* features: of all crates or of a named one, in pairs <<crate, feature>>.
Options == {"features", "allFeatures", "includeTests", "externals", "transitive", "includeReexports"}

Packages == project.packages
Switches == project.options
MembersOfWorkspace == {i \in DOMAIN Packages : Packages[i].member}
MemberNames == {Packages[i].name : i \in MembersOfWorkspace}

-----------------------------------------------------------------------------
EffectiveKind(dep) ==
  CASE "normal" \in dep.kinds -> "normal"
    [] "normal" \notin dep.kinds /\ "dev" \in dep.kinds -> "dev"
    [] OTHER -> "build"

\* A package counts as a member by its name.
Origin(dep) == IF Packages[dep.pkg].name \in MemberNames THEN "workspace" ELSE "external"

ResolvedDeps(p, kind) ==
  {Packages[d.pkg].name : d \in {e \in p.deps : EffectiveKind(e) = kind /\ Origin(e) = "workspace"}}

HasFeature(p) == \E f \in Switches.features : f[1] \in {NoItem, p.name} /\ f[2] \in p.features
SelectsByFeature == Switches.features # {} /\ ~Switches.allFeatures
SeedCrates ==
  IF SelectsByFeature THEN {p.name : p \in {q \in Range(Packages) : q.name \in MemberNames /\ HasFeature(q)}}
  ELSE MemberNames

ReachableCrates ==
  ReachedFrom(SeedCrates, UNION {{Packages[i].name} \X ResolvedDeps(Packages[i], "normal") :
                                   i \in MembersOfWorkspace})

IsIncluded(p) == p.member /\ (SelectsByFeature => p.name \in ReachableCrates)

\* A crate to analyse: its roots, the library's first.
CrateToAnalyse(p) ==
  [name |-> p.name, dir |-> p.dir, lib |-> p.lib, roots |-> p.lib \o p.bins,
   files |-> p.lib \o p.bins \o <<<<p.dir, "Cargo.toml">>>>,
   dependencies |-> ResolvedDeps(p, "normal"), devDependencies |-> ResolvedDeps(p, "dev")]

AnalyzeWorkspace ==
  LET included == SelectSeq(Packages, IsIncluded)
  IN  /\ pc = "metadata"
      /\ pc' = "modulePaths"
      /\ crates' = [i \in DOMAIN included |-> CrateToAnalyse(included[i])]
      /\ UNCHANGED <<project, externals>>

-----------------------------------------------------------------------------
IsRelevant(dep) == dep.kinds \cap {"normal", "dev"} # {}
RegistryDeps(i) == {d \in Packages[i].deps : Packages[d.pkg].registry /\ IsRelevant(d)}

DirectExternals == UNION {{d.pkg : d \in RegistryDeps(i)} : i \in MembersOfWorkspace}
ReachableExternals ==
  IF Switches.transitive
  THEN ReachedFrom(DirectExternals,
         UNION {{i} \X {d.pkg : d \in RegistryDeps(i)} : i \in DOMAIN Packages \ MembersOfWorkspace})
  ELSE DirectExternals

\* What the code of each member calls the packages it depends on.
CrateNameMap ==
  [name \in MemberNames |->
     UNION {{d.name : d \in RegistryDeps(i)} : i \in {j \in MembersOfWorkspace : Packages[j].name = name}}]

\* The edges to what was reached, by the places of both ends.
ExternalEdges(from) ==
  {<<i, d>> \in from \X UNION {Packages[i].deps : i \in from} :
     d \in Packages[i].deps /\ d.pkg \in ReachableExternals /\ IsRelevant(d)}

NoExternals == [packages |-> <<>>, workspaceDeps |-> {}, externalDeps |-> {}, names |-> [n \in {} |-> {}]]

AnalyzeExternals ==
  LET found == SetToSeq(ReachableExternals)
      place(i) == CHOOSE k \in DOMAIN found : found[k] = i
      kinds(d) == d.kinds \cap {"normal", "dev"}
      member(i) == {k \in DOMAIN crates : crates[k].name = Packages[i].name}
  IN  /\ pc = "packages"
      /\ pc' = "moduleTrees"
      /\ externals' =
           IF ~Switches.externals THEN NoExternals
           ELSE [packages |-> [k \in DOMAIN found |-> Packages[found[k]].name],
                 workspaceDeps |-> UNION {{<<k, place(e[2].pkg), kinds(e[2])>> : k \in member(e[1])} :
                                            e \in ExternalEdges(MembersOfWorkspace)},
                 externalDeps |-> IF Switches.transitive
                                  THEN {<<place(e[1]), place(e[2].pkg), kinds(e[2])>> :
                                          e \in ExternalEdges(ReachableExternals)}
                                  ELSE {},
                 names |-> CrateNameMap]
      /\ UNCHANGED <<project, crates>>

=============================================================================

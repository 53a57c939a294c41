---------------------------- MODULE PathResolution ----------------------------
(***************************************************************************)
(* What module and item a path of the code names, as far as the declared    *)
(* modules tell (resolve_single_path in src/src/analyze/use_parser/mod.rs). *)
(*                                                                         *)
(* A resolver answers with the set of what it finds, one target at most.    *)
(***************************************************************************)
EXTENDS SourceTree

\* to: a crate's name and the module's path in it; item: a name there, * for
\* a glob.
Target(to, item) == [to |-> to, item |-> item]

\* Where a file stands, and what crates it may name beside the workspace's.
Context(crate, module, names) == [crate |-> crate, module |-> module, externals |-> names]

FirstOf(answers) ==
  LET some == {i \in DOMAIN answers : answers[i] # {}}
  IN  IF some = {} THEN {} ELSE answers[Min(some)]

-----------------------------------------------------------------------------
ItemAt(parts, i) == IF i \in DOMAIN parts THEN parts[i] ELSE NoItem

\* Mutant: the shortest module on the way.
InCrateByFirst(c, parts) == Target(<<c, parts[1]>>, ItemAt(parts, 2))

\* The longest path of a module, or else the first name as if it were one.
InCrate(c, parts) ==
  LET known == {k \in DOMAIN parts : SubSeq(parts, 1, k) \in modulePaths[c]}
      k == IF known = {} THEN 1 ELSE Max(known)
  IN  Target(<<c>> \o SubSeq(parts, 1, k), ItemAt(parts, k + 1))

CrateLocalImport(ctx, path) ==
  {InCrate(ctx.crate, Tail(p)) : p \in {q \in {path} : Len(q) > 1 /\ q[1] = "crate" /\ q[2] # ""}}

\* A child of the file's own module.
BareModuleImport(ctx, path) ==
  {InCrate(ctx.crate, ctx.module \o p) :
     p \in {q \in {path} : Append(ctx.module, q[1]) \in modulePaths[ctx.crate]}}

\* What the other crate's root exports by name is found there.
InOtherCrate(path) ==
  LET found == InCrate(path[1], Tail(path))
  IN  IF Tail(found.to) \notin modulePaths[path[1]] /\ path[2] \in crateExports[path[1]]
      THEN Target(<<path[1]>>, path[2])
      ELSE found
WorkspaceImport(path) ==
  {InOtherCrate(p) : p \in {q \in {path} : Len(q) > 1 /\ q[1] \in CrateNames}}

BareCrate(path) == {Target(<<c>>, NoItem) : c \in {d \in CrateNames : path = <<d>>}}

\* The rest of the path is the item, whole.
Joined(parts) == FoldLeft(LAMBDA a, b : a \o "::" \o b, Head(parts), Tail(parts))
ExternalCrateImport(ctx, path) ==
  {Target(<<c>>, IF Len(path) > 1 THEN Joined(Tail(path)) ELSE NoItem) :
     c \in {path[1]} \cap ctx.externals}

Chained(ctx, path) ==
  FirstOf(<<CrateLocalImport(ctx, path), BareModuleImport(ctx, path), WorkspaceImport(path),
            BareCrate(path), ExternalCrateImport(ctx, path)>>)

\* The path from the crate's root that super:: and self:: stand for, where
\* they lead out of the file's inline modules.
Relative(ctx, path, depth) ==
  LET others == {i \in DOMAIN path : path[i] # "super"}
      supers == IF others = {} THEN Len(path) ELSE Min(others) - 1
      up == supers - depth
  IN  IF supers > depth
      THEN {SubSeq(m, 1, Len(m) - up) \o SubSeq(path, supers + 1, Len(path)) :
              m \in {n \in {ctx.module} : up <= Len(n)}}
      ELSE {ctx.module \o Tail(p) : p \in {q \in {path} : depth = 0 /\ q[1] = "self"}}

\* depth: how many inline modules of the file the path stands in.
ResolvePath(ctx, path, depth) ==
  LET relative == Relative(ctx, path, depth)
  IN  IF relative # {}
      THEN UNION {CrateLocalImport(ctx, <<"crate">> \o r) : r \in relative}
      ELSE IF Len(path) > 1 /\ Last(path) = "*"
      THEN {[t EXCEPT !.item = "*"] : t \in Chained(ctx, Front(path))}
      ELSE Chained(ctx, path)

=============================================================================

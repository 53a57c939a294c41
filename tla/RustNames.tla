------------------------------ MODULE RustNames ------------------------------
(***************************************************************************)
(* What names mean in Rust, for the code outside of tests: the reference    *)
(* that the dependencies found are held against.                            *)
(*                                                                         *)
(* A meaning is a module, or an item where it is defined, and `seen` is the *)
(* module whose descendants may name it. Types and values share one         *)
(* namespace, and what lies outside of the workspace is an item. B is what   *)
(* is bound, in every module.                                               *)
(***************************************************************************)
EXTENDS Analysis

Meaning(to, item, seen) == [to |-> to, item |-> item, seen |-> seen]
Everyone == <<>>

\* The modules of the crates with one root file.
Place(c, e) ==
  [at |-> <<c.name>> \o e.path, holds |-> project.files[e.file],
   crates |-> {c.name} \cup c.dependencies, outside |-> {"std"} \cup CrateNameMap[c.name]]
Places ==
  UNION {{Place(c, e) : e \in {x \in Walk(RootEntries(c), FALSE) : Parsed(x.file) # {}}} :
           c \in {d \in {CrateToAnalyse(p) : p \in {q \in Range(Packages) : IsIncluded(q)}} : Len(d.roots) = 1}}

SeenFrom(vis, at) ==
  CASE vis = "pub" -> Everyone
    [] vis = "crate" -> <<at[1]>>
    [] vis = "super" -> IF Len(at) = 1 THEN at ELSE Front(at)
    [] OTHER -> at

Binds(at, name, means) == [at |-> at, name |-> name, means |-> means]
Declares(p) ==
  {Binds(p.at, d.name, Meaning(p.at, d.name, SeenFrom(d.vis, p.at))) : d \in Range(p.holds.defs)}
    \cup {Binds(p.at, m.name, Meaning(Append(p.at, m.name), NoItem, SeenFrom(m.vis, p.at))) :
            m \in {x \in Range(p.holds.mods) : ~x.test}}

\* The `use` items of the module itself, and the names that no glob brings in.
Leaves(p) == {u \in Range(p.holds.uses) : u.region = 1 /\ ~u.test}
Explicit(p) ==
  {d.name : d \in Range(p.holds.defs)} \cup {m.name : m \in Range(p.holds.mods)}
    \cup ({u.as : u \in Leaves(p)} \ {"*"})

-----------------------------------------------------------------------------
\* What a path written in module p means.
Nameable(B, viewer, at, name) ==
  {b.means : b \in {x \in B : x.at = at /\ x.name = name /\ IsPrefix(x.means.seen, viewer)}}
Outside == "outside"
FirstMeans(B, p, name) ==
  CASE name = "crate" -> {Meaning(<<p.at[1]>>, NoItem, Everyone)}
    [] name = "self" -> {Meaning(p.at, NoItem, Everyone)}
    [] name = "super" -> {Meaning(Front(p.at), NoItem, Everyone)}
    [] OTHER -> Nameable(B, p.at, p.at, name)
                \cup {Meaning(<<c>>, NoItem, Everyone) : c \in {name} \cap p.crates}
                \cup {Meaning(<<c>>, Outside, Everyone) : c \in {name} \cap p.outside}
RestMeans(B, p, first, path) ==
  LET means[k \in Nat] ==
        IF k = 1 THEN first
        ELSE UNION {IF m.item # NoItem THEN {m}
                    ELSE IF path[k] = "super" THEN {Meaning(Front(m.to), NoItem, Everyone)}
                    ELSE Nameable(B, p.at, m.to, path[k]) : m \in means[k - 1]}
  IN  means[Len(path)]
PathMeans(B, p, path) == RestMeans(B, p, FirstMeans(B, p, path[1]), path)
ImportMeans(B, p, u) == PathMeans(B, p, IF u.as = "*" THEN Front(u.path) ELSE u.path)

\* A path in the code begins with what a block around it binds, if one does.
RefMeans(B, p, ref) ==
  LET out == Enclosing(p.holds, ref.region)
      inBlock(r) == {u \in Range(p.holds.uses) : u.region = r /\ r # 1 /\ u.as = ref.path[1]}
      blocks == FirstOf([k \in DOMAIN out |-> inBlock(out[k])])
      first == IF blocks = {} THEN FirstMeans(B, p, ref.path[1])
               ELSE UNION {PathMeans(B, p, u.path) : u \in blocks}
  IN  RestMeans(B, p, first, ref.path)

\* What a leaf of p binds in its turn. A glob brings what p may name.
LeafBinds(B, p, u) ==
  LET seen == SeenFrom(u.vis, p.at)
      bind(name, m) == Binds(p.at, name, [m EXCEPT !.seen = IF Len(@) > Len(seen) THEN @ ELSE seen])
      brought(m) == {x \in B : /\ x.at = m.to /\ IsPrefix(x.means.seen, p.at)
                               /\ x.name \notin Explicit(p)}
  IN  IF u.as # "*" THEN {bind(u.as, m) : m \in PathMeans(B, p, u.path)}
      ELSE UNION {{bind(b.name, b.means) : b \in brought(m)} :
                    m \in {x \in ImportMeans(B, p, u) : x.item = NoItem}}

\* Everything that is bound in the places, through as many leaves as they have.
BoundIn(places) ==
  LET leaves == UNION {{<<p, u>> : u \in Leaves(p)} : p \in places}
      bound[k \in Nat] ==
        IF k = 0 THEN UNION {Declares(p) : p \in places}
        ELSE LET B == bound[k - 1] IN B \cup UNION {LeafBinds(B, x[1], x[2]) : x \in leaves}
  IN  bound[Cardinality(leaves)]

-----------------------------------------------------------------------------
\* What the code outside of tests and of inline modules writes.
IsPlain(p, region) ==
  \A r \in Range(Enclosing(p.holds, region)) : ~p.holds.regions[r].test /\ ~p.holds.regions[r].module
Imports(p) == {u \in Range(p.holds.uses) : ~u.test /\ IsPlain(p, u.region)}
Named(p) == {u \in Imports(p) : u.as # "*"}
Globs(p) == Imports(p) \ Named(p)
Written(p) == {n \in Range(p.holds.code) : IsPlain(p, n.region)}
CodePaths(p) == {n \in Written(p) : n.is \notin {"binding", "scope"} /\ n.path # <<>>}

\* The longest paths that tokens may spell.
Spelled(tokens) ==
  LET isName(i) == /\ i \in DOMAIN tokens /\ tokens[i] \notin Punctuation
                   /\ i > 1 => tokens[i - 1] # "'"
      isJoined(i) == isName(i) /\ isName(i + 2) /\ tokens[i + 1] = "::"
      runs == {<<i, n>> \in (1 .. Len(tokens)) \X (0 .. Len(tokens)) :
                 /\ isName(i) /\ ~isJoined(i - 2) /\ ~isJoined(i + 2 * n)
                 /\ \A k \in 1 .. n : isJoined(i + 2 * (k - 1))}
  IN  {[k \in 1 .. (r[2] + 1) |-> tokens[r[1] + 2 * (k - 1)]] : r \in runs}
InTokens(p) ==
  UNION {{[n EXCEPT !.is = "token", !.path = path] : path \in Spelled(n.tokens)} : n \in Written(p)}
References(p) == CodePaths(p) \cup {n \in Written(p) : n.is = "binding"} \cup InTokens(p)

MeansOne(means) == Cardinality({Target(m.to, m.item) : m \in means}) = 1

\* Every name means one thing, and none is shown to more than may see it.
IsRust(places, B) ==
  \A p \in places :
    /\ \A u \in Imports(p) : MeansOne(ImportMeans(B, p, u))
    /\ \A u \in Globs(p) : \A m \in ImportMeans(B, p, u) : m.item = NoItem
    /\ \A u \in {v \in Named(p) : Republishes(v.vis)} :
         \E m \in ImportMeans(B, p, u) : IsPrefix(m.seen, SeenFrom(u.vis, p.at))
    /\ \A r \in CodePaths(p) : MeansOne(RefMeans(B, p, r))
    /\ \A n \in Explicit(p) :
         Cardinality({b \in Declares(p) : b.name = n}) + Cardinality({u \in Leaves(p) : u.as = n}) = 1

-----------------------------------------------------------------------------
\* Ways of writing that the analysis does not follow. A path is followed along
\* declared modules, or behind a module that the file imports by name, up to
\* the item; not from the crate's own root, nor to what only a glob brings to
\* the root of another crate. Inline modules are not judged.
DeclaredModule(places, p, path) ==
  {m.to : m \in PathMeans({b \in UNION {Declares(q) : q \in places} : b.means.item = NoItem}, p, path)}

FollowsPath(places, p, path) ==
  \/ path[1] \in p.outside
  \/ DeclaredModule(places, p, path) # {}
  \/ \E k \in 2 .. Len(path) :
       \E m \in DeclaredModule(places, p, SubSeq(path, 1, k - 1)) \ {<<p.at[1]>>} :
         /\ Len(m) = 1 => \E q \in places : q.at = m /\ path[k] \in Explicit(q)
         /\ DeclaredModule(places, p, SubSeq(path, 1, k)) = {}

\* Globs within the crate, and none that lends a module's own imports.
FollowsGlob(places, p, path) ==
  \E m \in DeclaredModule(places, p, Front(path)) :
    /\ m[1] = p.at[1] /\ Len(m) > 1
    /\ IsPrefix(m, p.at) =>
         ~\E q \in places : q.at = m /\ \E u \in Leaves(q) : u.as # "*" /\ u.vis = "private"

FollowsReference(places, B, p, r) ==
  \/ Len(r.path) = 1
  \/ \E m \in FirstMeans(B, p, r.path[1]) : m.item # NoItem
  \/ FollowsPath(places, p, r.path)
  \/ \E u \in Named(p) : u.as = r.path[1] /\ FollowsPath(places, p, u.path \o Tail(r.path))

IsFollowed(places, B) ==
  \A p \in places :
    /\ \A u \in Named(p) : FollowsPath(places, p, u.path)
    /\ \A u \in Globs(p) : FollowsGlob(places, p, u.path)
    /\ \A r \in CodePaths(p) : FollowsReference(places, B, p, r)
    /\ \A d \in Range(p.holds.defs) : Republishes(d.vis)
    /\ \A r \in Range(p.holds.regions) : r.module => r.test

-----------------------------------------------------------------------------
HasImport(a, b) ==
  \E e \in EdgeSet : e.src \in Resolve(a) /\ e.dst \in Resolve(b) /\ IsProductionModuleDep(e)

\* The modules whose items, or whole selves, p names.
NamedBy(B, p, refs) ==
  {m.to : m \in UNION ({ImportMeans(B, p, u) : u \in Named(p)}
                        \cup {RefMeans(B, p, r) : r \in refs})}

\* Those whose names p takes as a whole, and what they stand for.
TakenBy(B, p) ==
  UNION {{m.to} \cup {b.means.to : b \in {x \in B : x.at = m.to}} :
           m \in UNION {ImportMeans(B, p, u) : u \in Globs(p)}}

DefinersReached(places, B) ==
  IsRust(places, B) /\ IsFollowed(places, B) =>
    \A p \in places : \A to \in (NamedBy(B, p, CodePaths(p)) \ {p.at}) \cap {q.at : q \in places} : HasImport(p.at, to)
OnlyMeantReached(places, B) ==
  IsRust(places, B) /\ IsFollowed(places, B) =>
    \A p, q \in places :
      p # q /\ HasImport(p.at, q.at) => q.at \in NamedBy(B, p, References(p)) \cup TakenBy(B, p)

-----------------------------------------------------------------------------
\* What a path takes from the item of meaning m: what its position asks for, or
\* what is there under the name that the path writes after the item.
KindMeant(places, m) ==
  UNION {{d.kind : d \in {x \in Range(q.holds.defs) : x.name = m.item}} : q \in {x \in places : x.at = m.to}}
BlocksMeant(places, B, m) ==
  UNION {{b \in Range(q.holds.blocks) :
            Target(m.to, m.item) \in {Target(x.to, x.item) : x \in PathMeans(B, q, b.path)}} : q \in places}
WritesAfter(B, p, n) ==
  /\ Len(n.path) > 1
  /\ \E m \in RefMeans(B, p, [n EXCEPT !.path = Front(@)]) : m.item # NoItem
Anything == {"types", "values", "fns"}
TakesMember(blocks, name) ==
  CASE \E b \in blocks : name \in b.variants -> {"types"}
    [] \E b \in blocks : name \in b.fns -> {"fns"}
    [] \E b \in blocks : name \in b.consts -> {"values"}
    [] OTHER -> Anything
TakesWhole(kind, is) ==
  CASE kind \subseteq {"struct", "enum"} -> {"types"}
    [] is \in {"callee", "macro"} \/ kind = {"fn"} -> {"fns"}
    [] kind \subseteq {"const", "static"} -> {"values"}
    [] OTHER -> {"types"}
Takes(places, B, p, n, m) ==
  IF n.is \in {"type", "bound", "impl", "construct"} THEN {"types"}
  ELSE IF WritesAfter(B, p, n) THEN TakesMember(BlocksMeant(places, B, m), Last(n.path))
  ELSE TakesWhole(KindMeant(places, m), n.is)

\* In tokens a path that begins with a module is not followed; a bare name in a
\* pattern may be a variable's.
Counts(places, B, p, n, m) ==
  /\ n.is = "token" => \E x \in RefMeans(B, p, [n EXCEPT !.path = <<@[1]>>]) : x.item # NoItem
  /\ n.is = "binding" => KindMeant(places, m) \cap {"const", "static", "struct"} # {}

\* The uses of m that are listed of p, against the places where p names it. An
\* import alone is a use only of a trait's methods, or a dead one.
IsUse(u, n, takes) == u.line = n.line /\ u.category \in takes /\ ~u.inferred
IsImportAlone(u, lines, kind) ==
  /\ u.line \in lines
  /\ u.inferred <=> kind = {"trait"}
  /\ u.category \in IF u.inferred THEN {"fns"} ELSE TakesWhole(kind, "value")
UsesOf(places, B, p, m, uses) ==
  LET naming == {n \in References(p) :
                   /\ Target(m.to, m.item) \in {Target(x.to, x.item) : x \in RefMeans(B, p, n)}
                   /\ Counts(places, B, p, n, m)}
  IN  /\ \A n \in naming \cap CodePaths(p) : \E u \in uses : IsUse(u, n, Takes(places, B, p, n, m))
      /\ \A u \in uses :
           \/ \E n \in naming : IsUse(u, n, Takes(places, B, p, n, m))
           \/ /\ naming = {}
              /\ IsImportAlone(u, {v.line : v \in Named(p)}, KindMeant(places, m))

\* Of the modules with one region of code, the items that the places define.
UsesAreMeant(places, B) ==
  IsRust(places, B) /\ IsFollowed(places, B) =>
    \A p, q \in {x \in places : \A r \in Range(x.holds.regions) : ~r.module} :
      \A d \in {x \in UNION {RefsOf(n) : n \in Resolve(p.at)} : x.kind = "production" /\ x.to = q.at} :
        p # q /\ d.item \in {x.name : x \in Range(q.holds.defs)} =>
          UsesOf(places, B, p, Target(d.to, d.item), {l.use : l \in LoggedUses({d})})

(***************************************************************************)
(* Whatever way a module imports or writes an item, by re-exports, private  *)
(* imports of an ancestor, globs or its file's bindings, it depends on the  *)
(* module that defines the item (docs/adr/020: "Every import is traced back *)
(* to the original `pub` item"), and on nothing else: a module that an item *)
(* only passes through is no dependency ("spurious dependencies to the      *)
(* parent module"). The uses that the log lists of the item are the places  *)
(* that name it, each with what is taken there: a type, a value or a        *)
(* function, by what the item or its member is.                             *)
(***************************************************************************)
ImportsAreFollowed ==
  pc = "externals" =>
    \A places \in {Places} : \A bound \in {BoundIn(places)} :
      /\ DefinersReached(places, bound) /\ OnlyMeantReached(places, bound)
      /\ UsesAreMeant(places, bound)

=============================================================================

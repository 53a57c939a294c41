------------------------------ MODULE UseParser ------------------------------
(***************************************************************************)
(* The dependencies that a file writes (parse_file_dependencies in          *)
(* src/src/analyze/use_parser/mod.rs): those of its `use` items, and those  *)
(* of the paths in its code, by what the `use` items around them bind.      *)
(***************************************************************************)
EXTENDS Reexports

CONSTANTS
  Capitalised,   \* the names that begin with a capital,
  UpperCase      \* and those of them without a small letter

ASSUME SpellingAssumption == UpperCase \subseteq Capitalised

-----------------------------------------------------------------------------
(***************************************************************************)
(* What one use takes from an item: a type's name, a value to read or a     *)
(* function to call (categorize).                                           *)
(***************************************************************************)
\* inferred: a trait that is imported and never named, for its methods.
SymbolUse(line, category, inferred) == [line |-> line, category |-> category, inferred |-> inferred]

IsKnown(t) == t.to \in DOMAIN reexports

\* What is known of the item of d; its kind is a set of at most one.
ToldOf(d) == IF IsKnown(d) THEN reexports[d.to] ELSE NothingTold
DefinitionKind(d) ==
  LET known == ToldOf(d).definitions IN {known[n].kind : n \in {d.item} \cap DOMAIN known}
AssociatedItems(d) ==
  LET known == ToldOf(d).associated IN AddUp({known[n] : n \in {d.item} \cap DOMAIN known})

CategoryByConvention(name) ==
  IF name \in UpperCase THEN "values" ELSE IF name \in Capitalised THEN "types" ELSE "fns"
CategoryOfUnknownCall(name) == IF name \in Capitalised THEN "types" ELSE "fns"

CategoryOfAssociated(items, name, position) ==
  CASE name \in items.variants -> "types"
    [] name \in items.fns -> "fns"
    [] name \in items.consts -> "values"
    [] position = "Call" -> CategoryOfUnknownCall(name)
    [] OTHER -> CategoryByConvention(name)
CategoryOfItem(kind, name, position) ==
  CASE kind = {} -> IF position = "Call" THEN CategoryOfUnknownCall(name) ELSE CategoryByConvention(name)
    [] kind \subseteq {"struct", "enum"} -> "types"
    [] position = "Call" \/ kind = {"fn"} -> "fns"
    [] kind \subseteq {"const", "static"} -> "values"
    [] OTHER -> "types"

\* The position decides, or else what is named: `associated`, one name at most,
\* is what the path writes after the item.
Categorize(d, position, associated) ==
  IF position \in {"Type", "Construct"} THEN "types"
  ELSE IF associated = {} THEN CategoryOfItem(DefinitionKind(d), d.item, position)
  ELSE CategoryOfAssociated(AssociatedItems(d), CHOOSE name \in associated : TRUE, position)

\* The use of an import that nothing in the file names.
ImportOnlyUse(d) ==
  LET isTrait == DefinitionKind(d) = {"trait"}
  IN  SymbolUse(d.at[2], IF isTrait THEN "fns" ELSE Categorize(d, "Value", {}), isTrait)
WithImportOnlyUse(d) ==
  IF d.uses # {} \/ d.reexport \/ d.item \in {NoItem, "*"} THEN d
  ELSE [d EXCEPT !.uses = {ImportOnlyUse(d)}]

\* A pattern matches only these by a bare name; any other name is a variable's.
IsMatchedByABarePattern(d) == DefinitionKind(d) \cap {"const", "static", "struct"} # {}

-----------------------------------------------------------------------------
(***************************************************************************)
(* The paths that a file's code writes, each with its position              *)
(* (collect_all_path_refs).                                                 *)
(***************************************************************************)
\* macro: read off tokens, which are not parsed.
PathRef(node, path, position, macro) ==
  [path |-> path, line |-> node.line, region |-> node.region, position |-> position,
   macro |-> macro]

SetsPosition ==
  [type |-> "Type", bound |-> "Type", impl |-> "Type", value |-> "Value", callee |-> "Call",
   macro |-> "Call", construct |-> "Construct", binding |-> "Binding"]

\* Mutant: a position holds on where another was entered within it.
PositionsOfOutermost(f) ==
  LET at[i \in Nat] ==
        IF i = 0 THEN "Value"
        ELSE IF f.code[i].inside # 0 THEN at[f.code[i].inside]
        ELSE IF f.code[i].is \in DOMAIN SetsPosition THEN SetsPosition[f.code[i].is]
        ELSE "Value"
  IN  [i \in DOMAIN f.code |-> at[i]]

\* That of the innermost node that has one.
Positions(f) ==
  LET at[i \in Nat] ==
        IF i = 0 THEN "Value"
        ELSE IF f.code[i].is \in DOMAIN SetsPosition THEN SetsPosition[f.code[i].is]
        ELSE at[f.code[i].inside]
  IN  [i \in DOMAIN f.code |-> at[i]]

\* Names joined by ::, wherever they stand in the tokens. After a tick a name
\* is a lifetime's.
Punctuation == {"::", "'", "&", ",", "(", ")"}
IsName(tokens, i) ==
  /\ i \in DOMAIN tokens /\ tokens[i] \notin Punctuation
  /\ i > 1 => tokens[i - 1] # "'"
GoesOn(tokens, i) == IsName(tokens, i + 2) /\ tokens[i + 1] = "::"
TokenPaths(tokens) ==
  LET from[i \in Nat] == <<tokens[i]>> \o (IF GoesOn(tokens, i) THEN from[i + 2] ELSE <<>>)
      starts == {i \in DOMAIN tokens : /\ IsName(tokens, i)
                                       /\ IsName(tokens, i - 2) => ~GoesOn(tokens, i - 2)}
      order == SetToSortSeq(starts, <)
  IN  [k \in DOMAIN order |-> from[order[k]]]

\* A scope names no dependency.
NodeRefs(node, position) ==
  LET paths == IF node.is = "scope" \/ node.path = <<>> THEN <<>>
               ELSE <<PathRef(node, node.path, position, FALSE)>>
      tokens == TokenPaths(node.tokens)
  IN  paths \o [k \in DOMAIN tokens |-> PathRef(node, tokens[k], "Value", TRUE)]

PathRefs(f) ==
  LET positions == Positions(f)
  IN  FlattenSeq([i \in DOMAIN f.code |-> NodeRefs(f.code[i], positions[i])])

-----------------------------------------------------------------------------
Dep(t, at, kind, reexport) ==
  [to |-> t.to, item |-> t.item, at |-> at, kind |-> kind, reexport |-> reexport, uses |-> {}]
FullTarget(d) == IF d.item = NoItem THEN d.to ELSE Append(d.to, d.item)
DepKey(d) == <<FullTarget(d), d.kind>>

\* Of dependencies with one target and kind the first, a re-export if all are,
\* with the uses of all.
Deduplicate(deps) ==
  LET same(i) == {j \in DOMAIN deps : DepKey(deps[j]) = DepKey(deps[i])}
  IN  {[deps[i] EXCEPT !.reexport = \A j \in same(i) : deps[j].reexport,
                       !.uses = UNION {deps[j].uses : j \in same(i)}] :
         i \in {k \in DOMAIN deps : k = Min(same(k))}}

-----------------------------------------------------------------------------
\* A region and what encloses it, from it outwards.
Enclosing(f, region) ==
  LET out[r \in Nat] == IF r = 0 THEN <<>> ELSE <<r>> \o out[f.regions[r].parent]
  IN  out[region]
InlineDepth(f, region) ==
  Cardinality({r \in Range(Enclosing(f, region)) : f.regions[r].module})
KindIn(s, region) ==
  IF \E r \in Range(Enclosing(s.holds, region)) : s.holds.regions[r].test THEN "test" ELSE s.kind

\* What the leaf u of a `use` resolves to. The file s comes with its context,
\* what it holds and the kind of its code.
LeafDeps(s, u) ==
  {Dep(t, <<s.file, u.line>>, IF u.test THEN "test" ELSE KindIn(s, u.region), Republishes(u.vis)) :
     t \in ResolvePath(s.ctx, u.path, InlineDepth(s.holds, u.region))}

\* With it the file is ready for what follows.
WithLeaves(s) ==
  s @@ [leaves |-> [i \in DOMAIN s.holds.uses |-> LeafDeps(s, s.holds.uses[i])],
        refs |-> PathRefs(s.holds)]

\* The names that a glob republishes, or the glob where they are not known.
ExpandGlob(d) ==
  LET names == IF d.item # "*" \/ ~IsKnown(d) THEN {}
               ELSE DOMAIN reexports[d.to].definitions \cup DOMAIN reexports[d.to].explicit
  IN  IF names = {} THEN {d} ELSE {[d EXCEPT !.item = n] : n \in names}

\* A private glob whose module is known waits for the names that the code uses.
UseDeps(s) ==
  LET waits(d) == d.item = "*" /\ IsKnown(d) /\ ~d.reexport
      named(i) == UNION {ExpandGlob(d) : d \in {x \in s.leaves[i] : ~waits(x)}}
  IN  FlattenSeq([i \in DOMAIN s.leaves |->
        SetToSeq(UNION {ResolveReexport(d, s.ctx.module) : d \in named(i)})])

-----------------------------------------------------------------------------
\* What the name that a leaf binds means for the paths that begin with it.
Binding(what, path) == [what |-> what, path |-> path]
ClassifyDep(s, name, d) ==
  LET absolute == IF d.to[1] # s.ctx.crate THEN d.to
                  ELSE <<"crate">> \o (IF Len(d.to) = 1 THEN <<"">> ELSE Tail(d.to))
  IN  IF d.item = NoItem THEN Binding("module", absolute)
      ELSE IF d.to[1] = s.ctx.crate THEN Binding("own", <<>>)
      ELSE IF BareModuleImport(s.ctx, <<name>>) # {} THEN Binding("module", FullTarget(d))
      ELSE Binding("elsewhere", <<>>)
ClassifyBinding(s, i) ==
  IF s.leaves[i] = {} THEN Binding("elsewhere", <<>>)
  ELSE ClassifyDep(s, s.holds.uses[i].as, CHOOSE d \in s.leaves[i] : TRUE)
WithBindings(s) == s @@ [means |-> [i \in DOMAIN s.leaves |-> ClassifyBinding(s, i)]]

LeavesNamed(s, region, name) ==
  {i \in DOMAIN s.leaves : s.holds.uses[i].region = region /\ s.holds.uses[i].as = name}

\* What the leaves of one region bind a path's first name to; the last of each
\* kind counts.
Bound(what, path, deps) == [what |-> what, path |-> path, deps |-> deps]
BoundBy(s, leaves, path) ==
  LET modules == {i \in leaves : s.means[i].what = "module"}
      items == {i \in leaves : \E d \in s.leaves[i] : d.item # NoItem}
  IN  IF modules # {} /\ Len(path) > 1
      THEN {Bound("path", s.means[Max(modules)].path \o Tail(path), {})}
      ELSE IF items # {} THEN {Bound("item", path, s.leaves[Max(items)])}
      ELSE IF leaves \ modules # {} THEN {Bound("elsewhere", path, {})}
      ELSE {}

\* Mutant: any binding of the file counts, wherever it stands.
BindingOfAnywhere(s, path, region) ==
  FirstOf([r \in DOMAIN s.holds.regions |-> BoundBy(s, LeavesNamed(s, r, path[1]), path)])

\* The innermost region that binds the name decides.
BindingOf(s, path, region) ==
  LET out == Enclosing(s.holds, region)
  IN  FirstOf([k \in DOMAIN out |-> BoundBy(s, LeavesNamed(s, out[k], path[1]), path)])

\* The globs of a region whose module is known, in their order.
GlobsIn(s, region) ==
  LET globs == {i \in LeavesNamed(s, region, "*") : \E d \in s.leaves[i] : IsKnown(d)}
      order == SetToSortSeq(globs, <)
  IN  [k \in DOMAIN order |-> CHOOSE d \in s.leaves[order[k]] : TRUE]

\* The file's own items of any depth, which no glob brings in.
LocalDefinitions(f) ==
  {d.name : d \in Range(f.defs)} \cup {m.name : m \in Range(f.mods)} \cup f.inner

\* The globs that hold a name, innermost first.
GlobsFor(s, name, region) ==
  LET out == IF name \in LocalDefinitions(s.holds) THEN <<>> ELSE Enclosing(s.holds, region)
  IN  SelectSeq(FlattenSeq([k \in DOMAIN out |-> GlobsIn(s, out[k])]),
                LAMBDA g : ScopeHolds(g.to[1], Tail(g.to), name, s.ctx.module))

-----------------------------------------------------------------------------
\* What a path stands for: an item, what the path writes after it, and the
\* glob that it is taken from.
RefTarget(d, associated, from) == [dep |-> d, associated |-> associated, from |-> from]
AfterFirst(path) == IF Len(path) > 1 THEN {Last(path)} ELSE {}
GlobTargets(ref, globs) ==
  {RefTarget([globs[k] EXCEPT !.item = ref.path[1]], AfterFirst(ref.path), {DepKey(globs[k])}) :
     k \in DOMAIN globs \cap {1}}

\* A path's target by itself. No path in macro input has one.
OwnTargets(s, ref, path) ==
  {RefTarget(Dep(t, <<s.file, ref.line>>, KindIn(s, ref.region), FALSE),
             {Last(ref.path)} \ {t.item}, {}) :
     t \in IF ref.macro THEN {} ELSE ResolvePath(s.ctx, path, InlineDepth(s.holds, ref.region))}

RefTargets(s, ref, bound) ==
  LET redirected == {b \in bound : b.what = "path"}
      path == IF redirected = {} THEN ref.path ELSE (CHOOSE b \in redirected : TRUE).path
      own == IF redirected = {} /\ Len(path) = 1 THEN {} ELSE OwnTargets(s, ref, path)
      named == IF bound = {} THEN GlobTargets(ref, GlobsFor(s, ref.path[1], ref.region))
               ELSE {RefTarget(d, AfterFirst(ref.path), {}) : d \in UNION {b.deps : b \in bound}}
  IN  IF \E b \in bound : b.what = "elsewhere" THEN {}
      ELSE FirstOf(<<own, named>>)

\* A dependency at its item's definer, and the use that the reference is.
WithUse(d, ref, associated) ==
  IF d.item = NoItem THEN d
  ELSE [d EXCEPT !.uses = {SymbolUse(ref.line, Categorize(d, ref.position, associated), FALSE)}]

\* The reference's dependency, where there is one.
RefDeps(s, ref) ==
  LET counts(d) == ref.position = "Binding" /\ d.item # NoItem => IsMatchedByABarePattern(d)
  IN  UNION {{[dep |-> WithUse(d, ref, x.associated), from |-> x.from] :
                d \in {e \in ResolveReexport(x.dep, s.ctx.module) : counts(e)}} :
               x \in RefTargets(s, ref, BindingOf(s, ref.path, ref.region))}

\* A private glob that nothing is taken from stays itself.
WithUnusedGlobs(taken, globs) ==
  LET used == UNION {taken[i].from : i \in DOMAIN taken}
  IN  [i \in DOMAIN taken |-> taken[i].dep]
        \o SelectSeq(globs, LAMBDA g : ~g.reexport /\ DepKey(g) \notin used)
PathRefDeps(s) ==
  WithUnusedGlobs(FlattenSeq([i \in DOMAIN s.refs |-> SetToSeq(RefDeps(s, s.refs[i]))]),
                  FlattenSeq([r \in DOMAIN s.holds.regions |-> GlobsIn(s, r)]))

DependenciesOf(s) == {WithImportOnlyUse(d) : d \in Deduplicate(UseDeps(s) \o PathRefDeps(s))}
FileDependencies(s) == DependenciesOf(WithBindings(WithLeaves(s)))

=============================================================================

---------------------------- MODULE SampleProjects ----------------------------
(***************************************************************************)
(* Small projects for the model checker: an item that few modules define,   *)
(* and every way in which few `use` items pass it around.                   *)
(***************************************************************************)
EXTENDS RustNames

\* Files.
FileRegion == [parent |-> 0, module |-> FALSE, test |-> FALSE]
EmptyFile ==
  [parses |-> TRUE, mods |-> <<>>, uses |-> <<>>, defs |-> <<>>, inner |-> {}, blocks |-> <<>>,
   code |-> <<>>, regions |-> <<FileRegion>>]
Mod(name) == [name |-> name, at |-> {}, test |-> FALSE, vis |-> "pub"]
Struct(name) == [name |-> name, kind |-> "struct", vis |-> "pub", line |-> 9]
Leaf(path, vis) ==
  [path |-> path, as |-> Last(path), vis |-> vis, region |-> 1, line |-> 2, test |-> FALSE]
PathNode(is, path) == [is |-> is, path |-> path, line |-> 5, region |-> 1, inside |-> 0, tokens |-> <<>>]
Path(path) == PathNode("value", path)
Macro(tokens) == [PathNode("macro", <<"std", "m">>) EXCEPT !.tokens = tokens]

\* Crate a has the modules x, w in x, and y, and depends on crate b, which has z.
Declared ==
  (<<"a">> :> <<<<"a">>, "lib">>) @@ (<<"a", "x">> :> <<<<"a">>, "x">>)
    @@ (<<"a", "x", "w">> :> <<<<"a", "x">>, "w">>) @@ (<<"a", "y">> :> <<<<"a">>, "y">>)
    @@ (<<"b">> :> <<<<"b">>, "lib">>) @@ (<<"b", "z">> :> <<<<"b">>, "z">>)
ModsOf(at) ==
  CASE at = <<"a">> -> <<Mod("x"), Mod("y")>>
    [] at = <<"a", "x">> -> <<Mod("w")>>
    [] at = <<"b">> -> <<Mod("z")>>
    [] OTHER -> <<>>

SamplePackage(name, deps) ==
  [name |-> name, dir |-> <<name>>, member |-> TRUE, registry |-> FALSE, features |-> {},
   lib |-> <<<<<<name>>, "lib">>>>, bins |-> <<>>, deps |-> deps]
Normal(pkg, name) == [pkg |-> pkg, name |-> name, kinds |-> {"normal"}]
Plainly ==
  [features |-> {}, allFeatures |-> FALSE, includeTests |-> FALSE, externals |-> FALSE,
   transitive |-> FALSE, includeReexports |-> FALSE]

\* Who imports the item from where, and who names it.
Import(at, from, path, vis) == [at |-> at, from |-> from, leaf |-> Leaf(path, vis)]
InBothWays(at, from, path) == {Import(at, from, path, vis) : vis \in {"pub", "private"}}
A == <<"a">>
X == <<"a", "x">>
W == <<"a", "x", "w">>
Y == <<"a", "y">>
RootB == <<"b">>
Z == <<"b", "z">>
SampleImports ==
  UNION {InBothWays(A, X, <<"x", "S">>), InBothWays(A, X, <<"self", "x", "*">>),
         InBothWays(A, RootB, <<"b", "S">>),
         InBothWays(X, Y, <<"super", "y", "S">>), InBothWays(X, Y, <<"crate", "y", "*">>),
         InBothWays(X, RootB, <<"b", "S">>), InBothWays(X, W, <<"self", "w", "*">>),
         InBothWays(W, X, <<"super", "S">>), InBothWays(W, Y, <<"crate", "y", "*">>),
         InBothWays(Y, X, <<"super", "x", "S">>), InBothWays(Y, X, <<"crate", "x", "*">>),
         InBothWays(RootB, Z, <<"z", "S">>)}
    \cup {Import(X, W, <<"w", "S">>, "pub"), Import(W, X, <<"super", "*">>, "private"),
          Import(W, Y, <<"super", "super", "y", "S">>, "private"),
          Import(Y, X, <<"crate", "x">>, "private"), Import(Y, W, <<"crate", "x", "w", "S">>, "pub"),
          Import(Y, W, <<"crate", "x", "w", "*">>, "private"),
          Import(Y, Z, <<"b", "z", "S">>, "pub"), Import(RootB, Z, <<"self", "z", "*">>, "pub")}

NoUse == [at |-> <<>>, from |-> <<>>, path |-> <<>>]
Naming(at, from, path) == [at |-> at, from |-> from, path |-> path]
SampleUses ==
  {Naming(at, at, <<"S">>) : at \in {A, X, W, Y, RootB}}
    \cup {Naming(A, X, <<"x", "S">>), Naming(X, W, <<"w", "S">>), Naming(W, X, <<"super", "S">>),
          Naming(Y, X, <<"crate", "x", "S">>), Naming(Y, X, <<"x", "S">>),
          Naming(Y, W, <<"crate", "x", "w", "S">>), Naming(A, RootB, <<"b", "S">>), NoUse}

SampleFile(at, defs, imports, use) ==
  [EmptyFile EXCEPT
    !.mods = ModsOf(at),
    !.uses = SetToSeq({i.leaf : i \in {j \in imports : j.at = at}}),
    !.defs = IF at \in defs THEN <<Struct("S")>> ELSE <<>>,
    !.code = IF use.at = at THEN <<Path(use.path)>> ELSE <<>>]
Sample(defs, imports, use) ==
  [packages |-> <<SamplePackage("a", {Normal(2, "b")}), SamplePackage("b", {})>>,
   files |-> [file \in Range(Declared) |->
                SampleFile(CHOOSE at \in DOMAIN Declared : Declared[at] = file, defs, imports, use)],
   options |-> Plainly]

\* Nothing is taken from where nothing is.
MakesSense(defs, imports, use) ==
  \A i \in imports \cup ({use} \ {NoUse}) : i.from \in defs \cup {j.at : j \in imports}

Few(S) == {{s, t} : s, t \in S}
SampleProjects(defs, imports) ==
  {Sample(c[1], c[2], c[3]) :
     c \in {d \in defs \X imports \X SampleUses : MakesSense(d[1], d[2], d[3])}}

-----------------------------------------------------------------------------
\* Module x has an item S of some kind and y names it. The blocks of S are in
\* x, in w, which names it by a path or by its own import, or in y.
ItemOf(kind) == [Struct("S") EXCEPT !.kind = kind]
BlockOf(is, path, variants, fns, consts) ==
  [is |-> is, path |-> path, variants |-> variants, fns |-> fns, consts |-> consts]
OwnBlocks(kind) ==
  CASE kind = "enum" -> <<BlockOf("enum", <<"S">>, {"V"}, {}, {})>>
    [] kind = "trait" -> <<BlockOf("trait", <<"S">>, {}, {"New"}, {"max"})>>
    [] OTHER -> <<>>
ImplPaths ==
  (X :> {<<"S">>}) @@ (W :> {<<"S">>, <<"super", "S">>}) @@ (Y :> {<<"crate", "x", "S">>})
Impls(kind, at) ==
  IF kind \notin {"struct", "enum"} THEN {<<>>}
  ELSE {<<BlockOf("impl", path, {}, {"New"}, {}), BlockOf("impl", path, {}, {}, {"max"})>> : path \in ImplPaths[at]}
MembersOf(kind) ==
  CASE kind = "enum" -> {"V", "New", "max", "other"}
    [] kind \in {"struct", "trait"} -> {"New", "max", "other"}
    [] OTHER -> {}

\* Ways of y to name S, each with what it imports for it, and where its impl
\* blocks are then.
Way(uses, path, at) == [uses |-> uses, path |-> path, at |-> at]
Ways ==
  {Way(<<Leaf(<<"crate", "x", "S">>, "private")>>, <<"S">>, at) : at \in {X, W, Y}}
    \cup {Way(<<Leaf(<<"crate", "x", "*">>, "private")>>, <<"S">>, X),
          Way(<<Leaf(<<"crate", "x">>, "private")>>, <<"x", "S">>, X), Way(<<>>, <<"crate", "x", "S">>, W)}
CodeNaming(path, member) ==
  {<<PathNode(is, path \o m)>> : is \in {"type", "bound", "value", "callee", "construct"}, m \in member}
    \cup {<<PathNode("type", path), [PathNode("value", path \o m) EXCEPT !.line = 6]>> : m \in member}
    \cup {<<PathNode("callee", <<"std", "f">>), [PathNode("type", path) EXCEPT !.inside = 1]>>,
          <<Macro(<<"S", ",", "x", "::", "S">>)>>, <<>>}
    \cup {<<PathNode(is, p)>> : is \in {"binding", "impl"}, p \in {path} \cap {<<"S">>}}
UseFile(at, kind, impls, way, code) ==
  LET blocks == IF at = way.at THEN impls ELSE <<>>
      byName == \E i \in DOMAIN blocks : blocks[i].path = <<"S">>
  IN  [EmptyFile EXCEPT
        !.mods = ModsOf(at),
        !.defs = IF at = X THEN <<ItemOf(kind)>> ELSE <<>>,
        !.blocks = blocks \o (IF at = X THEN OwnBlocks(kind) ELSE <<>>),
        !.uses = IF at = Y THEN way.uses
                 ELSE IF at = W /\ byName THEN <<Leaf(<<"super", "S">>, "private")>> ELSE <<>>,
        !.code = IF at = Y THEN code
                 ELSE IF at = W THEN <<PathNode("scope", <<"crate", "x">>)>> ELSE <<>>]
UseProjects ==
  UNION {{[Sample({}, {}, NoUse) EXCEPT
             !.files = [file \in DOMAIN @ |->
               UseFile(CHOOSE at \in DOMAIN Declared : Declared[at] = file, kind, impls, way, code)]] :
             impls \in Impls(kind, way.at),
             code \in CodeNaming(way.path, {<<>>} \cup {<<m>> : m \in MembersOf(kind)})} :
           kind \in {"struct", "enum", "trait", "type", "const", "static", "fn"}, way \in Ways}

-----------------------------------------------------------------------------
\* What else a project may have, one kind at a time: p is edited.
WithFile(p, file, holds) == [p EXCEPT !.files = (file :> holds) @@ @]
WithOptions(p, options) == [p EXCEPT !.options = options @@ @]
TwoItems == Sample({X, W}, {}, NoUse)
BorrowedItem == Sample({W, Z}, {Import(X, Z, <<"b", "z", "S">>, "pub")}, NoUse)

\* A block, an inline module or a test module of y binds names of its own.
InBlock(leaf) == [leaf EXCEPT !.region = 2]
ScopeLeaves ==
  {Leaf(<<"super", "x", "S">>, "private"), Leaf(<<"crate", "x">>, "private"),
   Leaf(<<"super", "x", "*">>, "private"), InBlock(Leaf(<<"crate", "x", "w", "S">>, "private")),
   InBlock([Leaf(<<"crate", "x", "w">>, "private") EXCEPT !.as = "x"]),
   InBlock(Leaf(<<"super", "super", "x", "S">>, "private")),
   Leaf(<<"std", "S">>, "private")}
ScopePaths ==
  {[Path(path) EXCEPT !.region = r] : path \in {<<"S">>, <<"x", "S">>, <<"super", "S">>}, r \in {1, 2}}
    \cup {PathNode("binding", <<"S">>), Macro(<<"S", "::", "n", "(", "q", ")">>), Macro(<<"&", "'", "S">>),
          Macro(<<"(", "crate", "::", "x", "::", "S", ")">>)}
Inner(module, test) == [parent |-> 1, module |-> module, test |-> test]
ScopeProjects(leaves) ==
  {WithOptions(
     WithFile(base, Declared[Y],
       [EmptyFile EXCEPT !.uses = SetToSeq(uses), !.code = <<ref>>, !.regions = <<FileRegion, inner>>]),
     [includeTests |-> inner.test]) :
     base \in {TwoItems, BorrowedItem}, uses \in leaves, ref \in ScopePaths,
     inner \in {Inner(FALSE, FALSE), Inner(TRUE, FALSE), Inner(TRUE, TRUE)}}

\* Crate a has a library, a binary or both, which declare modules of one name,
\* and tests beside its code and below tests/.
Main == <<<<"a">>, "main">>
TestDecl(name) == [Mod(name) EXCEPT !.test = TRUE, !.vis = "private"]
RootProjects ==
  {LET code == WithFile(
         WithFile([TwoItems EXCEPT !.packages[1].lib = lib, !.packages[1].bins = bins], Main,
           [EmptyFile EXCEPT !.mods = <<Mod("y"), Mod("m")>>, !.code = <<Path(<<"y", "S">>), Path(<<"a", "x", "S">>)>>]),
         <<<<"a">>, "m">>,
         [EmptyFile EXCEPT !.uses = <<Leaf(<<"a", "x", "*">>, "crate")>>, !.defs = <<Struct("M")>>])
       tests == WithFile(
         WithFile(code, <<<<"a", "tests">>, "t">>,
           [EmptyFile EXCEPT !.uses = <<Leaf(<<"a", "x", "S">>, "private"), Leaf(<<"b", "z", "*">>, "private")>>]),
         <<<<"a", "y">>, "mod">>,
         [EmptyFile EXCEPT
           !.mods = <<TestDecl("unit"), Mod("v"), [Mod("v") EXCEPT !.test = TRUE]>>,
           !.uses = <<[Leaf(<<"crate", "x", "S">>, "private") EXCEPT !.test = TRUE]>>,
           !.inner = {"S"}])
       whole == WithFile(tests, <<<<"a", "y">>, "unit">>,
           [EmptyFile EXCEPT !.code = <<Path(<<"super", "S">>), Path(<<"crate", "x", "w", "S">>)>>])
   IN  WithOptions([whole EXCEPT !.files = [f \in DOMAIN @ \ {file} |-> @[f]]],
                   [includeTests |-> include]) :
     lib \in {<<>>, <<Declared[A]>>}, bins \in {<<>>, <<Main>>},
     file \in {Declared[Y], <<<<"a", "y">>, "mod">>}, include \in BOOLEAN}

\* The file of x lies where an attribute says, is missing or does not parse.
FileProjects ==
  {[WithFile([p EXCEPT !.files[Declared[A]].mods[1].at = at], <<<<"a", "o">>, "x">>,
             [p.files[Declared[X]] EXCEPT !.mods = <<>>])
      EXCEPT !.files[Declared[X]].parses = parses] :
     at \in {{}, {<<<<"o">>, "x">>}, {<<<<"none">>, "x">>}}, parses \in BOOLEAN,
     p \in {Sample({X, W}, imports, use) :
       imports \in {{}, {Import(Y, X, <<"crate", "x", "*">>, "pub"), Import(A, Y, <<"y", "S">>, "crate")}},
       use \in {Naming(A, A, <<"S">>), Naming(Y, X, <<"crate", "x", "S">>)}}}

\* Crates a, b and c with features and dependencies of every kind, and packages
\* p and q from the registry.
Kinds(pkg, name, kinds) == [pkg |-> pkg, name |-> name, kinds |-> kinds]
Published(name, deps) ==
  [SamplePackage(name, deps) EXCEPT !.member = FALSE, !.registry = TRUE, !.lib = <<>>]
Of(kinds) ==
  <<[SamplePackage("a", {Kinds(2, "b", kinds), Kinds(4, "p", {"normal"})}) EXCEPT !.features = {"f"}],
    [SamplePackage("b", {Kinds(4, "r", kinds), Kinds(3, "c", {"build"})}) EXCEPT !.features = {"g"}],
    SamplePackage("c", {Kinds(1, "a", {"normal"}), Kinds(5, "q", {"build"})}),
    Published("p", {Kinds(5, "q", {"normal", "build"})}), Published("q", {})>>
PackageProjects ==
  {[WithFile(Sample({X, Z}, {Import(X, Z, <<"b", "z", "S">>, "pub"), Import(A, X, <<"p", "S">>, "private")},
                    Naming(A, X, <<"p", "x", "S">>)),
             <<<<"c">>, "lib">>, [EmptyFile EXCEPT !.code = <<Path(<<"a", "x", "S">>), Path(<<"a">>)>>])
      EXCEPT !.packages = Of(kinds), !.options = switches @@ Plainly] :
     kinds \in {{"normal"}, {"dev"}, {"normal", "dev"}},
     switches \in [features : {{}, {<<NoItem, "f">>}, {<<"b", "g">>}}, allFeatures : BOOLEAN,
                   externals : BOOLEAN, transitive : BOOLEAN, includeReexports : BOOLEAN]}

=============================================================================

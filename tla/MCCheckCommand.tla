---------------------------- MODULE MCCheckCommand ----------------------------
(***************************************************************************)
(* CommandLine over two crates, a with modules x, x::w and y, b with z.    *)
(***************************************************************************)
EXTENDS CommandLine

Tree == <<Node("crate", <<"a">>, 1), Node("crate", <<"b">>, 2), Node("module", <<"a", "x">>, 1),
          Node("module", <<"a", "x", "w">>, 1), Node("module", <<"a", "y">>, 1),
          Node("module", <<"b", "z">>, 2)>>
Holds == {<<1, 3>>, <<3, 4>>, <<1, 5>>, <<2, 6>>}

Location(symbol, reexport) == [at |-> <<symbol, reexport>>, symbols |-> {symbol}, reexport |-> reexport]
Uses(p, locations) == Edge(p[1], p[2], "ModuleDep", "production", locations)
S == Location("S", FALSE)

\* A crate depends on the other one where its code uses it.
CratePairs(uses) == {<<Tree[e.src].crate, Tree[e.dst].crate>> : e \in uses} \ {<<1, 1>>, <<2, 2>>}
Code(uses) ==
  LET bare(pairs, weight) == SetToSeq({Edge(p[1], p[2], weight, "production", {}) : p \in pairs})
  IN  [nodes |-> Tree,
       edges |-> bare(Holds, "Contains") \o bare(CratePairs(uses), "CrateDep") \o SetToSeq(uses)]
Plain(pairs) == Code({Uses(p, {S}) : p \in pairs})

UpTo(k, T) == UNION {kSubset(i, T) : i \in 0 .. k}

-----------------------------------------------------------------------------
All == [form |-> "all"]
Sub(name) == [form |-> "subtree", name |-> name]
Every == {"a", "b", "x", "y", "z", "w"}   \* the segment *
AX == Sub(<<{"a"}, {"x"}>>)
AY == Sub(<<{"a"}, {"y"}>>)
B == Sub(<<{"b"}>>)
Gone == Sub(<<{"a"}, {"old"}>>)

To(pattern) == [form |-> "path", pattern |-> pattern]
Allow(from, to) == [from |-> from, to |-> to]
Ref(name) == [ref |-> name]

RuleBase(name, severity, allow, kind) ==
  [name |-> name, severity |-> severity, allow |-> allow, retired |-> FALSE, kind |-> kind]
Layers(severity, allow, layers, direction, exhaustive) ==
  RuleBase("layers", severity, allow, "Layers")
    @@ [layers |-> layers, direction |-> direction, exhaustive |-> exhaustive]
NoCycles(severity, allow, scope) == RuleBase("cycles", severity, allow, "NoCycles") @@ [scope |-> scope]
Forbidden(severity, allow, from, to) ==
  RuleBase("forbidden", severity, allow, "ForbiddenDependency") @@ [from |-> from, to |-> to]

File(rules) ==
  [is |-> "toml", version |-> {1}, default |-> "Error", rules |-> rules,
   diagnostics |-> [baseline |-> "Warn"], patterns |-> [w \in {} |-> <<>>]]

Usual == [manifest |-> TRUE, unparsed |-> {}, git |-> TRUE]
Project(codes, files) ==
  [codes |-> codes, files |-> files, baselines |-> {Missing},
   options |-> {[explicit |-> FALSE, reexports |-> FALSE]},
   arguments |-> {}, surroundings |-> {Usual}]

-----------------------------------------------------------------------------
\* Layers over a few dependencies, which may run over modules without one.
LayerPairs == {<<5, 3>>, <<6, 5>>, <<6, 3>>, <<3, 1>>, <<4, 5>>, <<1, 5>>, <<5, 6>>}
TopDown == Layers("Default", <<>>, <<{AX}, {B}>>, "TopDown", FALSE)
LayerRules ==
  {TopDown, [TopDown EXCEPT !.direction = "BottomUp"],
   [TopDown EXCEPT !.layers = <<{AX}, CatchAll, {AY}>>, !.severity = "Warn"],
   [TopDown EXCEPT !.layers = <<{[form |-> "children", name |-> <<{"a"}>>]}, {B}>>, !.exhaustive = TRUE],
   [TopDown EXCEPT !.allow = <<Allow(B, To(AY)), Allow([form |-> "descendants", name |-> <<Every>>], To(AX))>>]}
LayerProjects ==
  {Project({Plain(R)}, {File(<<rule>>)}) :
     R \in {T \in UpTo(3, LayerPairs) : <<5, 6>> \in T => T \cap {<<6, 5>>, <<6, 3>>} = {}},
     rule \in LayerRules}

\* Cycles among a's modules, and over both crates, frozen, allowed or counted.
CyclePairs == {<<3, 4>>, <<4, 3>>, <<3, 5>>, <<5, 3>>, <<4, 5>>, <<5, 4>>}
CycleEntry(p, symbols) ==
  [rule |-> "cycles", edge |-> <<Tree[p[1]].path, Tree[p[2]].path>>,
   symbols |-> [named |-> symbols, bare |-> FALSE]]
Baseline(entries) == [is |-> "toml", version |-> 1, entries |-> entries]
CycleRules ==
  {NoCycles("Default", <<>>, All), NoCycles("Default", <<>>, AX),
   NoCycles("Warn", <<Allow(Sub(<<{"a"}, Every, {"w"}>>), [form |-> "ancestor", levels |-> 1])>>, All),
   NoCycles("Default", <<Allow(AX, [form |-> "children"]), Allow(AY, To(AX))>>, Sub(<<{"a"}>>))}
CycleProjects ==
  {[Project({Plain(R)}, {File(<<rule>>)})
      EXCEPT !.baselines = {Missing, Baseline({CycleEntry(p, {"S"}) : p \in {<<3, 4>>, <<4, 3>>}}),
                            Baseline({CycleEntry(p, {}) : p \in R})}] :
     R \in UNION {kSubset(k, CyclePairs) : k \in {3, 4, 6}}
             \cup {{<<3, 4>>, <<4, 3>>, <<4, 5>>, <<5, 3>>, <<5, 6>>, <<6, 5>>}}, rule \in CycleRules}

\* Rules that are switched off and on, and code that changes, beside a baseline.
Real == Location("T", FALSE)
Republished == Location("U", TRUE)
FewCodes ==
  {Code({Uses(<<3, 5>>, {S, Republished}), Uses(<<5, 3>>, {S}), Uses(<<6, 5>>, {S})}),
   Code({Uses(<<3, 5>>, {S, Real, Republished}), Uses(<<6, 5>>, {S})})}
Off(rule) == [rule EXCEPT !.severity = "Ignore"]
FewRules(f, c) == File(<<f, c, Layers("Warn", <<>>, <<{AY}, {B}>>, "TopDown", FALSE)>>)
AForbidsY == Forbidden("Error", <<>>, AX, AY)
FewFiles ==
  {FewRules(AForbidsY, NoCycles("Error", <<>>, All)), FewRules(Off(AForbidsY), NoCycles("Warn", <<>>, All)),
   FewRules([AForbidsY EXCEPT !.allow = <<Allow(AX, To(AY))>>], Off(NoCycles("Error", <<>>, All)))}
ChangingProjects ==
  {[Project(FewCodes, FewFiles) EXCEPT
      !.baselines = {Missing, Garbled, [Baseline({}) EXCEPT !.version = 2],
                     Baseline({CycleEntry(<<5, 3>>, {"S"}), CycleEntry(<<5, 3>>, {"T"})})},
      !.options = [explicit : BOOLEAN, reexports : {TRUE}]]}

\* What a rules file may be refused for, or hear of.
L(layers) == [TopDown EXCEPT !.layers = layers]
OddFiles ==
  {Missing, Garbled, [File(<<>>) EXCEPT !.version = {}], [File(<<>>) EXCEPT !.version = {2}],
   File(<<TopDown, TopDown>>), File(<<L(<<{AX}, {B, Star}>>)>>), File(<<L(<<CatchAll, {B}, CatchAll>>)>>),
   File(<<L(<<{AX}, {}>>)>>), File(<<L(<<{AX}>>)>>), File(<<L(<<{AX}, {AX, B}>>)>>),
   File(<<[L(<<{AX}, CatchAll>>) EXCEPT !.exhaustive = TRUE]>>),
   File(<<TopDown, [AForbidsY EXCEPT !.name = "layers"]>>),
   File(<<[TopDown EXCEPT !.name = ImplicitRuleName]>>), File(<<[TopDown EXCEPT !.retired = TRUE]>>),
   File(<<[TopDown EXCEPT !.allow = <<Ref("named")>>]>>), File(<<Forbidden("Error", <<>>, Gone, B)>>),
   [File(<<[TopDown EXCEPT !.allow = <<Ref("named"), Allow(AX, [form |-> "crate"])>>]>>)
      EXCEPT !.patterns = [n \in {"named"} |-> <<Allow(AY, [form |-> "descendants"]), Allow(B, To(AX))>>]],
   [File(<<>>) EXCEPT !.patterns = [n \in {"named"} |-> <<Ref("named")>>]],
   File(<<NoCycles("Error", <<Allow(Gone, To(AX))>>, All)>>),
   File(<<NoCycles("Error", <<Allow(AX, To(AY)), Allow(AY, To(AX))>>, All)>>),
   [File(<<L(<<{Sub(<<{"a"}>>)}, {AX}, {B}>>)>>) EXCEPT !.diagnostics = [except |-> {Gone}]],
   [File(<<[L(<<{AX}, {B}>>) EXCEPT !.exhaustive = TRUE]>>)
      EXCEPT !.diagnostics = [except |-> {AY}, unlayered |-> "Warn"]],
   File(<<L(<<{Sub(<<{"a"}>>)}, {B}, CatchAll>>)>>)}
OddProjects ==
  {[Project({Plain({<<3, 5>>, <<5, 3>>}), Plain({<<6, 5>>})}, {file}) EXCEPT
      !.options = [explicit : BOOLEAN, reexports : {FALSE}]] : file \in OddFiles}

\* Every command beside the checks, and a service beside changes of every kind.
Arguments ==
  [command |-> "diagram", output |-> "deps.svg", mapOutput |-> "stdout", noVolatility |-> FALSE,
   switches |-> {}, level |-> 0 - 1, theme |-> "system"]
DrawnCodes ==
  {Plain({<<3, 5>>, <<5, 3>>, <<6, 5>>}), Plain({<<3, 5>>}),
   Code({Uses(<<3, 5>>, {S}), Uses(<<5, 3>>, {Republished})}), [nodes |-> <<>>, edges |-> <<>>]}
DrawnProjects ==
  {[Project(DrawnCodes, {Missing, File(<<NoCycles("Warn", <<>>, All)>>)}) EXCEPT
      !.options = [explicit : {FALSE}, reexports : BOOLEAN],
      !.surroundings = {Usual, [Usual EXCEPT !.git = FALSE], [Usual EXCEPT !.manifest = FALSE]},
      !.arguments = {a}] :
     a \in {Arguments, [Arguments EXCEPT !.output = "deps.html", !.theme = "dark", !.noVolatility = TRUE],
            [Arguments EXCEPT !.output = "stdout", !.theme = "neon"],
            [Arguments EXCEPT !.command = "volatility"],
            [Arguments EXCEPT !.command = "hotspots", !.mapOutput = "deps.html"]}}
ServedProjects ==
  {[Project(DrawnCodes, {Missing}) EXCEPT
      !.surroundings = {Usual, [Usual EXCEPT !.unparsed = {"x"}], [Usual EXCEPT !.manifest = FALSE]},
      !.arguments = {[Arguments EXCEPT !.command = "ui"]}]}

MCProjects == DrawnProjects \cup ServedProjects \cup LayerProjects \cup CycleProjects \cup ChangingProjects \cup OddProjects

ASSUME MCNamesDiffer == NamesDiffer

\* An import and a re-export across one edge, and then the re-export alone.
ShrinkingCodes == {Code({Uses(<<3, 5>>, locations)}) : locations \in {{S, Republished}, {Republished}}}
ShrinkingProjects == {Project(ShrinkingCodes, {File(<<AForbidsY>>)})}

=============================================================================

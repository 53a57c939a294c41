------------------------------ MODULE Matching ------------------------------
(***************************************************************************)
(* Patterns of the rules file (src/src/rules/matching.rs): which nodes of   *)
(* the graph a pattern names, and which pairs an `allow` entry covers.      *)
(*                                                                         *)
(* A pattern's name is a sequence of segments, a segment the set of the     *)
(* names that it matches.                                                   *)
(***************************************************************************)
EXTENDS ArcGraph

\* `**`, `name`, `name::*` and `name::**`.
PatternForms == {"all", "subtree", "children", "descendants"}
IsPattern(p) ==
  /\ p.form \in PatternForms
  /\ p.form # "all" => Len(p.name) > 0

\* The forms of an `allow` entry's target: a path is absolute, the others are
\* read off the tree for each source.
TargetForms == {"path", "ancestor", "crate", "children", "descendants"}

\* segment_matches, for a segment without `*` too.
SegmentMatches(segment, name) == name \in segment

\* Nodes by qualified name; of two of one name the later one.
Indexed == {n \in Members : \A m \in Members : nodes[m].path = nodes[n].path => m <= n}

MatchingIndices(name) ==
  {n \in Indexed :
     /\ Len(nodes[n].path) = Len(name)
     /\ \A i \in DOMAIN name : SegmentMatches(name[i], nodes[n].path[i])}

ResolveChildren(name) ==
  {e.dst : e \in {f \in EdgeSet : f.weight = "Contains" /\ f.src \in MatchingIndices(name)}}

Subtrees(S) == UNION {ContainmentSubtree(n) : n \in S}

ResolveDescendants(name) ==
  UNION {ContainmentSubtree(n) \ {n} : n \in MatchingIndices(name)}

ResolvePattern(p) ==
  CASE p.form = "all"         -> Members
    [] p.form = "descendants" -> ResolveDescendants(p.name)
    [] p.form = "children"    -> ResolveChildren(p.name)
    [] p.form = "subtree"     -> Subtrees(MatchingIndices(p.name))

ResolveAll(patterns) == UNION {ResolvePattern(p) : p \in patterns}

\* A layer is the set of its patterns; `*` alone is the catch-all.
Star == [form |-> "star"]
CatchAll == {Star}
Ordinary(layers) == {i \in DOMAIN layers : layers[i] # CatchAll}
HasCatchAll(layers) == \E i \in DOMAIN layers : layers[i] = CatchAll

\* What the ordinary layers leave to the catch-all.
LayerRest(layers) == Members \ UNION {ResolveAll(layers[i]) : i \in Ordinary(layers)}

-----------------------------------------------------------------------------
\* The node `levels` steps above n, if the chain is that long.
AncestorOf(n, levels) ==
  LET chain == Chain(n) IN IF levels < Len(chain) THEN {chain[levels + 1]} ELSE {}

RootCrateOf(n) == IF Kind(n) = "module" THEN {OwningCrate(n)} ELSE {}

TargetsFrom(to, n) ==
  CASE to.form = "path"        -> ResolvePattern(to.pattern)
    [] to.form = "ancestor"    -> AncestorOf(n, to.levels)
    [] to.form = "crate"       -> RootCrateOf(n)
    [] to.form = "children"    -> {m \in DOMAIN nodes : n \in ParentOf(m)}
    [] to.form = "descendants" -> ContainmentSubtree(n) \ {n}

Covers(entry, a, b) == a \in ResolvePattern(entry.from) /\ b \in TargetsFrom(entry.to, a)

\* The first of the entries that covers the pair, as a set of at most one place.
CoveredBy(allow, a, b) ==
  LET covering == {i \in DOMAIN allow : Covers(allow[i], a, b)}
  IN  IF covering = {} THEN {} ELSE {Min(covering)}

\* Every pair that an entry covers, but for a node with itself.
Pairs(entry) ==
  {p \in ResolvePattern(entry.from) \X DOMAIN nodes :
     p[1] # p[2] /\ p[2] \in TargetsFrom(entry.to, p[1])}

=============================================================================

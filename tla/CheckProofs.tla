----------------------------- MODULE CheckProofs -----------------------------
(***************************************************************************)
(* Proofs about `cargo arc check` and its baseline (CheckCommand), among    *)
(* all the commands (CommandLine): what a rule finds does not depend on the *)
(* baseline, it is one entry for each pair of nodes, the entries that a     *)
(* check calls stale are those that it would not write again, what a        *)
(* baseline was generated for is not reported again, a check finds tangles  *)
(* where a diagram marks arcs, a broken pair on every way that leads        *)
(* against the order of layers, and judges every edge on a cycle; and its   *)
(* report is true (CheckReport).                                            *)
(***************************************************************************)
EXTENDS CommandLine, CycleProofs

-----------------------------------------------------------------------------
(***************************************************************************)
(* The walk over unpositioned nodes.                                        *)
(***************************************************************************)
DirectFrom(a) == {n \in DOMAIN nodes : \E e \in ProductionEdges : e.src = a /\ e.dst = n}

WalkFirst(p) == AtSource(p[1])
WalkRound(p, k, w) == NextLevel(w, p[2])
WalkInv(p, k, w) ==
  /\ \A r, q \in w.found : r.target = q.target => r = q
  /\ \A r \in w.found : r.target \in w.reached \ DirectFrom(p[1])
  /\ w = AtSource(p[1]) \/ DirectFrom(p[1]) \subseteq w.reached

Walk == INSTANCE Rounds WITH First <- WalkFirst, Round <- WalkRound, Inv <- WalkInv

LEMMA WalkStarts == \A p : WalkInv(p, 0, WalkFirst(p))
BY DEF WalkInv, WalkFirst, AtSource

LEMMA OnlyWayIsLeast == \A s : LexMin({s}) = s
BY DEF LexMin

LEMMA WalkGoesOn ==
  \A p : \A k \in Nat : \A w : WalkInv(p, k, w) => WalkInv(p, k + 1, WalkRound(p, k + 1, w))
<1> SUFFICES ASSUME NEW p, NEW k \in Nat, NEW w, WalkInv(p, k, w)
             PROVE  WalkInv(p, k + 1, WalkRound(p, k + 1, w))
  OBVIOUS
<1> DEFINE near == {q \in (DOMAIN w.frontier) \X (DOMAIN nodes) :
                      /\ q[2] \notin w.reached
                      /\ \E e \in ProductionEdges : e.src = q[1] /\ e.dst = q[2]}
           entered == {q[2] : q \in near}
           way(n) == LexMin({w.frontier[q[1]] : q \in {x \in near : x[2] = n}})
           over == [n \in entered |-> way(n)]
           targets == {m \in entered \cap p[2] : over[m] # <<>>}
           found == {[target |-> n, over |-> over[n]] : n \in targets}
           onward == [n \in entered \ p[2] |-> Append(over[n], n)]
<1>1. CASE DOMAIN w.frontier = {}
  <2>1. WalkRound(p, k + 1, w) = w
    BY <1>1 DEF WalkRound, NextLevel
  <2> QED
    BY <2>1 DEF WalkInv
<1>2. CASE DOMAIN w.frontier # {}
  <2>1. WalkRound(p, k + 1, w) = [reached |-> w.reached \cup entered, frontier |-> onward,
                           found |-> w.found \cup found]
    BY <1>2 DEF WalkRound, NextLevel
  <2>2. entered \subseteq DOMAIN nodes \ w.reached
    OBVIOUS
  <2>3. \A r, q \in found : r.target = q.target => r = q
    <3> HIDE DEF over, targets
    <3> QED
      OBVIOUS
  <2>4. \A r \in found : r.target \in targets
    <3> HIDE DEF over, targets
    <3> QED
      OBVIOUS
  <2>5. CASE w = AtSource(p[1])
    <3>1. w.reached = {p[1]} /\ w.found = {} /\ w.frontier = [n \in {p[1]} |-> <<>>]
      BY <2>5 DEF AtSource
    <3>2. DirectFrom(p[1]) \subseteq w.reached \cup entered
      <4> SUFFICES ASSUME NEW n \in DirectFrom(p[1]), n \notin w.reached PROVE n \in entered
        OBVIOUS
      <4>1. <<p[1], n>> \in near
        BY <3>1 DEF DirectFrom
      <4> QED
        BY <4>1
    <3>3. \A n \in entered : over[n] = <<>>
      <4> SUFFICES ASSUME NEW n \in entered PROVE way(n) = <<>>
        OBVIOUS
      <4>1. {w.frontier[q[1]] : q \in {x \in near : x[2] = n}} = {<<>>}
        BY <3>1
      <4> QED
        BY <4>1, OnlyWayIsLeast
    <3>4. found = {}
      BY <3>3
    <3> HIDE DEF found, entered, onward
    <3> QED
      BY <2>1, <3>1, <3>2, <3>4 DEF WalkInv
  <2>6. CASE DirectFrom(p[1]) \subseteq w.reached
    <3>1. \A n \in targets : n \in entered /\ n \notin w.reached /\ n \notin DirectFrom(p[1])
      BY <2>2, <2>6
    <3> HIDE DEF found, entered, onward, targets
    <3>2. /\ WalkRound(p, k + 1, w).found = w.found \cup found
          /\ WalkRound(p, k + 1, w).reached = w.reached \cup entered
      BY <2>1
    <3> QED
      BY <2>3, <2>4, <2>6, <3>1, <3>2 DEF WalkInv
  <2> QED
    BY <2>5, <2>6 DEF WalkInv
<1> QED
  BY <1>1, <1>2

(***************************************************************************)
(* Of the ways over unpositioned nodes there is one to each target, and     *)
(* none to a node that an edge leads to: a pair of layered nodes is judged  *)
(* once, as written or as routed (routes_over_unpositioned).                *)
(***************************************************************************)
THEOREM RoutesAreOfTheirOwn ==
  ASSUME IsFiniteSet(DOMAIN nodes), NEW a, NEW positioned
  PROVE  \A r, q \in RoutesOverUnpositioned(a, positioned) :
           r.target \notin DirectFrom(a) /\ (r.target = q.target => r = q)
<1> DEFINE p == <<a, positioned>>
           walk == CHOOSE f : f = [k \in Nat |-> IF k = 0 THEN AtSource(a)
                                                 ELSE NextLevel(f[k - 1], positioned)]
           last == walk[Cardinality(DOMAIN nodes)]
<1>1. \A f : Walk!IsComputed(f, p) <=>
        f = [k \in Nat |-> IF k = 0 THEN AtSource(a) ELSE NextLevel(f[k - 1], positioned)]
  BY DEF Walk!IsComputed, WalkFirst, WalkRound
<1>2. \E f : Walk!IsComputed(f, p)
  BY Walk!ComputedExists
<1>3. Walk!IsComputed(walk, p)
  BY <1>1, <1>2
<1>4. \A k \in Nat : WalkInv(p, k, walk[k])
  BY <1>3, WalkStarts, WalkGoesOn, Walk!InvariantOfRounds
<1>5. WalkInv(p, Cardinality(DOMAIN nodes), last)
  BY <1>4, FS_CardinalityType
<1>6. RoutesOverUnpositioned(a, positioned) = last.found
  BY DEF RoutesOverUnpositioned
<1> HIDE DEF walk
<1> QED
  BY <1>5, <1>6 DEF WalkInv

-----------------------------------------------------------------------------
(***************************************************************************)
(* What a rule finds, whatever is frozen: one entry for each pair of nodes  *)
(* that is not allowed. Without a baseline all of it is to be frozen, and   *)
(* with one it is hit where there is an entry.                              *)
(***************************************************************************)
IsSymbols(s) == s = [named |-> s.named, bare |-> s.bare] /\ s.bare \in BOOLEAN
IsRecord(x) == x = [key \in BaselineEntry |-> x[key]]
IsEntry(x) == DOMAIN x = BaselineEntry /\ IsRecord(x) /\ IsSymbols(x.symbols)

IsFoundBy(rule, found) ==
  /\ \A x \in found : IsEntry(x) /\ x.rule = rule.name
  /\ \A x, y \in found : x.edge = y.edge => x = y
  /\ CheckRule(rule, {}).entries = found
  /\ \A baseline : CheckRule(rule, baseline).hits = {x \in found : FrozenFor(baseline, x) # {}}

\* The graph of a project, in which a name stands for one node.
IsGraph ==
  /\ DOMAIN nodes \subseteq Nat /\ IsFiniteSet(DOMAIN nodes)
  /\ \A e \in EdgeSet : {e.src, e.dst} \subseteq DOMAIN nodes
  /\ \A m, n \in DOMAIN nodes : nodes[m].path = nodes[n].path => m = n

EntryOf(rule, d) ==
  Entry(rule, d.source, d.target, IF d.via = <<>> THEN EdgeSymbols(d.locations) ELSE NoSymbols)

Found(rule, d) == IF CoveredBy(rule.allow, d.source, d.target) = {} THEN {EntryOf(rule, d)} ELSE {}

LEMMA SymbolsAreSymbols == IsSymbols(NoSymbols) /\ \A l : IsSymbols(EdgeSymbols(l))
BY DEF IsSymbols, NoSymbols, EdgeSymbols

LEMMA EntryIsEntry ==
  ASSUME NEW rule, NEW a, NEW b, NEW s, IsSymbols(s)
  PROVE  IsEntry(Entry(rule, a, b, s)) /\ Entry(rule, a, b, s).rule = rule.name
         /\ Entry(rule, a, b, s).edge = <<nodes[a].path, nodes[b].path>>
<1>1. IsRecord(Entry(rule, a, b, s))
  BY DEF IsRecord, Entry, BaselineEntry
<1> QED
  BY <1>1 DEF IsEntry, Entry, BaselineEntry

\* The entry of one dependency.
LEMMA JudgedOne ==
  ASSUME NEW rule, NEW baseline, NEW d
  PROVE  /\ Judge(rule, {}, d).entries = Found(rule, d)
         /\ Judge(rule, baseline, d).hits = {x \in Found(rule, d) : FrozenFor(baseline, x) # {}}
<1>1. FrozenFor({}, EntryOf(rule, d)) = {}
  BY DEF FrozenFor
<1>2. CASE CoveredBy(rule.allow, d.source, d.target) # {}
  BY <1>2 DEF Judge, Result, Found
<1>3. CASE CoveredBy(rule.allow, d.source, d.target) = {}
  BY <1>1, <1>3 DEF Judge, Result, EntryOf, Found
<1> QED
  BY <1>2, <1>3

OnePerPair(D) ==
  /\ \A d \in D : d.source \in DOMAIN nodes /\ d.target \in DOMAIN nodes
  /\ \A d, e \in D : d.source = e.source /\ d.target = e.target => d = e

LEMMA DependenciesAreFound ==
  ASSUME IsGraph, NEW rule, NEW D, OnePerPair(D),
         \A b : CheckRule(rule, b) = CheckDependencies(rule, b, D)
  PROVE  \E found : IsFoundBy(rule, found)
<1> DEFINE found == UNION {Found(rule, d) : d \in D}
<1>1. \A d : IsEntry(EntryOf(rule, d)) /\ EntryOf(rule, d).rule = rule.name
             /\ EntryOf(rule, d).edge = <<nodes[d.source].path, nodes[d.target].path>>
  BY SymbolsAreSymbols, EntryIsEntry DEF EntryOf
<1>2. ASSUME NEW d \in D, NEW e \in D, EntryOf(rule, d).edge = EntryOf(rule, e).edge PROVE d = e
  <2>1. nodes[d.source].path = nodes[e.source].path /\ nodes[d.target].path = nodes[e.target].path
    BY <1>1, <1>2
  <2> QED
    BY <2>1 DEF OnePerPair, IsGraph
<1>3. \A x \in found : \E d \in D : x = EntryOf(rule, d)
  BY DEF Found
<1>4. CheckRule(rule, {}).entries = found
  <2>1. CheckRule(rule, {}).entries = UNION {r.entries : r \in {Judge(rule, {}, d) : d \in D}}
    BY DEF CheckDependencies, AllOf, Result
  <2> QED
    BY <2>1, JudgedOne
<1>5. ASSUME NEW b PROVE CheckRule(rule, b).hits = {x \in found : FrozenFor(b, x) # {}}
  <2>1. CheckRule(rule, b).hits = UNION {r.hits : r \in {Judge(rule, b, d) : d \in D}}
    BY DEF CheckDependencies, AllOf, Result
  <2>2. \A d : Judge(rule, b, d).hits = {x \in Found(rule, d) : FrozenFor(b, x) # {}}
    BY JudgedOne
  <2> QED
    BY <2>1, <2>2
<1> HIDE DEF found
<1>6. \A x \in found : IsEntry(x) /\ x.rule = rule.name
  BY <1>1, <1>3
<1>7. \A x, y \in found : x.edge = y.edge => x = y
  BY <1>2, <1>3
<1> QED
  BY <1>4, <1>5, <1>6, <1>7 DEF IsFoundBy

LEMMA WrittenAreOnePerPair ==
  ASSUME IsGraph, NEW rejected
  PROVE  /\ OnePerPair(WrittenDependencies(rejected))
         /\ \A d \in WrittenDependencies(rejected) :
              <<d.source, d.target>> \in rejected /\ d.target \in DirectFrom(d.source)
<1> DEFINE pairs == {<<e.src, e.dst>> : e \in ProductionEdges} \cap rejected
           uses(p) == UNION {e.locations : e \in {f \in ProductionEdges : f.src = p[1] /\ f.dst = p[2]}}
           written == {Dependency(p[1], p[2], <<>>, uses(p)) : p \in pairs}
<1>1. WrittenDependencies(rejected) = written
  BY DEF WrittenDependencies
<1>2. \A p \in pairs : p = <<p[1], p[2]>> /\ p[1] \in DOMAIN nodes /\ p[2] \in DirectFrom(p[1])
  BY DEF IsGraph, ProductionEdges, DirectFrom
<1> HIDE DEF uses, pairs
<1>3. \A d \in written : \E p \in pairs : d = Dependency(p[1], p[2], <<>>, uses(p))
  OBVIOUS
<1>4. \A p : /\ Dependency(p[1], p[2], <<>>, uses(p)).source = p[1]
             /\ Dependency(p[1], p[2], <<>>, uses(p)).target = p[2]
  BY DEF Dependency
<1>5. \A d \in written : \E p \in pairs :
        d = Dependency(p[1], p[2], <<>>, uses(p)) /\ d.source = p[1] /\ d.target = p[2]
  BY <1>3, <1>4
<1> HIDE DEF written
<1>6. \A d \in written : d.source \in DOMAIN nodes /\ d.target \in DirectFrom(d.source)
  BY <1>2, <1>5
<1>7. \A d \in written : d.target \in DOMAIN nodes
  BY <1>6 DEF DirectFrom
<1>8. ASSUME NEW d \in written, NEW e \in written, d.source = e.source, d.target = e.target
      PROVE  d = e
  BY <1>2, <1>5, <1>8
<1>9. \A d \in written : <<d.source, d.target>> \in rejected
  BY <1>2, <1>5 DEF pairs
<1> QED
  BY <1>1, <1>6, <1>7, <1>8, <1>9 DEF OnePerPair

LEMMA ForbiddenIsFound ==
  ASSUME IsGraph, NEW rule, rule.kind = "ForbiddenDependency"
  PROVE  \E found : IsFoundBy(rule, found)
<1> DEFINE D == WrittenDependencies(ResolvePattern(rule.from) \X ResolvePattern(rule.to))
<1>1. OnePerPair(D)
  BY WrittenAreOnePerPair
<1>2. \A b : CheckRule(rule, b) = CheckDependencies(rule, b, D)
  BY DEF CheckRule, CheckForbidden
<1> QED
  BY <1>1, <1>2, DependenciesAreFound

\* A route ends where no edge leads, so that what is written and what is routed
\* are of different pairs.
LEMMA LayersAreFound ==
  ASSUME IsGraph, NEW rule, rule.kind = "Layers"
  PROVE  \E found : IsFoundBy(rule, found)
<1> DEFINE index == LayerIndex(rule.layers)
           positioned == DOMAIN index
           rejected == {p \in positioned \X positioned : Rejects(rule, index, p[1], p[2])}
           written == WrittenDependencies(rejected)
           routes(a) == {q \in RoutesOverUnpositioned(a, positioned) : <<a, q.target>> \in rejected}
           routedFrom(a) == {Dependency(a, r.target, WrittenEdges(a, r), {}) : r \in routes(a)}
           routed == UNION {routedFrom(a) : a \in positioned}
           D == written \cup routed
<1>1. \A b : CheckRule(rule, b) = CheckDependencies(rule, b, D)
  BY DEF CheckRule, CheckLayers, DependenciesOverUnpositioned
<1>2. positioned \subseteq DOMAIN nodes
  <2>1. positioned \subseteq Members
    BY DEF LayerIndex, LayerRest
  <2> QED
    BY <2>1 DEF Members, CrateNodes, ModuleNodes
<1> HIDE DEF index
<1>3. \A d \in written : <<d.source, d.target>> \in rejected /\ d.target \in DirectFrom(d.source)
  BY WrittenAreOnePerPair
<1>4. OnePerPair(written)
  BY WrittenAreOnePerPair
<1>5. \A a : \A r, q \in routes(a) :
        r.target \in positioned /\ r.target \notin DirectFrom(a) /\ (r.target = q.target => r = q)
  BY RoutesAreOfTheirOwn DEF IsGraph
<1> HIDE DEF routes, written
<1>6. \A d \in routed : \E a \in positioned : \E r \in routes(a) :
        d = Dependency(a, r.target, WrittenEdges(a, r), {})
  OBVIOUS
<1>7. \A d \in routed : \E a \in positioned : \E r \in routes(a) :
        d = Dependency(a, r.target, WrittenEdges(a, r), {}) /\ d.source = a /\ d.target = r.target
  BY <1>6 DEF Dependency
<1> HIDE DEF routed
<1>8. \A d, e \in routed : d.source = e.source /\ d.target = e.target => d = e
  BY <1>5, <1>7
<1>9. \A d \in routed : d.source \in positioned /\ d.target \in positioned
                        /\ d.target \notin DirectFrom(d.source)
  BY <1>5, <1>7
<1>10. OnePerPair(D)
  BY <1>2, <1>3, <1>4, <1>8, <1>9 DEF OnePerPair
<1> HIDE DEF D
<1> QED
  BY <1>1, <1>10, DependenciesAreFound

LEMMA AllOfTwo ==
  ASSUME NEW r, NEW s
  PROVE  /\ AllOf({r, s}).entries = r.entries \cup s.entries
         /\ AllOf({r, s}).hits = r.hits \cup s.hits
<1>1. /\ UNION {x.entries : x \in {r, s}} = r.entries \cup s.entries
      /\ UNION {x.hits : x \in {r, s}} = r.hits \cup s.hits
  OBVIOUS
<1> QED
  BY <1>1 DEF AllOf, Result

\* What a rule against cycles finds: an entry for each edge on one.
JudgedEdges(rule) == OnCycles(Scope(rule) \ AllowedEdges(rule))
HitsOnCycles(rule, b) ==
  {EdgeEntry(rule, p) : p \in {q \in JudgedEdges(rule) : FrozenFor(b, EdgeEntry(rule, q)) # {}}}

LEMMA CyclesFindEdges ==
  \A rule, b : /\ CheckCycles(rule, {}).entries = {EdgeEntry(rule, p) : p \in JudgedEdges(rule)}
               /\ CheckCycles(rule, b).hits = HitsOnCycles(rule, b)
<1> SUFFICES ASSUME NEW rule, NEW b
             PROVE  /\ CheckCycles(rule, {}).entries = {EdgeEntry(rule, p) : p \in JudgedEdges(rule)}
                    /\ CheckCycles(rule, b).hits = HitsOnCycles(rule, b)
  OBVIOUS
<1> DEFINE R == Scope(rule) \ AllowedEdges(rule)
           on == OnCycles(R)
           frozen(c) == [p \in on |-> FrozenFor(c, EdgeEntry(rule, p))]
           covered(c) == CoveredEdges(rule, c, R)
           left(c) == CyclesIn(rule, R, covered(c), frozen(c))
           exempt == Result({AllowedOnCycle(rule, p) : p \in AllowedEdges(rule) \cap OnCycles(Scope(rule))},
                            {}, {})
<1>1. \A c : CheckCycles(rule, c) = AllOf({exempt, left(c)})
  BY DEF CheckCycles
<1>2. \A c : /\ left(c).entries = {EdgeEntry(rule, p) : p \in on \ covered(c)}
             /\ left(c).hits = {EdgeEntry(rule, p) : p \in {q \in on : frozen(c)[q] # {}}}
  BY DEF CyclesIn, Result
<1>3. exempt.entries = {} /\ exempt.hits = {}
  BY DEF Result
<1>4. covered({}) = {}
  BY DEF CoveredEdges, FrozenFor
<1>5. JudgedEdges(rule) = on
  BY DEF JudgedEdges
<1> HIDE DEF R, on, covered, left, exempt
<1>6. ASSUME NEW c PROVE CheckCycles(rule, c).entries = left(c).entries
                         /\ CheckCycles(rule, c).hits = left(c).hits
  <2>1. /\ AllOf({exempt, left(c)}).entries = exempt.entries \cup left(c).entries
        /\ AllOf({exempt, left(c)}).hits = exempt.hits \cup left(c).hits
    BY AllOfTwo
  <2> QED
    BY <1>1, <1>3, <2>1
<1>7. CheckCycles(rule, b).hits = HitsOnCycles(rule, b)
  <2>1. \A q \in on : frozen(b)[q] = FrozenFor(b, EdgeEntry(rule, q))
    OBVIOUS
  <2> HIDE DEF frozen
  <2> QED
    BY <1>2, <1>5, <1>6, <2>1 DEF HitsOnCycles
<1> QED
  BY <1>2, <1>4, <1>5, <1>6, <1>7

LEMMA HitsAreOnCycles == \A rule, b : CheckCycles(rule, b).hits = HitsOnCycles(rule, b)
BY CyclesFindEdges

LEMMA HitsWillBeOnCycles == (\A rule, b : CheckCycles(rule, b).hits = HitsOnCycles(rule, b))'
BY HitsAreOnCycles, PTL

LEMMA CyclesAreFound ==
  ASSUME IsGraph, NEW rule, rule.kind = "NoCycles"
  PROVE  \E found : IsFoundBy(rule, found)
<1> DEFINE on == JudgedEdges(rule)
           found == {EdgeEntry(rule, p) : p \in on}
<1>1. \A b : CheckRule(rule, b) = CheckCycles(rule, b)
  BY DEF CheckRule
<1>2. CheckRule(rule, {}).entries = found /\ \A b : CheckRule(rule, b).hits = HitsOnCycles(rule, b)
  BY <1>1, CyclesFindEdges
<1>3. \A p \in on : p = <<p[1], p[2]>> /\ {p[1], p[2]} \subseteq DOMAIN nodes
  <2>1. on \subseteq ProductionSubgraph(options.reexports)
    BY DEF JudgedEdges, OnCycles, Within, Scope
  <2> QED
    BY <2>1 DEF ProductionSubgraph, IsGraph
<1>4. \A p : /\ IsEntry(EdgeEntry(rule, p)) /\ EdgeEntry(rule, p).rule = rule.name
             /\ EdgeEntry(rule, p).edge = <<nodes[p[1]].path, nodes[p[2]].path>>
  BY SymbolsAreSymbols, EntryIsEntry DEF EdgeEntry
<1> HIDE DEF on
<1>5. \A b : HitsOnCycles(rule, b) = {x \in found : FrozenFor(b, x) # {}}
  BY DEF HitsOnCycles, on
<1>6. ASSUME NEW p \in on, NEW q \in on, EdgeEntry(rule, p).edge = EdgeEntry(rule, q).edge
      PROVE  p = q
  <2>1. nodes[p[1]].path = nodes[q[1]].path /\ nodes[p[2]].path = nodes[q[2]].path
    BY <1>4, <1>6
  <2> QED
    BY <1>3, <2>1 DEF IsGraph
<1>7. \A x \in found : \E p \in on : x = EdgeEntry(rule, p)
  OBVIOUS
<1> HIDE DEF found
<1>8. \A x \in found : IsEntry(x) /\ x.rule = rule.name
  BY <1>4, <1>7
<1>9. \A x, y \in found : x.edge = y.edge => x = y
  BY <1>6, <1>7
<1> QED
  BY <1>2, <1>5, <1>8, <1>9 DEF IsFoundBy

LEMMA RulesFind ==
  ASSUME IsGraph, NEW rule, rule.kind \in RuleKinds
  PROVE  \E found : IsFoundBy(rule, found)
BY ForbiddenIsFound, LayersAreFound, CyclesAreFound DEF RuleKinds

-----------------------------------------------------------------------------
(***************************************************************************)
(* The rules of a configuration differ in their names: what is found for    *)
(* one of them is not taken for another one's.                              *)
(***************************************************************************)
IsRulesFile(file) ==
  \/ file \in {Missing, Garbled}
  \/ /\ DOMAIN file = RawConfig /\ file.rules \in Seq(Range(file.rules))
     /\ \A r \in Range(file.rules) : r.kind \in RuleKinds /\ DOMAIN r = RawRule \cup Params(r.kind)

IsRule(r) == r.kind \in RuleKinds /\ DOMAIN r = Rule \cup Params(r.kind)
AreNamedApart(rules) ==
  /\ \A r \in Range(rules) : IsRule(r)
  /\ \A r, q \in Range(rules) : r.name = q.name => r = q

LEMMA NoPassFails ==
  ASSUME NEW found, DOMAIN found \subseteq Nat, FirstError(found) = {}
  PROVE  \A i \in DOMAIN found : found[i] = {}
<1> DEFINE bad == {i \in DOMAIN found : found[i] # {}}
<1>1. CASE bad = {}
  BY <1>1
<1>2. CASE bad # {}
  <2>1. Min(bad) \in bad
    BY <1>2, MinIsMember
  <2> QED
    BY <1>2, <2>1 DEF FirstError
<1> QED
  BY <1>1, <1>2

LEMMA ImplicitIsRule == ImplicitRule.name = ImplicitRuleName /\ IsRule(ImplicitRule)
BY DEF ImplicitRule, IsRule, RuleKinds, Rule, Params

LEMMA ImplicitIsNamedApart == AreNamedApart(<<ImplicitRule>>)
<1>1. Range(<<ImplicitRule>>) = {ImplicitRule}
  BY DEF Range
<1> QED
  BY <1>1, ImplicitIsRule DEF AreNamedApart

LEMMA RulesOfFileAreNamedApart ==
  ASSUME NEW file, file.is \notin {"missing", "garbled"}, IsRulesFile(file), Load(file).error = {}
  PROVE  AreNamedApart(Load(file).rules)
<1> DEFINE rules == [i \in DOMAIN file.rules |-> RuleOf(file, file.rules[i])]
           passes == <<IF file.version \subseteq {FormatVersion} THEN {} ELSE {"UnsupportedVersion"},
                       IF NamesRepeat(rules) THEN {"DuplicateRuleName"} ELSE {},
                       CatchAllErrors(rules), ArityErrors(rules), ExhaustiveErrors(rules),
                       IF IsReserved(rules) THEN {"ReservedRuleName"} ELSE {}>>
<1>1. file.rules \in Seq(Range(file.rules))
      /\ \A r \in Range(file.rules) : r.kind \in RuleKinds /\ DOMAIN r = RawRule \cup Params(r.kind)
  <2>1. file \notin {Missing, Garbled}
    BY DEF Missing, Garbled
  <2> QED
    BY <2>1 DEF IsRulesFile
<1>2. FirstError(passes) = {} /\ Load(file).rules = WithImplicitRule(rules)
  <2> HIDE DEF rules, passes
  <2>1. Load(file) = IF SyntaxErrors(file) # {} THEN [error |-> SyntaxErrors(file)]
                     ELSE IF FirstError(passes) # {} THEN [error |-> FirstError(passes)]
                     ELSE [error |-> {}, rules |-> WithImplicitRule(rules),
                           diagnostics |-> file.diagnostics @@ DefaultDiagnostics]
    BY DEF Load, rules, passes
  <2> HIDE DEF passes
  <2>2. SyntaxErrors(file) = {} /\ FirstError(passes) = {}
    BY <2>1
  <2> QED
    BY <2>1, <2>2
<1>3. \A i \in 1 .. 6 : passes[i] = {}
  <2>1. DOMAIN passes = 1 .. 6
    OBVIOUS
  <2> HIDE DEF passes
  <2> QED
    BY <1>2, <2>1, NoPassFails
<1>4. ~NamesRepeat(rules) /\ ~IsReserved(rules)
  BY <1>3
<1>5. \A i \in DOMAIN rules : IsRule(rules[i])
  <2>1. ASSUME NEW r \in Range(file.rules)
        PROVE  IsRule(RuleOf(file, r))
    <3>1. RuleOf(file, r).kind = r.kind /\ DOMAIN RuleOf(file, r) = DOMAIN r \ {"retired"}
      BY <1>1 DEF RuleOf, RawRule
    <3>2. DOMAIN r = RawRule \cup Params(r.kind) /\ r.kind \in RuleKinds
      BY <1>1
    <3>3. "retired" \notin Params(r.kind)
      BY <3>2 DEF Params, RuleKinds
    <3>4. RawRule \ {"retired"} = Rule
      BY DEF RawRule, Rule
    <3>5. DOMAIN r \ {"retired"} = Rule \cup Params(r.kind)
      BY <3>2, <3>3, <3>4
    <3> QED
      BY <3>1, <3>2, <3>5 DEF IsRule
  <2> QED
    BY <1>1, <2>1 DEF Range
<1>6. DOMAIN rules = 1 .. Len(file.rules) /\ Len(file.rules) \in Nat /\ rules \in Seq(Range(rules))
  <2>1. DOMAIN rules = 1 .. Len(file.rules) /\ Len(file.rules) \in Nat
    BY <1>1
  <2>2. \A i \in DOMAIN rules : rules[i] \in Range(rules)
    BY DEF Range
  <2>3. rules = [i \in 1 .. Len(file.rules) |-> rules[i]]
    BY <2>1
  <2> HIDE DEF rules
  <2> QED
    BY <2>1, <2>2, <2>3
<1> HIDE DEF rules
<1>7. AreNamedApart(rules)
  BY <1>4, <1>5, <1>6 DEF AreNamedApart, NamesRepeat, Range
<1>8. CASE StatesCycles(rules)
  BY <1>2, <1>7, <1>8 DEF WithImplicitRule
<1>9. CASE ~StatesCycles(rules)
  <2>1. \A r \in Range(rules) : r.name # ImplicitRuleName
    BY <1>4, <1>9 DEF IsReserved
  <2>2. Range(Append(rules, ImplicitRule)) \subseteq Range(rules) \cup {ImplicitRule}
    <3> DEFINE n == Len(rules)
    <3>1. n \in Nat /\ DOMAIN rules = 1 .. n
      BY <1>6
    <3>2. /\ DOMAIN Append(rules, ImplicitRule) = 1 .. n + 1
          /\ \A i \in 1 .. n : Append(rules, ImplicitRule)[i] = rules[i]
          /\ Append(rules, ImplicitRule)[n + 1] = ImplicitRule
      BY <1>6
    <3>3. 1 .. n + 1 = 1 .. n \cup {n + 1}
      BY <3>1
    <3> HIDE DEF n
    <3> QED
      BY <3>1, <3>2, <3>3 DEF Range
  <2> QED
    BY <1>2, <1>7, <1>9, <2>1, <2>2, ImplicitIsRule DEF AreNamedApart, WithImplicitRule
<1> QED
  BY <1>8, <1>9

LEMMA ConfigIsNamedApart ==
  ASSUME IsRulesFile(rulesFile), LoadConfig.error = {}
  PROVE  AreNamedApart(LoadConfig.rules)
<1>1. CASE Load(rulesFile).error = {"FileNotFound"} /\ ~options.explicit
  <2>1. LoadConfig.rules = <<ImplicitRule>>
    BY <1>1 DEF LoadConfig, Implicit
  <2> QED
    BY <2>1, ImplicitIsNamedApart
<1>2. CASE ~(Load(rulesFile).error = {"FileNotFound"} /\ ~options.explicit)
  <2>1. LoadConfig = Load(rulesFile)
    BY <1>2 DEF LoadConfig
  <2>2. rulesFile.is \notin {"missing", "garbled"}
    BY <2>1 DEF Load
  <2> QED
    BY <2>1, <2>2, RulesOfFileAreNamedApart
<1> QED
  BY <1>1, <1>2

-----------------------------------------------------------------------------
(***************************************************************************)
(* What all rules find together, and what a baseline of it makes stale.     *)
(***************************************************************************)
HaveKeys(A) ==
  /\ \A x \in A : IsEntry(x)
  /\ \A x, y \in A : SameKey(x, y) => x = y

ChecksOf(config, baseline) == AllOf({CheckRule(r, baseline) : r \in Active(config)})

LEMMA ChecksFind ==
  ASSUME IsGraph, NEW config, AreNamedApart(config.rules)
  PROVE  \E A : /\ HaveKeys(A)
                /\ \A x \in A : x.rule \notin IgnoredRules(config)
                /\ ChecksOf(config, {}).entries = A
                /\ \A b : ChecksOf(config, b).hits = {x \in A : FrozenFor(b, x) # {}}
<1> DEFINE found(r) == CHOOSE f : IsFoundBy(r, f)
           A == UNION {found(r) : r \in Active(config)}
<1>1. \A r \in Active(config) : IsFoundBy(r, found(r))
  BY RulesFind DEF AreNamedApart, IsRule, Active
<1> HIDE DEF found
<1>2. \A x \in A : \E r \in Active(config) : x \in found(r) /\ x.rule = r.name /\ IsEntry(x)
  BY <1>1 DEF IsFoundBy
<1>3. \A r, q \in Active(config) : r.name = q.name => r = q
  BY DEF AreNamedApart, Active
<1>4. ASSUME NEW x \in A, NEW y \in A, SameKey(x, y) PROVE x = y
  <2>1. PICK r \in Active(config) : x \in found(r) /\ x.rule = r.name
    BY <1>2
  <2>2. PICK q \in Active(config) : y \in found(q) /\ y.rule = q.name
    BY <1>2
  <2>3. r = q
    BY <1>3, <1>4, <2>1, <2>2 DEF SameKey
  <2> QED
    BY <1>1, <1>4, <2>1, <2>2, <2>3 DEF IsFoundBy, SameKey
<1>5. ASSUME NEW x \in A PROVE x.rule \notin IgnoredRules(config)
  <2>1. PICK r \in Active(config) : x.rule = r.name
    BY <1>2
  <2>2. \A q \in Range(config.rules) \ Active(config) : q.name # r.name
    BY DEF AreNamedApart, Active
  <2> QED
    BY <2>1, <2>2 DEF IgnoredRules
<1>6. ChecksOf(config, {}).entries = A
  <2>1. ChecksOf(config, {}).entries = UNION {c.entries : c \in {CheckRule(r, {}) : r \in Active(config)}}
    BY DEF ChecksOf, AllOf, Result
  <2>2. \A r \in Active(config) : CheckRule(r, {}).entries = found(r)
    BY <1>1 DEF IsFoundBy
  <2> QED
    BY <2>1, <2>2
<1>7. ASSUME NEW b PROVE ChecksOf(config, b).hits = {x \in A : FrozenFor(b, x) # {}}
  <2>1. ChecksOf(config, b).hits = UNION {c.hits : c \in {CheckRule(r, b) : r \in Active(config)}}
    BY DEF ChecksOf, AllOf, Result
  <2>2. \A r \in Active(config) : CheckRule(r, b).hits = {x \in found(r) : FrozenFor(b, x) # {}}
    BY <1>1 DEF IsFoundBy
  <2> QED
    BY <2>1, <2>2
<1> HIDE DEF A
<1>8. HaveKeys(A)
  BY <1>2, <1>4 DEF HaveKeys
<1> QED
  BY <1>5, <1>6, <1>7, <1>8

LEMMA SurplusIsUncovered ==
  ASSUME NEW s, NEW t, IsSymbols(s), IsSymbols(t)
  PROVE  Surplus(s, t) = NoSymbols <=> CoversSymbols(t, s)
<1>1. Surplus(s, t).named = s.named \ t.named /\ Surplus(s, t).bare = (s.bare /\ ~t.bare)
  BY DEF Surplus
<1>2. Surplus(s, t) = NoSymbols <=> s.named \ t.named = {} /\ ~(s.bare /\ ~t.bare)
  <2> DEFINE bare == s.bare /\ ~t.bare
             named == s.named \ t.named
  <2>1. Surplus(s, t) = [named |-> named, bare |-> bare]
    BY DEF Surplus
  <2>2. bare \in BOOLEAN
    OBVIOUS
  <2> HIDE DEF bare, named
  <2>3. [named |-> named, bare |-> bare] = [named |-> {}, bare |-> FALSE] <=> named = {} /\ bare = FALSE
    OBVIOUS
  <2> QED
    BY <2>1, <2>2, <2>3 DEF NoSymbols, bare, named
<1> QED
  BY <1>2 DEF CoversSymbols, IsSymbols

HitsOf(A, baseline) == {x \in A : FrozenFor(baseline, x) # {}}

\* An entry is diagnosed, if nothing on its edge covers it.
LEMMA UnmatchedIsUncovered ==
  ASSUME NEW base, \A x \in base : IsEntry(x), NEW A, HaveKeys(A), NEW x \in base
  PROVE  (\E u \in Unmatched(base, HitsOf(A, base)) : u.entry = x)
           <=> ~\E h \in A : SameKey(x, h) /\ CoversSymbols(h.symbols, x.symbols)
<1> DEFINE hits == HitsOf(A, base)
           observed(z) == {h \in hits : SameKey(z, h)}
           gone == {z \in base : observed(z) = {}}
           absent(z) == [entry |-> z, surplus |-> {}]
           left(z) == [entry |-> z, surplus |-> {Surplus(z.symbols, h.symbols) : h \in observed(z)}]
           narrowed == {u \in {left(z) : z \in base \ gone} : u.surplus # {NoSymbols}}
<1>1. Unmatched(base, hits) = {absent(z) : z \in gone} \cup narrowed
  BY DEF Unmatched
<1>2. observed(x) = {h \in A : SameKey(x, h)}
  BY DEF HitsOf, FrozenFor, SameKey
<1> HIDE DEF observed, hits
<1>3. (\E u \in Unmatched(base, hits) : u.entry = x)
        <=> observed(x) = {} \/ (observed(x) # {} /\ left(x).surplus # {NoSymbols})
  <2>1. (\E u \in {absent(z) : z \in gone} : u.entry = x) <=> observed(x) = {}
    <3>1. \A z : absent(z).entry = z
      OBVIOUS
    <3> HIDE DEF absent
    <3> QED
      BY <3>1
  <2>2. (\E u \in narrowed : u.entry = x) <=> observed(x) # {} /\ left(x).surplus # {NoSymbols}
    <3>1. \A z : left(z).entry = z
      OBVIOUS
    <3> HIDE DEF left
    <3> QED
      BY <3>1
  <2> QED
    BY <1>1, <2>1, <2>2
<1>4. CASE observed(x) = {}
  BY <1>2, <1>3, <1>4 DEF hits
<1>5. CASE observed(x) # {}
  <2>1. PICK h \in A : SameKey(x, h)
    BY <1>2, <1>5
  <2>2. observed(x) = {h}
    BY <1>2, <2>1 DEF HaveKeys, SameKey
  <2>3. left(x).surplus = {Surplus(x.symbols, h.symbols)}
    BY <2>2
  <2>4. IsSymbols(x.symbols) /\ IsSymbols(h.symbols)
    BY <2>1 DEF HaveKeys, IsEntry
  <2>5. left(x).surplus # {NoSymbols} <=> ~CoversSymbols(h.symbols, x.symbols)
    BY <2>3, <2>4, SurplusIsUncovered
  <2>6. \A g \in A : SameKey(x, g) => g = h
    BY <1>2, <2>2
  <2> HIDE DEF left
  <2> QED
    BY <1>3, <1>5, <2>1, <2>5, <2>6 DEF hits
<1> QED
  BY <1>4, <1>5

\* What is written again of an edge is what is found on it.
LEMMA MergedIsFound ==
  ASSUME NEW A, HaveKeys(A), NEW kept, NEW x, \A y \in kept : y.rule # x.rule
  PROVE  (\E y \in Merged(A \cup kept) : SameKey(x, y) /\ CoversSymbols(y.symbols, x.symbols))
           <=> \E h \in A : SameKey(x, h) /\ CoversSymbols(h.symbols, x.symbols)
<1> DEFINE E == A \cup kept
           all(z) == {y.symbols : y \in {w \in E : SameKey(z, w)}}
           merge(z) == [z EXCEPT !.symbols = [named |-> UNION {s.named : s \in all(z)},
                                              bare |-> \E s \in all(z) : s.bare]]
<1>1. Merged(E) = {merge(z) : z \in E}
  BY DEF Merged
<1>2. ASSUME NEW z \in A, SameKey(x, z) PROVE merge(z).symbols = z.symbols
  <2>1. {w \in E : SameKey(z, w)} = {z}
    BY <1>2 DEF SameKey, HaveKeys
  <2>2. all(z) = {z.symbols}
    BY <2>1
  <2>3. DOMAIN z = BaselineEntry /\ IsSymbols(z.symbols)
    BY DEF HaveKeys, IsEntry
  <2> DEFINE symbols == [named |-> UNION {s.named : s \in all(z)}, bare |-> \E s \in all(z) : s.bare]
  <2>4. UNION {s.named : s \in all(z)} = z.symbols.named
    BY <2>2
  <2>5. (\E s \in all(z) : s.bare) <=> z.symbols.bare
    BY <2>2
  <2>6. symbols = z.symbols
    BY <2>3, <2>4, <2>5 DEF IsSymbols
  <2> HIDE DEF symbols
  <2>7. merge(z) = [z EXCEPT !.symbols = symbols]
    BY DEF symbols
  <2> QED
    BY <2>3, <2>6, <2>7 DEF BaselineEntry
<1>3. ASSUME NEW z \in E PROVE merge(z).rule = z.rule /\ merge(z).edge = z.edge
  OBVIOUS
<1> HIDE DEF merge
<1>4. ASSUME NEW y \in Merged(E), SameKey(x, y)
      PROVE  \E z \in A : y = merge(z) /\ SameKey(x, z)
  BY <1>1, <1>3, <1>4 DEF SameKey
<1>5. \A z \in A : SameKey(x, z) => SameKey(x, merge(z))
  BY <1>3 DEF SameKey
<1> QED
  BY <1>1, <1>2, <1>4, <1>5

-----------------------------------------------------------------------------
(***************************************************************************)
(* What a check reads of the graph stays while no command changes it.       *)
(***************************************************************************)
GraphStays == nodes' = nodes /\ edges' = edges

LEMMA EdgesStay ==
  ASSUME GraphStays
  PROVE  /\ Members' = Members
         /\ ProductionEdges' = ProductionEdges
         /\ \A r : ProductionSubgraph(r)' = ProductionSubgraph(r)
         /\ \A n : ContainmentSubtree(n)' = ContainmentSubtree(n)
         /\ \A a, b : ModuleDepLocations(a, b)' = ModuleDepLocations(a, b)
         /\ \A a, b, rule, s : Entry(rule, a, b, s)' = Entry(rule, a, b, s)
<1>1. Members' = Members
  BY DEF GraphStays, Members, CrateNodes, ModuleNodes, Kind
<1>2. ProductionEdges' = ProductionEdges
  BY DEF GraphStays, ProductionEdges, EdgeSet, IsProduction
<1>3. ASSUME NEW r PROVE ProductionSubgraph(r)' = ProductionSubgraph(r)
  BY DEF GraphStays, ProductionSubgraph, EdgeSet, IsProductionModuleDep, IsReexport
<1>4. ASSUME NEW n PROVE ContainmentSubtree(n)' = ContainmentSubtree(n)
  BY DEF GraphStays, ContainmentSubtree, Chain, ParentOf, In, EdgeSet
<1>5. ASSUME NEW a, NEW b PROVE ModuleDepLocations(a, b)' = ModuleDepLocations(a, b)
  BY DEF GraphStays, ModuleDepLocations
<1>6. ASSUME NEW a, NEW b, NEW rule, NEW s PROVE Entry(rule, a, b, s)' = Entry(rule, a, b, s)
  BY DEF GraphStays, Entry
<1> QED
  BY <1>1, <1>2, <1>3, <1>4, <1>5, <1>6

LEMMA PatternsStay ==
  ASSUME GraphStays, NEW p PROVE ResolvePattern(p)' = ResolvePattern(p)
BY DEF GraphStays, Members, CrateNodes, ModuleNodes, Kind, EdgeSet, ContainmentSubtree, Chain, ParentOf, In,
  ResolvePattern, ResolveDescendants, ResolveChildren, Subtrees, MatchingIndices, Indexed

LEMMA AllowedStay ==
  ASSUME GraphStays, NEW allow, NEW a, NEW b PROVE CoveredBy(allow, a, b)' = CoveredBy(allow, a, b)
<1>1. ASSUME NEW to PROVE TargetsFrom(to, a)' = TargetsFrom(to, a)
  <2>1. \A levels : AncestorOf(a, levels)' = AncestorOf(a, levels)
    BY DEF GraphStays, AncestorOf, Chain, ParentOf, In, EdgeSet
  <2>2. RootCrateOf(a)' = RootCrateOf(a)
    BY DEF GraphStays, RootCrateOf, OwningCrate, Kind
  <2>3. {m \in DOMAIN nodes : a \in ParentOf(m)}' = {m \in DOMAIN nodes : a \in ParentOf(m)}
    BY DEF GraphStays, ParentOf, In, EdgeSet
  <2>4. ContainmentSubtree(a)' = ContainmentSubtree(a)
    BY EdgesStay
  <2>5. ResolvePattern(to.pattern)' = ResolvePattern(to.pattern)
    BY PatternsStay
  <2> QED
    BY <2>1, <2>2, <2>3, <2>4, <2>5 DEF TargetsFrom
<1>2. ASSUME NEW e PROVE Covers(e, a, b)' <=> Covers(e, a, b)
  BY <1>1, PatternsStay DEF Covers
<1> QED
  BY <1>2 DEF CoveredBy

LEMMA FoundStays ==
  ASSUME GraphStays, NEW rule, NEW b, NEW D
  PROVE  CheckDependencies(rule, b, D)'.hits = CheckDependencies(rule, b, D).hits
<1>1. ASSUME NEW d PROVE Judge(rule, b, d)'.hits = Judge(rule, b, d).hits
  <2>1. CoveredBy(rule.allow, d.source, d.target)' = CoveredBy(rule.allow, d.source, d.target)
    BY AllowedStay
  <2>2. \A s : Entry(rule, d.source, d.target, s)' = Entry(rule, d.source, d.target, s)
    BY EdgesStay
  <2> DEFINE entry == Entry(rule, d.source, d.target,
                            IF d.via = <<>> THEN EdgeSymbols(d.locations) ELSE NoSymbols)
             hits == IF CoveredBy(rule.allow, d.source, d.target) # {} \/ FrozenFor(b, entry) = {}
                     THEN {} ELSE {entry}
  <2>3. Judge(rule, b, d).hits = hits
    BY DEF Judge, Result
  <2>4. Judge(rule, b, d)'.hits = hits'
    BY DEF Judge, Result
  <2>5. entry' = entry
    BY <2>2
  <2> HIDE DEF entry
  <2>6. FrozenFor(b, entry)' = FrozenFor(b, entry)
    BY <2>5 DEF FrozenFor, SameKey
  <2>7. hits' = hits
    BY <2>1, <2>5, <2>6
  <2> HIDE DEF hits
  <2> QED
    BY <2>3, <2>4, <2>7
<1> QED
  BY <1>1 DEF CheckDependencies, AllOf, Result

LEMMA WrittenStay ==
  ASSUME GraphStays, NEW X PROVE WrittenDependencies(X)' = WrittenDependencies(X)
BY EdgesStay DEF WrittenDependencies

LEMMA LayersStay ==
  ASSUME GraphStays, NEW layers
  PROVE  LayerIndex(layers)' = LayerIndex(layers) /\ Overlaps(layers)' = Overlaps(layers)
<1>1. ASSUME NEW n PROVE ClaimedBy(layers, n)' = ClaimedBy(layers, n)
  BY PatternsStay DEF ClaimedBy, ResolveAll
<1>2. LayerRest(layers)' = LayerRest(layers)
  BY PatternsStay, EdgesStay DEF LayerRest, ResolveAll
<1>3. Overlaps(layers)' = Overlaps(layers)
  BY <1>1, EdgesStay DEF Overlaps
<1>4. LayerIndex(layers)' = LayerIndex(layers)
  BY <1>1, <1>2, EdgesStay DEF LayerIndex
<1> QED
  BY <1>3, <1>4

LEMMA RoutesStay ==
  ASSUME GraphStays, NEW positioned, NEW X
  PROVE  DependenciesOverUnpositioned(positioned, X)' = DependenciesOverUnpositioned(positioned, X)
<1>1. ASSUME NEW a PROVE RoutesOverUnpositioned(a, positioned)' = RoutesOverUnpositioned(a, positioned)
  BY DEF GraphStays, RoutesOverUnpositioned, NextLevel, ProductionEdges, EdgeSet, IsProduction
<1>2. ASSUME NEW a, NEW r PROVE WrittenEdges(a, r)' = WrittenEdges(a, r)
  BY EdgesStay DEF WrittenEdges
<1> DEFINE from(a) == {Dependency(a, r.target, WrittenEdges(a, r), {}) :
                         r \in {q \in RoutesOverUnpositioned(a, positioned) : <<a, q.target>> \in X}}
<1>3. ASSUME NEW a PROVE from(a)' = from(a)
  BY <1>1, <1>2
<1> HIDE DEF from
<1>4. {from(a) : a \in positioned}' = {from(a) : a \in positioned}
  BY <1>3
<1> QED
  BY <1>4 DEF DependenciesOverUnpositioned, from

LEMMA ForbiddenStays ==
  ASSUME GraphStays, NEW rule, NEW b
  PROVE  CheckForbidden(rule, b)'.hits = CheckForbidden(rule, b).hits
<1> DEFINE X == ResolvePattern(rule.from) \X ResolvePattern(rule.to)
<1>1. X' = X
  BY PatternsStay
<1>2. CheckForbidden(rule, b) = CheckDependencies(rule, b, WrittenDependencies(X))
  BY DEF CheckForbidden
<1>3. CheckForbidden(rule, b)' = CheckDependencies(rule, b, WrittenDependencies(X))'
  BY DEF CheckForbidden
<1> HIDE DEF X
<1>4. WrittenDependencies(X)' = WrittenDependencies(X)
  BY <1>1, EdgesStay DEF WrittenDependencies
<1>5. CheckDependencies(rule, b, WrittenDependencies(X))'.hits = CheckDependencies(rule, b, WrittenDependencies(X)).hits
  BY <1>4, FoundStays
<1> QED
  BY <1>2, <1>3, <1>5

LEMMA LayersCheckStays ==
  ASSUME GraphStays, NEW rule, NEW b
  PROVE  CheckLayers(rule, b)'.hits = CheckLayers(rule, b).hits
<1> DEFINE index == LayerIndex(rule.layers)
           rejected == {p \in (DOMAIN index) \X (DOMAIN index) : Rejects(rule, index, p[1], p[2])}
           broken == WrittenDependencies(rejected) \cup DependenciesOverUnpositioned(DOMAIN index, rejected)
<1>1. CheckLayers(rule, b) = CheckDependencies(rule, b, broken)
  BY DEF CheckLayers
<1>2. CheckLayers(rule, b)' = CheckDependencies(rule, b, broken)'
  BY DEF CheckLayers
<1>3. index' = index
  BY LayersStay
<1> HIDE DEF index
<1>4. rejected' = rejected
  BY <1>3 DEF Rejects
<1> HIDE DEF rejected
<1>5. WrittenDependencies(rejected)' = WrittenDependencies(rejected)
  BY <1>4, WrittenStay
<1>6. DependenciesOverUnpositioned(DOMAIN index, rejected)' = DependenciesOverUnpositioned(DOMAIN index, rejected)
  BY <1>3, <1>4, RoutesStay
<1>7. broken' = broken
  BY <1>5, <1>6
<1> HIDE DEF broken
<1> QED
  BY <1>1, <1>2, <1>7, FoundStays

LEMMA CyclesCheckStays ==
  ASSUME GraphStays, options' = options, NEW rule, NEW b
  PROVE  CheckCycles(rule, b)'.hits = CheckCycles(rule, b).hits
<1>1. Scope(rule)' = Scope(rule)
  BY EdgesStay, PatternsStay DEF Scope, Within
<1>2. AllowedEdges(rule)' = AllowedEdges(rule)
  BY <1>1, AllowedStay DEF AllowedEdges
<1>3. JudgedEdges(rule)' = JudgedEdges(rule)
  <2> DEFINE R == Scope(rule) \ AllowedEdges(rule)
  <2>1. R' = R
    BY <1>1, <1>2
  <2> HIDE DEF R
  <2>2. OnCycles(R)' = OnCycles(R)
    BY <2>1 DEF OnCycles, Within, Sccs, Tangled
  <2> QED
    BY <2>2 DEF JudgedEdges, R
<1>4. ASSUME NEW p PROVE EdgeEntry(rule, p)' = EdgeEntry(rule, p)
  BY EdgesStay DEF EdgeEntry
<1>5. ASSUME NEW p PROVE FrozenFor(b, EdgeEntry(rule, p))' = FrozenFor(b, EdgeEntry(rule, p))
  BY <1>4 DEF FrozenFor, SameKey
<1>6. HitsOnCycles(rule, b)' = HitsOnCycles(rule, b)
  BY <1>3, <1>4, <1>5 DEF HitsOnCycles
<1> QED
  BY <1>6, HitsAreOnCycles, HitsWillBeOnCycles

LEMMA ChecksStay ==
  ASSUME GraphStays, options' = options, NEW config, AreNamedApart(config.rules), NEW b
  PROVE  ChecksOf(config, b)'.hits = ChecksOf(config, b).hits
<1>1. ASSUME NEW r \in Active(config) PROVE CheckRule(r, b)'.hits = CheckRule(r, b).hits
  <2>1. r.kind \in RuleKinds
    BY DEF AreNamedApart, IsRule, Active
  <2>2. CASE r.kind = "ForbiddenDependency"
    BY <2>2, ForbiddenStays DEF CheckRule
  <2>3. CASE r.kind = "NoCycles"
    BY <2>3, CyclesCheckStays DEF CheckRule
  <2>4. CASE r.kind = "Layers"
    BY <2>4, LayersCheckStays DEF CheckRule
  <2> QED
    BY <2>1, <2>2, <2>3, <2>4 DEF RuleKinds
<1> QED
  BY <1>1 DEF ChecksOf, AllOf, Result

-----------------------------------------------------------------------------
(***************************************************************************)
(* What a check said of the baseline is true of the files and the code as   *)
(* long as it is the last command.                                          *)
(***************************************************************************)
IsBaselineFile(file) ==
  file \in {Missing, Garbled} \/ \A x \in file.entries : DOMAIN x = BaselineEntry

\* What run_check says that no rule's order of layers contradicts, and of the
\* entries that it looked for.
Says(o, config, frozen) ==
  /\ config.error = {}
  /\ \A r \in Active(config) : r.kind = "Layers" => Overlaps(r.layers) = {}
  /\ config.diagnostics.baseline # "Allow" =>
       o.diagnostics.baseline =
         {u \in Unmatched(frozen, ChecksOf(config, frozen).hits) : u.entry.rule \notin IgnoredRules(config)}

CodeIsOfProject ==
  /\ project \in Projects
  /\ \E code \in project.codes : nodes = code.nodes /\ edges = code.edges
  /\ rulesFile \in project.files

CheckInv ==
  /\ CodeIsOfProject
  /\ IsBaselineFile(baselineFile)
  /\ Checked => Says(outcome, LoadConfig, Frozen)

LEMMA ProjectIsGraph ==
  ASSUME NamesDiffer, CheckInv
  PROVE  IsGraph /\ IsRulesFile(rulesFile)
<1>1. IsProject(project)
  BY CheckAssumption DEF CheckInv, CodeIsOfProject
<1>2. PICK code \in project.codes : nodes = code.nodes /\ edges = code.edges
  BY DEF CheckInv, CodeIsOfProject
<1>3. IsGraph
  <2>1. /\ DOMAIN nodes \subseteq Nat /\ IsFiniteSet(DOMAIN nodes)
        /\ \A e \in EdgeSet : {e.src, e.dst} \subseteq DOMAIN nodes
    BY <1>1, <1>2 DEF IsProject, EdgeSet
  <2>2. \A m, n \in DOMAIN nodes : nodes[m].path = nodes[n].path => m = n
    BY <1>2 DEF NamesDiffer, CheckInv, CodeIsOfProject
  <2> QED
    BY <2>1, <2>2 DEF IsGraph
<1>4. IsRulesFile(rulesFile)
  BY <1>1 DEF IsProject, CheckInv, CodeIsOfProject, IsRulesFile
<1> QED
  BY <1>3, <1>4

LEMMA MergedAreEntries ==
  ASSUME NEW E, \A x \in E : DOMAIN x = BaselineEntry
  PROVE  \A x \in Merged(E) : IsEntry(x)
<1> DEFINE all(x) == {y.symbols : y \in {z \in E : SameKey(x, z)}}
           symbols(x) == [named |-> UNION {s.named : s \in all(x)}, bare |-> \E s \in all(x) : s.bare]
<1>1. Merged(E) = {[x EXCEPT !.symbols = symbols(x)] : x \in E}
  BY DEF Merged
<1>2. \A x : IsSymbols(symbols(x))
  BY DEF IsSymbols
<1> HIDE DEF symbols
<1>3. ASSUME NEW x \in E PROVE IsRecord([x EXCEPT !.symbols = symbols(x)])
  BY DEF IsRecord, BaselineEntry
<1> QED
  BY <1>1, <1>2, <1>3 DEF IsEntry, BaselineEntry

LEMMA LoadedAreEntries ==
  ASSUME NEW file, IsBaselineFile(file)
  PROVE  \A x \in LoadBaseline(file).entries : IsEntry(x)
BY MergedAreEntries DEF LoadBaseline, IsBaselineFile, Missing, Garbled

LEMMA CheckOfAll ==
  ASSUME NEW config, NEW b, \A r \in Active(config) : r.kind = "Layers" => Overlaps(r.layers) = {}
  PROVE  /\ CheckAll(config, b).result = ChecksOf(config, b)
         /\ CheckAll(config, b).diagnostics = CollectDiagnostics(config, b, ChecksOf(config, b).hits)
BY DEF CheckAll, ChecksOf

LEMMA CheckSays ==
  ASSUME NEW config, NEW baseline, CheckOutcome(config, baseline).error = {}
  PROVE  Says(CheckOutcome(config, baseline), config, baseline.entries)
<1> DEFINE run == CheckAll(config, baseline.entries)
<1>1. config.error = {} /\ baseline.error = {}
  BY DEF CheckOutcome, Failed
<1>2. CheckOutcome(config, baseline) = IF run.error # {} THEN Failed("check", run.error) ELSE Outcome(config, run)
  BY <1>1 DEF CheckOutcome
<1> HIDE DEF run
<1>3. run.error = {} /\ CheckOutcome(config, baseline) = Outcome(config, run)
  BY <1>2 DEF Failed
<1>4. \A r \in Active(config) : r.kind = "Layers" => Overlaps(r.layers) = {}
  BY <1>3 DEF run, CheckAll
<1>5. run.diagnostics = CollectDiagnostics(config, baseline.entries, ChecksOf(config, baseline.entries).hits)
  BY <1>4, CheckOfAll DEF run
<1>6. CheckOutcome(config, baseline).diagnostics = run.diagnostics
  BY <1>3 DEF Outcome
<1> QED
  BY <1>1, <1>4, <1>5, <1>6 DEF Says, CollectDiagnostics

LEMMA SaysStays ==
  ASSUME GraphStays, options' = options, NEW o, NEW config, NEW frozen, AreNamedApart(config.rules)
  PROVE  Says(o, config, frozen)' <=> Says(o, config, frozen)
<1>1. ChecksOf(config, frozen)'.hits = ChecksOf(config, frozen).hits
  BY ChecksStay
<1>2. \A layers : Overlaps(layers)' = Overlaps(layers)
  BY LayersStay
<1>3. Active(config)' = Active(config) /\ IgnoredRules(config)' = IgnoredRules(config)
  BY DEF Active, IgnoredRules
<1> QED
  BY <1>1, <1>2, <1>3 DEF Says, Unmatched

LEMMA StaleAreDropped ==
  ASSUME NamesDiffer, CheckInv
  PROVE  StaleEntriesAreDropped
<1> SUFFICES ASSUME Checked, LoadConfig.diagnostics.baseline # "Allow"
             PROVE  {u.entry : u \in outcome.diagnostics.baseline} =
                      {x \in Frozen : x.rule \notin IgnoredRules(LoadConfig) /\
                         ~\E y \in Regenerated(LoadConfig, CheckAll(LoadConfig, {})) :
                            SameKey(x, y) /\ CoversSymbols(y.symbols, x.symbols)}
  BY DEF StaleEntriesAreDropped
<1> DEFINE ignored == IgnoredRules(LoadConfig)
           kept == EntriesUnder(Frozen, ignored)
<1>1. Says(outcome, LoadConfig, Frozen)
  BY DEF CheckInv
<1>2. AreNamedApart(LoadConfig.rules)
  BY <1>1, ProjectIsGraph, ConfigIsNamedApart DEF Says
<1>3. PICK A : /\ HaveKeys(A)
               /\ \A x \in A : x.rule \notin ignored
               /\ ChecksOf(LoadConfig, {}).entries = A
               /\ \A b : ChecksOf(LoadConfig, b).hits = {x \in A : FrozenFor(b, x) # {}}
  BY <1>2, ProjectIsGraph, ChecksFind
<1> DEFINE hits == HitsOf(A, Frozen)
<1>4. outcome.diagnostics.baseline = {u \in Unmatched(Frozen, hits) : u.entry.rule \notin ignored}
  BY <1>1, <1>3 DEF Says, HitsOf
<1>5. Regenerated(LoadConfig, CheckAll(LoadConfig, {})) = Merged(A \cup kept)
  BY <1>1, <1>3, CheckOfAll DEF Says, Regenerated, Frozen
<1>6. \A x \in Frozen : IsEntry(x)
  BY LoadedAreEntries DEF Frozen, CheckInv
<1>7. \A u \in Unmatched(Frozen, hits) : u.entry \in Frozen
  BY DEF Unmatched
<1>8. ASSUME NEW x \in Frozen, x.rule \notin ignored
      PROVE  (\E u \in Unmatched(Frozen, hits) : u.entry = x)
               <=> ~\E y \in Merged(A \cup kept) : SameKey(x, y) /\ CoversSymbols(y.symbols, x.symbols)
  <2>1. \A y \in kept : y.rule # x.rule
    BY <1>8 DEF EntriesUnder
  <2>2. (\E u \in Unmatched(Frozen, HitsOf(A, Frozen)) : u.entry = x)
          <=> ~\E h \in A : SameKey(x, h) /\ CoversSymbols(h.symbols, x.symbols)
    <3> HIDE DEF hits, kept, ignored
    <3>1. HaveKeys(A) /\ (\A z \in Frozen : IsEntry(z)) /\ x \in Frozen
      BY <1>3, <1>6
    <3> QED
      BY <3>1, UnmatchedIsUncovered
  <2> HIDE DEF kept
  <2>3. (\E y \in Merged(A \cup kept) : SameKey(x, y) /\ CoversSymbols(y.symbols, x.symbols))
          <=> \E h \in A : SameKey(x, h) /\ CoversSymbols(h.symbols, x.symbols)
    BY <1>3, <2>1, MergedIsFound
  <2> QED
    BY <2>2, <2>3
<1> HIDE DEF hits, ignored, kept
<1>9. {u.entry : u \in outcome.diagnostics.baseline} =
        {x \in Frozen : x.rule \notin ignored /\ \E u \in Unmatched(Frozen, hits) : u.entry = x}
  BY <1>4, <1>7
<1>10. {u.entry : u \in outcome.diagnostics.baseline} =
         {x \in Frozen : x.rule \notin ignored /\
            ~\E y \in Merged(A \cup kept) : SameKey(x, y) /\ CoversSymbols(y.symbols, x.symbols)}
  BY <1>8, <1>9
<1> QED
  BY <1>5, <1>10 DEF ignored

LEMMA CheckedBySaying ==
  ASSUME GraphStays, options' = options, rulesFile' = rulesFile, baselineFile' = baselineFile,
         IsRulesFile(rulesFile), NEW o, o = outcome', Says(o, LoadConfig, Frozen)
  PROVE  Says(outcome, LoadConfig, Frozen)'
<1>1. PICK config, frozen : config = LoadConfig /\ frozen = Frozen
  OBVIOUS
<1>2. AreNamedApart(config.rules)
  BY <1>1, ConfigIsNamedApart DEF Says
<1>3. Says(o, config, frozen)'
  BY <1>1, <1>2, SaysStays
<1>4. config = LoadConfig' /\ frozen = Frozen'
  BY <1>1 DEF LoadConfig, Frozen
<1> QED
  BY <1>3, <1>4

LEMMA CheckInvAtFirst == CommandInit => CheckInv
<1> SUFFICES ASSUME CommandInit PROVE CheckInv
  OBVIOUS
<1>1. IsProject(project)
  BY CheckAssumption DEF CommandInit, CheckInit
<1>2. IsBaselineFile(baselineFile)
  BY <1>1 DEF CommandInit, CheckInit, IsProject, IsBaselineFile
<1>3. ~Checked
  BY DEF CommandInit, CheckInit, Checked, NoOutcome
<1> QED
  BY <1>2, <1>3 DEF CommandInit, CheckInit, CheckInv, CodeIsOfProject

LEMMA CodeStays ==
  ASSUME CodeIsOfProject, UNCHANGED <<nodes, edges, project, rulesFile>>
  PROVE  CodeIsOfProject'
BY DEF CodeIsOfProject

LEMMA FoundAreEntries ==
  ASSUME NamesDiffer, CheckInv, LoadConfig.error = {}, CheckAll(LoadConfig, {}).error = {}
  PROVE  \A x \in Regenerated(LoadConfig, CheckAll(LoadConfig, {})) : DOMAIN x = BaselineEntry
<1> DEFINE found == CheckAll(LoadConfig, {}).result.entries
           kept == EntriesUnder(LoadBaseline(baselineFile).entries, IgnoredRules(LoadConfig))
<1>1. \A x \in found : IsEntry(x)
  <2>1. \A r \in Active(LoadConfig) : r.kind = "Layers" => Overlaps(r.layers) = {}
    BY DEF CheckAll
  <2>2. found = ChecksOf(LoadConfig, {}).entries
    BY <2>1, CheckOfAll
  <2> QED
    BY <2>2, ProjectIsGraph, ConfigIsNamedApart, ChecksFind DEF HaveKeys
<1>2. \A x \in kept : IsEntry(x)
  BY LoadedAreEntries DEF CheckInv, EntriesUnder
<1> HIDE DEF found, kept
<1>3. \A x \in Merged(found \cup kept) : DOMAIN x = BaselineEntry
  BY <1>1, <1>2, MergedAreEntries DEF IsEntry
<1> QED
  BY <1>3 DEF Regenerated, found, kept

LEMMA WrittenIsBaseline ==
  ASSUME NamesDiffer, CheckInv, GenerateBaseline
  PROVE  IsBaselineFile(baselineFile') /\ ~Checked'
<1> DEFINE entries == Regenerated(LoadConfig, CheckAll(LoadConfig, {}))
<1>1. \/ \E error : Refused(error)
      \/ /\ LoadConfig.error = {} /\ CheckAll(LoadConfig, {}).error = {}
         /\ WriteBaseline(LoadConfig, entries)
  BY DEF GenerateBaseline
<1>2. ASSUME NEW error, Refused(error) PROVE IsBaselineFile(baselineFile') /\ ~Checked'
  BY <1>2 DEF Refused, Failed, Checked, CheckInv
<1>3. CASE /\ LoadConfig.error = {} /\ CheckAll(LoadConfig, {}).error = {}
           /\ WriteBaseline(LoadConfig, entries)
  <2>1. \A x \in entries : DOMAIN x = BaselineEntry
    BY <1>3, FoundAreEntries
  <2> HIDE DEF entries
  <2>2. \A part : part \subseteq entries => IsBaselineFile(Written(part))
    BY <2>1 DEF IsBaselineFile, Written
  <2>3. baselineFile' = Written(entries) \/ baselineFile' \in Cut(entries)
    BY <1>3 DEF WriteBaseline
  <2>4. \A file \in Cut(entries) : file = Garbled \/ \E part : part \subseteq entries /\ file = Written(part)
    BY DEF Cut
  <2>5. IsBaselineFile(Garbled)
    BY DEF IsBaselineFile
  <2>6. ~Checked'
    BY <1>3 DEF WriteBaseline, Failed, Checked
  <2> QED
    BY <2>2, <2>3, <2>4, <2>5, <2>6
<1> QED
  BY <1>1, <1>2, <1>3

\* A command that does not check leaves nothing to say.
LEMMA QuietStep ==
  ASSUME CheckInv, UNCHANGED <<nodes, edges, project, rulesFile, baselineFile>>, ~Checked'
  PROVE  CheckInv'
BY CodeStays DEF CheckInv, IsBaselineFile

LEMMA CheckStep ==
  ASSUME NamesDiffer, CheckInv, Check
  PROVE  CheckInv'
<1>1. CodeIsOfProject' /\ IsBaselineFile(baselineFile)'
  BY CodeStays DEF Check, Command, CheckInv, IsBaselineFile
<1>2. CASE ~Checked'
  BY <1>1, <1>2 DEF CheckInv
<1>3. CASE Checked'
  <2>1. PICK o : o = outcome'
    OBVIOUS
  <2>2. o = CheckOutcome(LoadConfig, LoadBaseline(baselineFile)) /\ o.error = {}
    BY <1>3, <2>1 DEF Check, Checked
  <2>3. Says(o, LoadConfig, Frozen)
    BY <2>2, CheckSays DEF Frozen
  <2>4. Says(outcome, LoadConfig, Frozen)'
    BY <2>1, <2>3, ProjectIsGraph, CheckedBySaying DEF Check, Command, GraphStays
  <2> QED
    BY <1>1, <2>4 DEF CheckInv
<1> QED
  BY <1>2, <1>3

LEMMA IdleStep ==
  ASSUME NamesDiffer, CheckInv, UNCHANGED checkVars
  PROVE  CheckInv'
<1>1. CASE ~Checked
  BY <1>1, QuietStep DEF checkVars, Checked
<1>2. CASE Checked
  <2>1. PICK o : o = outcome /\ o = outcome'
    BY DEF checkVars
  <2>2. Says(o, LoadConfig, Frozen)
    BY <1>2, <2>1 DEF CheckInv
  <2>3. Says(outcome, LoadConfig, Frozen)'
    BY <2>1, <2>2, ProjectIsGraph, CheckedBySaying DEF checkVars, GraphStays
  <2> QED
    BY <2>3, CodeStays DEF CheckInv, checkVars, IsBaselineFile
<1> QED
  BY <1>1, <1>2

\* The kinds of steps that there are, as far as a check is concerned.
LEMMA CommandKinds ==
  ASSUME CommandNext
  PROVE  \/ Check \/ GenerateBaseline \/ EditCode \/ EditRules \/ UNCHANGED checkVars
         \/ ~Checked' /\ UNCHANGED <<nodes, edges, options, project, rulesFile, baselineFile, frozenAt>>
<1>1. CASE RunCheck
  <2>1. CASE ~disk.manifest /\ Command /\ GivesUp("check", Unreadable) /\ UNCHANGED <<baselineFile, frozenAt>>
    <3>1. ~Checked'
      BY <2>1 DEF GivesUp, Unreadable, Failed, Checked
    <3> QED
      BY <2>1, <3>1 DEF Command
  <2> QED
    BY <1>1, <2>1 DEF RunCheck
<1>2. ASSUME NEW a \in project.arguments,
             Refuse(a) \/ Draw(a) \/ ReportVolatility(a) \/ DrawHotspots(a) \/ StartUi(a)
      PROVE  ~Checked' /\ UNCHANGED <<nodes, edges, options, project, rulesFile, baselineFile, frozenAt>>
  <2>1. \E command : Runs(a, command)
    BY <1>2 DEF Refuse, Draw, ReportVolatility, DrawHotspots, StartUi
  <2>2. ~Checked'
    <3>1. CASE Refuse(a)
      BY <3>1 DEF Refuse, GivesUp, Failed, Checked
    <3>2. CASE Draw(a)
      BY <3>2 DEF Draw, Runs, GivesUp, WriteOutput, Failed, Checked
    <3>3. CASE ReportVolatility(a)
      BY <3>3 DEF ReportVolatility, Runs, GivesUp, WriteOutput, Failed, Checked
    <3>4. CASE DrawHotspots(a)
      BY <3>4 DEF DrawHotspots, Runs, GivesUp, WriteOutput, Failed, Checked
    <3>5. CASE StartUi(a)
      BY <3>5 DEF StartUi, GivesUp, Failed, NoOutcome, Checked
    <3> QED
      BY <1>2, <3>1, <3>2, <3>3, <3>4, <3>5
  <2> QED
    BY <2>1, <2>2 DEF Runs
<1>3. CASE RerunUi
  BY <1>3 DEF RerunUi
<1>4. CASE StopUi
  BY <1>4 DEF StopUi, Checked
<1>5. CASE ChangeFiles
  BY <1>5 DEF ChangeFiles
<1> QED
  BY <1>1, <1>2, <1>3, <1>4, <1>5 DEF CommandNext

LEMMA ChangeStep ==
  ASSUME CheckInv, EditCode \/ EditRules
  PROVE  CheckInv'
<1>1. ~Checked' /\ UNCHANGED <<project, baselineFile>>
  BY DEF EditCode, EditRules, Change, NoOutcome, Checked
<1>2. CodeIsOfProject'
  BY DEF EditCode, EditRules, Change, CheckInv, CodeIsOfProject
<1> QED
  BY <1>1, <1>2 DEF CheckInv, IsBaselineFile

LEMMA GenerateStep ==
  ASSUME NamesDiffer, CheckInv, GenerateBaseline
  PROVE  CheckInv'
<1>1. IsBaselineFile(baselineFile') /\ ~Checked'
  BY WrittenIsBaseline
<1> QED
  BY <1>1, CodeStays DEF CheckInv, GenerateBaseline, Command, IsBaselineFile

LEMMA CommandStep ==
  ASSUME NamesDiffer, CheckInv, CommandNext
  PROVE  CheckInv'
<1>1. CASE ~Checked' /\ UNCHANGED <<nodes, edges, options, project, rulesFile, baselineFile, frozenAt>>
  BY <1>1, QuietStep
<1> QED
  BY <1>1, CommandKinds, CheckStep, GenerateStep, ChangeStep, IdleStep

(***************************************************************************)
(* The entries that a check diagnoses as stale are those that generating    *)
(* the baseline again would drop or narrow, whatever the rules, the code    *)
(* and the baseline are and in whichever order the commands run, as long as *)
(* no two nodes bear one name: Baseline::unmatched takes one edge for each  *)
(* key, Baseline::write all of them.                                        *)
(***************************************************************************)
THEOREM StaleEntriesAreDroppedHolds ==
  ASSUME NamesDiffer
  PROVE  CommandSpec => []StaleEntriesAreDropped
<1>1. CommandInit => CheckInv
  BY CheckInvAtFirst
<1>2. CheckInv /\ [CommandNext]_commandVars => CheckInv'
  BY CommandStep, IdleStep DEF commandVars
<1>3. CheckInv => StaleEntriesAreDropped
  BY StaleAreDropped
<1> QED
  BY <1>1, <1>2, <1>3, PTL DEF CommandSpec

-----------------------------------------------------------------------------
(***************************************************************************)
(* The code that a rule was frozen for may be gone and come back.           *)
(* SomeNodes, SomeEdges and SomeOptions stand for one version of it, and    *)
(* `Then` holds what the rules found in it.                                 *)
(***************************************************************************)
CONSTANTS SomeNodes, SomeEdges, SomeOptions
Then == INSTANCE Rules WITH nodes <- SomeNodes, edges <- SomeEdges, options <- SomeOptions
IsThen == nodes = SomeNodes /\ edges = SomeEdges /\ options = SomeOptions

LEMMA ThenCounts ==
  /\ \A S : Then!Cardinality(S) = Cardinality(S)
  /\ \A f : Then!Range(f) = Range(f)
  /\ \A S : Then!Max(S) = Max(S) /\ Then!Min(S) = Min(S)
<1>1. \A S : Then!Cardinality(S) = Cardinality(S)
  BY DEF Cardinality, Then!Cardinality
<1>2. \A f : Then!Range(f) = Range(f)
  BY DEF Range, Then!Range
<1>3. \A S : Then!Max(S) = Max(S) /\ Then!Min(S) = Min(S)
  BY DEF Max, Then!Max, Min, Then!Min
<1> QED
  BY <1>1, <1>2, <1>3

LEMMA ThenSymbols ==
  /\ Then!NoSymbols = NoSymbols
  /\ \A l : Then!EdgeSymbols(l) = EdgeSymbols(l)
  /\ \A b, x : Then!FrozenFor(b, x) = FrozenFor(b, x)
  /\ \A s, t : Then!CoversSymbols(s, t) <=> CoversSymbols(s, t)
BY DEF NoSymbols, Then!NoSymbols, EdgeSymbols, Then!EdgeSymbols, FrozenFor, Then!FrozenFor,
  SameKey, Then!SameKey, CoversSymbols, Then!CoversSymbols

LEMMA ThenEdges ==
  ASSUME IsThen
  PROVE  /\ Then!EdgeSet = EdgeSet
         /\ Then!Members = Members
         /\ Then!ProductionEdges = ProductionEdges
         /\ \A r : Then!ProductionSubgraph(r) = ProductionSubgraph(r)
         /\ \A a, b : Then!ModuleDepLocations(a, b) = ModuleDepLocations(a, b)
         /\ \A rule, a, b, s : Then!Entry(rule, a, b, s) = Entry(rule, a, b, s)
<1>1. Then!EdgeSet = EdgeSet
  BY ThenCounts DEF IsThen, EdgeSet, Then!EdgeSet
<1>2. Then!Members = Members
  BY DEF IsThen, Members, CrateNodes, ModuleNodes, Kind,
    Then!Members, Then!CrateNodes, Then!ModuleNodes, Then!Kind
<1>3. Then!ProductionEdges = ProductionEdges
  BY <1>1 DEF ProductionEdges, IsProduction, Then!ProductionEdges, Then!IsProduction
<1>4. ASSUME NEW r PROVE Then!ProductionSubgraph(r) = ProductionSubgraph(r)
  BY <1>1 DEF ProductionSubgraph, IsProductionModuleDep, IsReexport,
    Then!ProductionSubgraph, Then!IsProductionModuleDep, Then!IsReexport
<1>5. ASSUME NEW a, NEW b PROVE Then!ModuleDepLocations(a, b) = ModuleDepLocations(a, b)
  BY ThenCounts DEF IsThen, ModuleDepLocations, Then!ModuleDepLocations
<1>6. ASSUME NEW rule, NEW a, NEW b, NEW s PROVE Then!Entry(rule, a, b, s) = Entry(rule, a, b, s)
  BY DEF IsThen, Entry, Then!Entry
<1> QED
  BY <1>1, <1>2, <1>3, <1>4, <1>5, <1>6

LEMMA ThenChain ==
  ASSUME IsThen
  PROVE  /\ \A n : Then!ParentOf(n) = ParentOf(n)
         /\ \A n : Then!Chain(n) = Chain(n)
         /\ \A n : Then!ContainmentSubtree(n) = ContainmentSubtree(n)
<1>1. ASSUME NEW n PROVE Then!ParentOf(n) = ParentOf(n)
  BY ThenEdges DEF ParentOf, In, Then!ParentOf, Then!In
<1>2. ASSUME NEW n PROVE Then!Chain(n) = Chain(n)
  BY ThenCounts DEF IsThen, Chain, ParentOf, In, EdgeSet, Then!Chain, Then!ParentOf, Then!In, Then!EdgeSet
<1>3. ASSUME NEW n PROVE Then!ContainmentSubtree(n) = ContainmentSubtree(n)
  BY <1>2, ThenCounts DEF IsThen, ContainmentSubtree, Then!ContainmentSubtree
<1> QED
  BY <1>1, <1>2, <1>3

LEMMA ThenPatterns ==
  ASSUME IsThen
  PROVE  /\ \A p : Then!ResolvePattern(p) = ResolvePattern(p)
         /\ \A ps : Then!ResolveAll(ps) = ResolveAll(ps)
<1>1. ASSUME NEW name PROVE Then!MatchingIndices(name) = MatchingIndices(name)
  BY ThenEdges DEF IsThen, MatchingIndices, Indexed, SegmentMatches,
    Then!MatchingIndices, Then!Indexed, Then!SegmentMatches
<1>2. ASSUME NEW p PROVE Then!ResolvePattern(p) = ResolvePattern(p)
  <2>1. Then!ResolveDescendants(p.name) = ResolveDescendants(p.name)
    BY <1>1, ThenChain DEF ResolveDescendants, Then!ResolveDescendants
  <2>2. Then!ResolveChildren(p.name) = ResolveChildren(p.name)
    BY <1>1, ThenEdges DEF ResolveChildren, Then!ResolveChildren
  <2>3. Then!Subtrees(Then!MatchingIndices(p.name)) = Subtrees(MatchingIndices(p.name))
    BY <1>1, ThenChain DEF Subtrees, Then!Subtrees
  <2> QED
    BY <2>1, <2>2, <2>3, ThenEdges DEF ResolvePattern, Then!ResolvePattern
<1> QED
  BY <1>2 DEF ResolveAll, Then!ResolveAll

LEMMA ThenCovered ==
  ASSUME IsThen
  PROVE  \A allow, a, b : Then!CoveredBy(allow, a, b) = CoveredBy(allow, a, b)
<1>1. ASSUME NEW to, NEW a PROVE Then!TargetsFrom(to, a) = TargetsFrom(to, a)
  <2>1. Then!AncestorOf(a, to.levels) = AncestorOf(a, to.levels)
    <3>1. Then!Chain(a) = Chain(a)
      BY ThenChain
    <3> QED
      BY <3>1, Zenon DEF AncestorOf, Then!AncestorOf
  <2>2. Then!RootCrateOf(a) = RootCrateOf(a)
    BY DEF IsThen, RootCrateOf, OwningCrate, Kind, Then!RootCrateOf, Then!OwningCrate, Then!Kind
  <2>3. {m \in DOMAIN SomeNodes : a \in Then!ParentOf(m)} = {m \in DOMAIN nodes : a \in ParentOf(m)}
    BY ThenChain DEF IsThen
  <2> QED
    BY <2>1, <2>2, <2>3, ThenChain, ThenPatterns DEF TargetsFrom, Then!TargetsFrom
<1>2. ASSUME NEW e, NEW a, NEW b PROVE Then!Covers(e, a, b) <=> Covers(e, a, b)
  BY <1>1, ThenPatterns DEF Covers, Then!Covers
<1> QED
  BY <1>2, ThenCounts DEF CoveredBy, Then!CoveredBy

LEMMA ThenWritten ==
  ASSUME IsThen
  PROVE  \A X : Then!WrittenDependencies(X) = WrittenDependencies(X)
BY ThenEdges DEF WrittenDependencies, Dependency, Then!WrittenDependencies, Then!Dependency

LEMMA ThenLayers ==
  ASSUME IsThen
  PROVE  \A layers : Then!LayerIndex(layers) = LayerIndex(layers)
<1> SUFFICES ASSUME NEW layers PROVE Then!LayerIndex(layers) = LayerIndex(layers)
  OBVIOUS
<1>1. Then!Ordinary(layers) = Ordinary(layers) /\ Then!CatchAll = CatchAll
      /\ (Then!HasCatchAll(layers) <=> HasCatchAll(layers))
  BY DEF Ordinary, CatchAll, Star, HasCatchAll, Then!Ordinary, Then!CatchAll, Then!Star, Then!HasCatchAll
<1>2. ASSUME NEW n PROVE Then!ClaimedBy(layers, n) = ClaimedBy(layers, n)
  BY <1>1, ThenPatterns DEF ClaimedBy, Then!ClaimedBy
<1>3. Then!LayerRest(layers) = LayerRest(layers)
  BY <1>1, ThenEdges, ThenPatterns DEF LayerRest, Then!LayerRest
<1> QED
  BY <1>1, <1>2, <1>3, ThenEdges, ThenCounts DEF LayerIndex, Then!LayerIndex

LEMMA ThenRouted ==
  ASSUME IsThen
  PROVE  \A positioned, X :
           Then!DependenciesOverUnpositioned(positioned, X) = DependenciesOverUnpositioned(positioned, X)
<1>1. ASSUME NEW a, NEW positioned
      PROVE  Then!RoutesOverUnpositioned(a, positioned) = RoutesOverUnpositioned(a, positioned)
  <2>1. \A w : Then!NextLevel(w, positioned) = NextLevel(w, positioned)
    BY ThenEdges DEF IsThen, NextLevel, LexMin, LexLess, Then!LexMin, Then!LexLess, Then!NextLevel
  <2>2. Then!AtSource(a) = AtSource(a)
    BY DEF AtSource, Then!AtSource
  <2>3. Cardinality(DOMAIN nodes) = Then!Cardinality(DOMAIN SomeNodes)
    BY ThenCounts DEF IsThen
  <2> QED
    BY <2>1, <2>2, <2>3 DEF RoutesOverUnpositioned, Then!RoutesOverUnpositioned
<1>2. ASSUME NEW a, NEW r PROVE Then!WrittenEdges(a, r) = WrittenEdges(a, r)
  BY ThenEdges DEF WrittenEdges, Then!WrittenEdges
<1> QED
  BY <1>1, <1>2 DEF DependenciesOverUnpositioned, Dependency, Then!DependenciesOverUnpositioned, Then!Dependency

LEMMA ThenJudged ==
  ASSUME IsThen
  PROVE  \A rule, D : Then!CheckDependencies(rule, {}, D).entries = CheckDependencies(rule, {}, D).entries
<1>1. ASSUME NEW rule, NEW d PROVE Then!Judge(rule, {}, d).entries = Judge(rule, {}, d).entries
  <2> DEFINE entry == Then!Entry(rule, d.source, d.target,
                                 IF d.via = <<>> THEN Then!EdgeSymbols(d.locations) ELSE Then!NoSymbols)
  <2>1. entry = EntryOf(rule, d)
    BY ThenEdges, ThenSymbols DEF EntryOf
  <2>2. Then!FrozenFor({}, entry) = {}
    BY DEF Then!FrozenFor
  <2>3. Then!CoveredBy(rule.allow, d.source, d.target) = CoveredBy(rule.allow, d.source, d.target)
    BY ThenCovered
  <2>4. Then!Judge(rule, {}, d).entries = IF Then!CoveredBy(rule.allow, d.source, d.target) # {} THEN {} ELSE {entry}
    BY <2>2 DEF Then!Judge, Then!Result
  <2> HIDE DEF entry
  <2> QED
    BY <2>1, <2>3, <2>4, JudgedOne DEF Found
<1> QED
  BY <1>1 DEF CheckDependencies, AllOf, Result, Then!CheckDependencies, Then!AllOf, Then!Result

LEMMA ThenOnCycles ==
  /\ \A R : Then!OnCycles(R) = OnCycles(R)
  /\ \A R, S : Then!Within(R, S) = Within(R, S)
<1>1. \A S, R : Then!ReachedFrom(S, R) = ReachedFrom(S, R)
  BY ThenCounts DEF ReachedFrom, Then!ReachedFrom
<1>2. \A R : Then!Sccs(R) = Sccs(R)
  BY <1>1 DEF Sccs, Tangled, Then!Sccs, Then!Tangled
<1>3. \A R, S : Then!Within(R, S) = Within(R, S)
  BY DEF Within, Then!Within
<1> QED
  BY <1>2, <1>3 DEF OnCycles, Then!OnCycles

LEMMA ThenCycles ==
  ASSUME IsThen
  PROVE  \A rule : Then!CheckCycles(rule, {}).entries = CheckCycles(rule, {}).entries
<1> SUFFICES ASSUME NEW rule
             PROVE  Then!CheckCycles(rule, {}).entries = CheckCycles(rule, {}).entries
  OBVIOUS
<1>1. Then!Scope(rule) = Scope(rule)
  BY ThenEdges, ThenPatterns, ThenOnCycles DEF IsThen, Scope, Then!Scope
<1>2. Then!AllowedEdges(rule) = AllowedEdges(rule)
  BY <1>1, ThenCovered DEF AllowedEdges, Then!AllowedEdges
<1> DEFINE R == Then!Scope(rule) \ Then!AllowedEdges(rule)
           on == Then!OnCycles(R)
           frozen == [p \in on |-> Then!FrozenFor({}, Then!EdgeEntry(rule, p))]
           covered == Then!CoveredEdges(rule, {}, R)
           left == Then!CyclesIn(rule, R, covered, frozen)
           exempt == Then!Result({Then!AllowedOnCycle(rule, p) :
                                    p \in Then!AllowedEdges(rule) \cap Then!OnCycles(Then!Scope(rule))}, {}, {})
<1>3. Then!CheckCycles(rule, {}) = Then!AllOf({exempt, left})
  BY DEF Then!CheckCycles
<1>4. left.entries = {Then!EdgeEntry(rule, p) : p \in on \ covered}
  BY DEF Then!CyclesIn, Then!Result
<1>5. exempt.entries = {}
  BY DEF Then!Result
<1>6. covered = {}
  BY DEF Then!CoveredEdges, Then!FrozenFor
<1>7. on = JudgedEdges(rule)
  BY <1>1, <1>2, ThenOnCycles DEF JudgedEdges
<1> HIDE DEF R, on, covered, left, exempt
<1>8. Then!CheckCycles(rule, {}).entries = left.entries
  <2>1. Then!AllOf({exempt, left}).entries = exempt.entries \cup left.entries
    <3>1. UNION {x.entries : x \in {exempt, left}} = exempt.entries \cup left.entries
      OBVIOUS
    <3> QED
      BY <3>1 DEF Then!AllOf, Then!Result
  <2> QED
    BY <1>3, <1>5, <2>1
<1>9. \A p : Then!EdgeEntry(rule, p) = EdgeEntry(rule, p)
  BY ThenEdges, ThenSymbols DEF EdgeEntry, Then!EdgeEntry
<1> QED
  BY <1>4, <1>6, <1>7, <1>8, <1>9, CyclesFindEdges

LEMMA ThenFound ==
  ASSUME IsThen, NEW rule, rule.kind \in RuleKinds
  PROVE  Then!CheckRule(rule, {}).entries = CheckRule(rule, {}).entries
<1>1. CASE rule.kind = "ForbiddenDependency"
  <2> DEFINE X == ResolvePattern(rule.from) \X ResolvePattern(rule.to)
             oldX == Then!ResolvePattern(rule.from) \X Then!ResolvePattern(rule.to)
  <2>1. CheckRule(rule, {}) = CheckDependencies(rule, {}, WrittenDependencies(X))
    BY <1>1 DEF CheckRule, CheckForbidden
  <2>2. Then!CheckRule(rule, {}) = Then!CheckDependencies(rule, {}, Then!WrittenDependencies(oldX))
    BY <1>1 DEF Then!CheckRule, Then!CheckForbidden
  <2>3. oldX = X
    BY ThenPatterns
  <2> HIDE DEF X, oldX
  <2> QED
    BY <2>1, <2>2, <2>3, ThenJudged, ThenWritten
<1>2. CASE rule.kind = "NoCycles"
  BY <1>2, ThenCycles DEF CheckRule, Then!CheckRule
<1>3. CASE rule.kind = "Layers"
  <2> DEFINE index == LayerIndex(rule.layers)
             rejected == {p \in (DOMAIN index) \X (DOMAIN index) : Rejects(rule, index, p[1], p[2])}
             broken == WrittenDependencies(rejected) \cup DependenciesOverUnpositioned(DOMAIN index, rejected)
             oldIndex == Then!LayerIndex(rule.layers)
             oldRejected == {p \in (DOMAIN oldIndex) \X (DOMAIN oldIndex) : Then!Rejects(rule, oldIndex, p[1], p[2])}
             oldBroken == Then!WrittenDependencies(oldRejected)
                            \cup Then!DependenciesOverUnpositioned(DOMAIN oldIndex, oldRejected)
  <2>1. CheckRule(rule, {}) = CheckDependencies(rule, {}, broken)
    BY <1>3 DEF CheckRule, CheckLayers
  <2>2. Then!CheckRule(rule, {}) = Then!CheckDependencies(rule, {}, oldBroken)
    BY <1>3 DEF Then!CheckRule, Then!CheckLayers
  <2>3. oldIndex = index
    BY ThenLayers
  <2> HIDE DEF index, oldIndex
  <2>4. oldRejected = rejected
    BY <2>3 DEF Rejects, Then!Rejects
  <2> HIDE DEF rejected, oldRejected
  <2>5. oldBroken = broken
    BY <2>3, <2>4, ThenWritten, ThenRouted
  <2> HIDE DEF broken, oldBroken
  <2> QED
    BY <2>1, <2>2, <2>5, ThenJudged
<1> QED
  BY <1>1, <1>2, <1>3 DEF RuleKinds

\* All of a rule but its severity.
Same(rule, other) ==
  /\ rule.kind = other.kind /\ rule.name = other.name /\ rule.allow = other.allow
  /\ \A key \in Params(rule.kind) : rule[key] = other[key]

LEMMA SeverityIsNotFound ==
  ASSUME NEW rule, NEW other, rule.kind \in RuleKinds, Same(rule, other)
  PROVE  CheckRule(rule, {}).entries = CheckRule(other, {}).entries
<1>1. \A a, b, s : Entry(rule, a, b, s) = Entry(other, a, b, s)
  BY DEF Same, Entry
<1>2. ASSUME NEW D PROVE CheckDependencies(rule, {}, D).entries = CheckDependencies(other, {}, D).entries
  <2>1. \A d : Found(rule, d) = Found(other, d)
    BY <1>1 DEF Same, Found, EntryOf
  <2>2. \A r : CheckDependencies(r, {}, D).entries = UNION {Found(r, d) : d \in D}
    <3> TAKE r
    <3>1. CheckDependencies(r, {}, D).entries = UNION {c.entries : c \in {Judge(r, {}, d) : d \in D}}
      BY DEF CheckDependencies, AllOf, Result
    <3> QED
      BY <3>1, JudgedOne
  <2> QED
    BY <2>1, <2>2
<1>3. CASE rule.kind = "ForbiddenDependency"
  <2>1. rule.from = other.from /\ rule.to = other.to
    BY <1>3 DEF Same, Params
  <2> QED
    BY <1>2, <1>3, <2>1 DEF CheckRule, CheckForbidden, Same
<1>4. CASE rule.kind = "NoCycles"
  <2>1. rule.scope = other.scope
    BY <1>4 DEF Same, Params
  <2>2. JudgedEdges(rule) = JudgedEdges(other)
    BY <2>1 DEF JudgedEdges, Scope, AllowedEdges, Same
  <2>3. \A p : EdgeEntry(rule, p) = EdgeEntry(other, p)
    BY <1>1 DEF EdgeEntry
  <2>4. CheckRule(rule, {}) = CheckCycles(rule, {}) /\ CheckRule(other, {}) = CheckCycles(other, {})
    BY <1>4 DEF CheckRule, Same
  <2>5. \A r : CheckCycles(r, {}).entries = {EdgeEntry(r, p) : p \in JudgedEdges(r)}
    BY CyclesFindEdges
  <2>6. {EdgeEntry(rule, p) : p \in JudgedEdges(rule)} = {EdgeEntry(other, p) : p \in JudgedEdges(other)}
    BY <2>2, <2>3
  <2>7. CheckCycles(rule, {}).entries = CheckCycles(other, {}).entries
    BY <2>5, <2>6
  <2> QED
    BY <2>4, <2>7
<1>5. CASE rule.kind = "Layers"
  <2>1. rule.layers = other.layers /\ rule.direction = other.direction
    BY <1>5 DEF Same, Params
  <2> DEFINE index == LayerIndex(rule.layers)
             rejected(r) == {p \in (DOMAIN index) \X (DOMAIN index) : Rejects(r, index, p[1], p[2])}
             broken(r) == WrittenDependencies(rejected(r))
                            \cup DependenciesOverUnpositioned(DOMAIN index, rejected(r))
  <2>2. CheckRule(rule, {}) = CheckDependencies(rule, {}, broken(rule))
    BY <1>5 DEF CheckRule, CheckLayers
  <2>3. CheckRule(other, {}) = CheckDependencies(other, {}, broken(other))
    BY <1>5, <2>1 DEF CheckRule, CheckLayers, Same
  <2> HIDE DEF index
  <2>4. rejected(rule) = rejected(other)
    BY <2>1 DEF Rejects
  <2> HIDE DEF rejected
  <2> QED
    BY <1>2, <2>2, <2>3, <2>4
<1> QED
  BY <1>3, <1>4, <1>5 DEF RuleKinds

-----------------------------------------------------------------------------
(***************************************************************************)
(* What was found then is found again, at whatever severity.                *)
(***************************************************************************)
LEMMA SnapshotIsSame ==
  ASSUME NEW rule, IsRule(rule)
  PROVE  Snapshot(rule).rule.kind \in RuleKinds /\ Same(Snapshot(rule).rule, rule)
<1> DEFINE s == Snapshot(rule).rule
<1>1. s = [key \in DOMAIN rule \ {"severity"} |-> rule[key]]
  BY DEF Snapshot
<1>2. "severity" \notin Params(rule.kind)
  BY DEF IsRule, RuleKinds, Params
<1>3. {"kind", "name", "allow"} \cup Params(rule.kind) \subseteq DOMAIN rule \ {"severity"}
  BY <1>2 DEF IsRule, Rule
<1> HIDE DEF s
<1>4. \A key \in {"kind", "name", "allow"} \cup Params(rule.kind) : s[key] = rule[key]
  BY <1>1, <1>3
<1>5. s.kind = rule.kind /\ s.name = rule.name /\ s.allow = rule.allow
  BY <1>4
<1> QED
  BY <1>4, <1>5 DEF Same, IsRule, s

\* What was found in the code that a rule was frozen for.
LEMMA FoundThen ==
  ASSUME IsThen, NEW rule, IsRule(rule)
  PROVE  Then!CheckRule(Snapshot(rule).rule, {}).entries = CheckRule(rule, {}).entries
<1>1. Snapshot(rule).rule.kind \in RuleKinds /\ Same(Snapshot(rule).rule, rule)
  BY SnapshotIsSame
<1>2. Then!CheckRule(Snapshot(rule).rule, {}).entries = CheckRule(Snapshot(rule).rule, {}).entries
  BY <1>1, ThenFound
<1>3. CheckRule(Snapshot(rule).rule, {}).entries = CheckRule(rule, {}).entries
  BY <1>1, SeverityIsNotFound
<1> QED
  BY <1>2, <1>3

-----------------------------------------------------------------------------
\* Entries that have been merged are not merged again.
MergedSymbols(E, x) ==
  [named |-> UNION {s.named : s \in {y.symbols : y \in {z \in E : SameKey(x, z)}}},
   bare |-> \E s \in {y.symbols : y \in {z \in E : SameKey(x, z)}} : s.bare]

LEMMA MergedAre == \A E : Merged(E) = {[x EXCEPT !.symbols = MergedSymbols(E, x)] : x \in E}
BY DEF Merged, MergedSymbols

LEMMA MergedHaveKeys ==
  ASSUME NEW E, \A x \in E : DOMAIN x = BaselineEntry
  PROVE  HaveKeys(Merged(E))
<1> DEFINE merge(x) == [x EXCEPT !.symbols = MergedSymbols(E, x)]
<1>1. Merged(E) = {merge(x) : x \in E}
  BY MergedAre
<1>2. \A x \in Merged(E) : IsEntry(x)
  BY MergedAreEntries
<1>3. ASSUME NEW x \in E, NEW y \in E, SameKey(merge(x), merge(y)) PROVE merge(x) = merge(y)
  <2>1. SameKey(x, y)
    BY <1>3 DEF SameKey, BaselineEntry
  <2>2. {z \in E : SameKey(x, z)} = {z \in E : SameKey(y, z)}
    BY <2>1 DEF SameKey
  <2>3. MergedSymbols(E, x) = MergedSymbols(E, y)
    BY <2>2 DEF MergedSymbols
  <2> DEFINE symbols == MergedSymbols(E, y)
  <2> HIDE DEF symbols
  <2>4. [x EXCEPT !.symbols = symbols] = [y EXCEPT !.symbols = symbols]
    BY <2>1 DEF SameKey, BaselineEntry
  <2> QED
    BY <2>3, <2>4 DEF symbols
<1> HIDE DEF merge
<1> QED
  BY <1>1, <1>2, <1>3 DEF HaveKeys

LEMMA MergedOnce ==
  ASSUME NEW E, HaveKeys(E)
  PROVE  Merged(E) = E
<1>1. ASSUME NEW x \in E PROVE [x EXCEPT !.symbols = MergedSymbols(E, x)] = x
  <2>1. {z \in E : SameKey(x, z)} = {x}
    BY DEF HaveKeys, SameKey
  <2>2. DOMAIN x = BaselineEntry /\ IsRecord(x) /\ IsSymbols(x.symbols)
    BY DEF HaveKeys, IsEntry
  <2>3. {y.symbols : y \in {z \in E : SameKey(x, z)}} = {x.symbols}
    BY <2>1
  <2>4. MergedSymbols(E, x) = [named |-> UNION {s.named : s \in {x.symbols}}, bare |-> \E s \in {x.symbols} : s.bare]
    BY <2>3 DEF MergedSymbols
  <2>5. UNION {s.named : s \in {x.symbols}} = x.symbols.named
    OBVIOUS
  <2>6. (\E s \in {x.symbols} : s.bare) = x.symbols.bare
    BY <2>2 DEF IsSymbols
  <2>7. MergedSymbols(E, x) = x.symbols
    BY <2>2, <2>4, <2>5, <2>6 DEF IsSymbols
  <2>8. [x EXCEPT !.symbols = x.symbols] = [key \in BaselineEntry |-> x[key]]
    BY <2>2 DEF BaselineEntry
  <2> QED
    BY <2>2, <2>7, <2>8 DEF IsRecord
<1> QED
  BY <1>1, MergedAre

LEMMA FrozenHaveKeys ==
  ASSUME IsBaselineFile(baselineFile)
  PROVE  HaveKeys(Frozen)
BY MergedHaveKeys DEF Frozen, LoadBaseline, IsBaselineFile, HaveKeys, Missing, Garbled

-----------------------------------------------------------------------------
\* Of what a run finds, the part of one rule.
LEMMA FoundOfRule ==
  ASSUME IsGraph, NEW config, AreNamedApart(config.rules), NEW r \in Active(config)
  PROVE  EntriesUnder(ChecksOf(config, {}).entries, {r.name}) = CheckRule(r, {}).entries
<1>1. ChecksOf(config, {}).entries = UNION {CheckRule(q, {}).entries : q \in Active(config)}
  <2>1. ChecksOf(config, {}).entries = UNION {c.entries : c \in {CheckRule(q, {}) : q \in Active(config)}}
    BY DEF ChecksOf, AllOf, Result
  <2> QED
    BY <2>1
<1>2. \A q \in Active(config) : \A x \in CheckRule(q, {}).entries : x.rule = q.name
  <2>1. \A q \in Active(config) : q.kind \in RuleKinds
    BY DEF AreNamedApart, IsRule, Active
  <2> QED
    BY <2>1, RulesFind DEF IsFoundBy
<1>3. \A q \in Active(config) : q.name = r.name => q = r
  BY DEF AreNamedApart, Active
<1> QED
  BY <1>1, <1>2, <1>3 DEF EntriesUnder

-----------------------------------------------------------------------------
(***************************************************************************)
(* Under the name of a rule that is frozen the baseline holds what it found *)
(* in the code it was frozen for.                                           *)
(***************************************************************************)
\* A rule that was frozen for this graph.
IsOfThen(frozen) == frozen.nodes = SomeNodes /\ frozen.edges = SomeEdges /\ options = SomeOptions
IsKept(frozen, entries) == IsOfThen(frozen) => entries = Then!CheckRule(frozen.rule, {}).entries
FrozenInv == \A n \in DOMAIN frozenAt : IsKept(frozenAt[n], EntriesUnder(Frozen, {n}))

LEMMA RegeneratedIs ==
  ASSUME NamesDiffer, CheckInv, LoadConfig.error = {}, CheckAll(LoadConfig, {}).error = {}
  PROVE  \E A : /\ A = ChecksOf(LoadConfig, {}).entries
                /\ \A x \in A : x.rule \notin IgnoredRules(LoadConfig)
                /\ HaveKeys(A \cup EntriesUnder(Frozen, IgnoredRules(LoadConfig)))
                /\ Regenerated(LoadConfig, CheckAll(LoadConfig, {})) =
                     A \cup EntriesUnder(Frozen, IgnoredRules(LoadConfig))
<1> DEFINE ignored == IgnoredRules(LoadConfig)
           kept == EntriesUnder(Frozen, ignored)
<1>1. IsGraph /\ AreNamedApart(LoadConfig.rules)
  BY ProjectIsGraph, ConfigIsNamedApart
<1>2. PICK A : /\ HaveKeys(A)
               /\ \A x \in A : x.rule \notin ignored
               /\ ChecksOf(LoadConfig, {}).entries = A
  BY <1>1, ChecksFind
<1>3. HaveKeys(Frozen)
  BY FrozenHaveKeys DEF CheckInv
<1>4. \A x \in kept : x \in Frozen /\ x.rule \in ignored
  BY DEF EntriesUnder
<1>5. Regenerated(LoadConfig, CheckAll(LoadConfig, {})) = Merged(A \cup kept)
  <2>1. \A r \in Active(LoadConfig) : r.kind = "Layers" => Overlaps(r.layers) = {}
    BY DEF CheckAll
  <2>2. CheckAll(LoadConfig, {}).result.entries = A
    BY <1>2, <2>1, CheckOfAll
  <2> QED
    BY <2>2 DEF Regenerated, Frozen
<1> HIDE DEF ignored, kept
<1>6. HaveKeys(A \cup kept)
  BY <1>2, <1>3, <1>4 DEF HaveKeys, SameKey
<1>7. Merged(A \cup kept) = A \cup kept
  BY <1>6, MergedOnce
<1> QED
  BY <1>2, <1>5, <1>6, <1>7 DEF ignored, kept

LEMMA FrozenIsWritten ==
  ASSUME NamesDiffer, CheckInv, LoadConfig.error = {}, CheckAll(LoadConfig, {}).error = {},
         baselineFile' = Written(Regenerated(LoadConfig, CheckAll(LoadConfig, {})))
  PROVE  Frozen' = ChecksOf(LoadConfig, {}).entries \cup EntriesUnder(Frozen, IgnoredRules(LoadConfig))
<1> DEFINE E == ChecksOf(LoadConfig, {}).entries \cup EntriesUnder(Frozen, IgnoredRules(LoadConfig))
<1>1. HaveKeys(E) /\ baselineFile' = Written(E)
  BY RegeneratedIs
<1> HIDE DEF E
<1>2. Frozen' = Merged(E)
  BY <1>1 DEF Frozen, LoadBaseline, Written
<1> QED
  BY <1>1, <1>2, MergedOnce DEF E

\* What is under each name that is frozen now.
LEMMA FrozenNowIs ==
  ASSUME NamesDiffer, CheckInv, LoadConfig.error = {}, CheckAll(LoadConfig, {}).error = {}, FrozenInv,
         NEW E, E = ChecksOf(LoadConfig, {}).entries \cup EntriesUnder(Frozen, IgnoredRules(LoadConfig)),
         NEW n \in DOMAIN FrozenNow(LoadConfig)
  PROVE  IsKept(FrozenNow(LoadConfig)[n], EntriesUnder(E, {n}))
<1> DEFINE ignored == IgnoredRules(LoadConfig)
           active == Active(LoadConfig)
           names == {r.name : r \in active} \cup (DOMAIN frozenAt \cap ignored)
           now(m) == IF m \in ignored THEN frozenAt[m] ELSE Snapshot(CHOOSE r \in active : r.name = m)
<1>1. IsGraph /\ AreNamedApart(LoadConfig.rules)
  BY ProjectIsGraph, ConfigIsNamedApart
<1>2. \A x \in ChecksOf(LoadConfig, {}).entries : x.rule \notin ignored
  BY RegeneratedIs
<1>3. n \in names /\ FrozenNow(LoadConfig)[n] = now(n)
  BY DEF FrozenNow
<1>4. \A r \in active : r.name \notin ignored
  BY <1>1 DEF AreNamedApart, Active, IgnoredRules
<1>5. \A r, q \in active : r.name = q.name => r = q
  BY <1>1 DEF AreNamedApart, Active
<1>6. CASE n \in ignored
  <2>1. n \in DOMAIN frozenAt /\ now(n) = frozenAt[n]
    BY <1>3, <1>4, <1>6
  <2>2. EntriesUnder(E, {n}) = EntriesUnder(Frozen, {n})
    BY <1>2, <1>6 DEF EntriesUnder
  <2> QED
    BY <1>3, <2>1, <2>2 DEF FrozenInv
<1>7. CASE n \notin ignored
  <2>1. PICK r \in active : r.name = n
    BY <1>3, <1>7
  <2>2. (CHOOSE q \in active : q.name = n) = r
    BY <1>5, <2>1
  <2>3. now(n) = Snapshot(r)
    BY <1>7, <2>2
  <2>4. EntriesUnder(E, {n}) = EntriesUnder(ChecksOf(LoadConfig, {}).entries, {n})
    BY <1>7 DEF EntriesUnder
  <2>5. EntriesUnder(E, {n}) = CheckRule(r, {}).entries
    BY <1>1, <2>1, <2>4, FoundOfRule
  <2>6. IsOfThen(Snapshot(r)) => IsThen
    BY DEF IsOfThen, IsThen, Snapshot
  <2>7. IsRule(r)
    BY <1>1 DEF AreNamedApart, Active
  <2>8. IsThen => Then!CheckRule(Snapshot(r).rule, {}).entries = CheckRule(r, {}).entries
    BY <2>7, FoundThen
  <2> QED
    BY <1>3, <2>3, <2>5, <2>6, <2>8 DEF IsKept
<1> QED
  BY <1>6, <1>7

LEMMA KeptAsBefore ==
  ASSUME FrozenInv, UNCHANGED <<frozenAt, options, baselineFile>>
  PROVE  FrozenInv'
BY DEF FrozenInv, IsKept, IsOfThen, Frozen

LEMMA GenerateKeeps ==
  ASSUME NamesDiffer, CheckInv, FrozenInv, GenerateBaseline
  PROVE  FrozenInv'
<1> DEFINE entries == Regenerated(LoadConfig, CheckAll(LoadConfig, {}))
<1>1. \/ \E error : Refused(error)
      \/ /\ LoadConfig.error = {} /\ CheckAll(LoadConfig, {}).error = {}
         /\ WriteBaseline(LoadConfig, entries)
  BY DEF GenerateBaseline
<1>2. options' = options
  BY DEF GenerateBaseline, Command
<1>3. ASSUME NEW error, Refused(error) PROVE FrozenInv'
  BY <1>2, <1>3, KeptAsBefore DEF Refused
<1>4. ASSUME LoadConfig.error = {}, CheckAll(LoadConfig, {}).error = {},
             baselineFile' = Written(entries), frozenAt' = FrozenNow(LoadConfig)
      PROVE  FrozenInv'
  <2>1. PICK E : E = ChecksOf(LoadConfig, {}).entries \cup EntriesUnder(Frozen, IgnoredRules(LoadConfig))
    OBVIOUS
  <2>2. PICK now : now = FrozenNow(LoadConfig)
    OBVIOUS
  <2>3. \A n \in DOMAIN now : IsKept(now[n], EntriesUnder(E, {n}))
    BY <1>4, <2>1, <2>2, FrozenNowIs
  <2>4. Frozen' = E
    BY <1>4, <2>1, FrozenIsWritten
  <2>5. \A n \in DOMAIN now : IsKept(now[n], EntriesUnder(E, {n}))'
    BY <1>2, <2>3 DEF IsKept, IsOfThen, EntriesUnder
  <2>6. now = frozenAt'
    BY <1>4, <2>2
  <2> QED
    BY <2>4, <2>5, <2>6 DEF FrozenInv
<1>5. ASSUME frozenAt' = [name \in {} |-> NoOutcome] PROVE FrozenInv'
  BY <1>5 DEF FrozenInv
<1> QED
  BY <1>1, <1>3, <1>4, <1>5 DEF WriteBaseline

-----------------------------------------------------------------------------
(***************************************************************************)
(* Where all that a rule finds is frozen, it reports nothing.               *)
(***************************************************************************)
NothingReported(violations, name) == \A v \in violations : v.state # "Reported" /\ v.rule = name

\* The dependencies that a rule judges one by one.
LEMMA JudgesDependencies ==
  ASSUME NEW rule, rule.kind \in {"ForbiddenDependency", "Layers"}
  PROVE  \E D : \A b : CheckRule(rule, b) = CheckDependencies(rule, b, D)
<1>1. CASE rule.kind = "ForbiddenDependency"
  <2> DEFINE D == WrittenDependencies(ResolvePattern(rule.from) \X ResolvePattern(rule.to))
  <2>1. \A b : CheckRule(rule, b) = CheckDependencies(rule, b, D)
    BY <1>1 DEF CheckRule, CheckForbidden
  <2> QED
    BY <2>1
<1>2. CASE rule.kind = "Layers"
  <2> DEFINE index == LayerIndex(rule.layers)
             rejected == {p \in (DOMAIN index) \X (DOMAIN index) : Rejects(rule, index, p[1], p[2])}
             D == WrittenDependencies(rejected) \cup DependenciesOverUnpositioned(DOMAIN index, rejected)
  <2>1. \A b : CheckRule(rule, b) = CheckDependencies(rule, b, D)
    BY <1>2 DEF CheckRule, CheckLayers
  <2> QED
    BY <2>1
<1> QED
  BY <1>1, <1>2

LEMMA CoversItself == \A s : IsSymbols(s) => CoversSymbols(s, s)
BY DEF IsSymbols, CoversSymbols

\* Where what is found is frozen, nothing is reported.
LEMMA FrozenDependencies ==
  ASSUME NEW rule, NEW D, NEW base, \A b : CheckRule(rule, b) = CheckDependencies(rule, b, D),
         CheckRule(rule, {}).entries \subseteq base
  PROVE  NothingReported(CheckRule(rule, base).violations, rule.name)
<1>0. CheckRule(rule, {}).entries = UNION {Found(rule, e) : e \in D}
  <2>1. CheckRule(rule, {}).entries = UNION {r.entries : r \in {Judge(rule, {}, e) : e \in D}}
    BY DEF CheckDependencies, AllOf, Result
  <2>2. \A e : Judge(rule, {}, e).entries = Found(rule, e)
    BY JudgedOne
  <2> QED
    BY <2>1, <2>2
<1>1. ASSUME NEW d \in D, NEW v \in Judge(rule, base, d).violations
      PROVE  v.state # "Reported" /\ v.rule = rule.name
  <2> DEFINE allowing == CoveredBy(rule.allow, d.source, d.target)
             tolerated == FrozenFor(base, EntryOf(rule, d))
             covered == \E t \in tolerated : CoversSymbols(t, EntryOf(rule, d).symbols)
             found(state, by, frozenFor) ==
               {Violation(rule, state, by, EdgeDetail(d.source, d.target, frozenFor, d.via, d.locations))}
  <2>1. Judge(rule, base, d).violations =
          IF allowing # {} THEN found("Allowed", rule.allow[Min(allowing)].pattern, {})
          ELSE IF covered THEN found("Frozen", NoName, {}) ELSE found("Reported", NoName, tolerated)
    BY DEF Judge, Result, EntryOf
  <2>2. allowing = {} => covered
    <3> SUFFICES ASSUME allowing = {} PROVE covered
      OBVIOUS
    <3>1. Found(rule, d) \subseteq base
      BY <1>0
    <3>2. EntryOf(rule, d) \in base
      BY <3>1 DEF Found
    <3>3. EntryOf(rule, d).symbols \in tolerated
      BY <3>2 DEF FrozenFor, SameKey
    <3>4. IsSymbols(EntryOf(rule, d).symbols)
      <4>1. IsEntry(EntryOf(rule, d))
        BY SymbolsAreSymbols, EntryIsEntry DEF EntryOf
      <4> QED
        BY <4>1 DEF IsEntry
    <3> QED
      BY <3>3, <3>4, CoversItself
  <2> HIDE DEF allowing, tolerated, covered
  <2>3. \A state, by, frozenFor : \A w \in found(state, by, frozenFor) : w.state = state /\ w.rule = rule.name
    BY DEF Violation
  <2> HIDE DEF found
  <2> QED
    BY <1>1, <2>1, <2>2, <2>3
<1>2. CheckRule(rule, base).violations = UNION {r.violations : r \in {Judge(rule, base, d) : d \in D}}
  BY DEF CheckDependencies, AllOf, Result
<1> QED
  BY <1>1, <1>2 DEF NothingReported

LEMMA LeftIsEdgeSet ==
  ASSUME IsGraph, NEW rule
  PROVE  IsEdgeSet(Scope(rule) \ AllowedEdges(rule))
<1> DEFINE R == Scope(rule) \ AllowedEdges(rule)
<1>1. R \subseteq ProductionSubgraph(options.reexports)
  BY DEF Scope, Within
<1>2. \A p \in ProductionSubgraph(options.reexports) :
        p = <<p[1], p[2]>> /\ {p[1], p[2]} \subseteq DOMAIN nodes
  BY DEF ProductionSubgraph, IsGraph
<1> HIDE DEF R
<1>3. \A p \in R : p \in Nat \X Nat /\ p[2] \in DOMAIN nodes
  <2> SUFFICES ASSUME NEW p \in R PROVE p \in Nat \X Nat /\ p[2] \in DOMAIN nodes
    OBVIOUS
  <2>1. p = <<p[1], p[2]>> /\ {p[1], p[2]} \subseteq DOMAIN nodes
    BY <1>1, <1>2
  <2>2. p[1] \in Nat /\ p[2] \in Nat
    BY <2>1 DEF IsGraph
  <2> QED
    BY <2>1, <2>2
<1>4. IsFiniteSet(Targets(R))
  <2>1. Targets(R) \subseteq DOMAIN nodes
    BY <1>3 DEF Targets
  <2> QED
    BY <2>1, FS_Subset DEF IsGraph
<1> QED
  BY <1>3, <1>4 DEF IsEdgeSet, R

\* Representative cycles run over edges that are on cycles.
LEMMA CoveredIsTolerated ==
  ASSUME NEW R, IsEdgeSet(R), NEW c \in Clusters(R, RepresentativeCycles(R), OnCycles(R))
  PROVE  c.tolerated
<1> DEFINE cycles == RepresentativeCycles(R)
           left(scc) == {x \in {y \in cycles : y[1] \in scc} : ~(CycleEdges(x) \subseteq OnCycles(R))}
<1>1. \A x \in cycles : CycleEdges(x) \subseteq OnCycles(R)
  BY RepresentativesCoverComponents DEF OnCycles
<1> HIDE DEF cycles
<1>2. \A scc : left(scc) = {}
  BY <1>1
<1>3. PICK scc \in Sccs(R) : c = ClusterOf(R, cycles, scc, OnCycles(R))
  BY DEF Clusters, cycles
<1>4. c.tolerated = (left(scc) = {})
  BY <1>3 DEF ClusterOf
<1> QED
  BY <1>2, <1>4

LEMMA FrozenCycles ==
  ASSUME IsGraph, NEW rule, rule.kind = "NoCycles", NEW base, CheckRule(rule, {}).entries \subseteq base
  PROVE  NothingReported(CheckRule(rule, base).violations, rule.name)
<1> DEFINE R == Scope(rule) \ AllowedEdges(rule)
           on == OnCycles(R)
           covered == CoveredEdges(rule, base, R)
           frozen == [p \in on |-> FrozenFor(base, EdgeEntry(rule, p))]
           left == CyclesIn(rule, R, covered, frozen)
           exempt == Result({AllowedOnCycle(rule, p) : p \in AllowedEdges(rule) \cap OnCycles(Scope(rule))}, {}, {})
           clusters == Clusters(R, RepresentativeCycles(R), covered)
           report == ClusterReport(R, RepresentativeCycles(R), covered)
           grown == {p \in DOMAIN frozen : frozen[p] # {}} \ covered
<1>1. CheckRule(rule, base) = AllOf({exempt, left})
  BY DEF CheckRule, CheckCycles
<1>2. CheckRule(rule, {}).entries = {EdgeEntry(rule, p) : p \in on}
  <2>1. CheckRule(rule, {}) = CheckCycles(rule, {})
    BY DEF CheckRule
  <2> QED
    BY <2>1, CyclesFindEdges DEF JudgedEdges
<1>3. covered = on
  <2>1. ASSUME NEW p \in on
        PROVE  \E t \in FrozenFor(base, EdgeEntry(rule, p)) : CoversSymbols(t, EdgeEntry(rule, p).symbols)
    <3>1. EdgeEntry(rule, p) \in base
      BY <1>2
    <3>2. EdgeEntry(rule, p).symbols \in FrozenFor(base, EdgeEntry(rule, p))
      BY <3>1 DEF FrozenFor, SameKey
    <3>3. IsSymbols(EdgeEntry(rule, p).symbols)
      BY SymbolsAreSymbols, EntryIsEntry DEF EdgeEntry, IsEntry
    <3> QED
      BY <3>2, <3>3, CoversItself
  <2> QED
    BY <2>1 DEF CoveredEdges
<1>4. \A c \in clusters : c.tolerated
  BY <1>3, LeftIsEdgeSet, CoveredIsTolerated
<1>5. grown = {}
  BY <1>3
<1>6. left.violations = ClusterViolations(rule, clusters, report)
                          \cup {EdgeViolation(rule, p, "Reported", NoName, frozen[p]) : p \in grown}
  BY DEF CyclesIn, Result
<1>7. exempt.violations = {AllowedOnCycle(rule, p) : p \in AllowedEdges(rule) \cap OnCycles(Scope(rule))}
  BY DEF Result
<1>8. ASSUME NEW v \in ClusterViolations(rule, clusters, report)
      PROVE  v.state # "Reported" /\ v.rule = rule.name
  <2> HIDE DEF clusters, report
  <2>1. PICK c \in clusters :
          v = Violation(rule, IF c.tolerated THEN "Frozen" ELSE "Reported", NoName, ClusterDetail(report, c))
    BY <1>8 DEF ClusterViolations
  <2> QED
    BY <1>4, <2>1 DEF Violation
<1>9. \A p : AllowedOnCycle(rule, p).state # "Reported" /\ AllowedOnCycle(rule, p).rule = rule.name
  BY DEF AllowedOnCycle, EdgeViolation, Violation
<1> HIDE DEF clusters, report, grown, frozen, covered, left, exempt
<1>10. CheckRule(rule, base).violations = exempt.violations \cup left.violations
  <2>1. AllOf({exempt, left}).violations = exempt.violations \cup left.violations
    <3>1. UNION {x.violations : x \in {exempt, left}} = exempt.violations \cup left.violations
      OBVIOUS
    <3> QED
      BY <3>1 DEF AllOf, Result
  <2> QED
    BY <1>1, <2>1
<1>11. \A v \in left.violations : v.state # "Reported" /\ v.rule = rule.name
  BY <1>5, <1>6, <1>8
<1>12. \A v \in exempt.violations : v.state # "Reported" /\ v.rule = rule.name
  BY <1>7, <1>9
<1> QED
  BY <1>10, <1>11, <1>12 DEF NothingReported

LEMMA FrozenRule ==
  ASSUME IsGraph, NEW rule, rule.kind \in RuleKinds, NEW base, CheckRule(rule, {}).entries \subseteq base
  PROVE  NothingReported(CheckRule(rule, base).violations, rule.name)
<1>1. CASE rule.kind = "NoCycles"
  BY <1>1, FrozenCycles
<1>2. CASE rule.kind # "NoCycles"
  BY <1>2, JudgesDependencies, FrozenDependencies DEF RuleKinds
<1> QED
  BY <1>1, <1>2

-----------------------------------------------------------------------------
(***************************************************************************)
(* Its status is ok then, and none of its entries is stale.                 *)
(***************************************************************************)
LEMMA ViolationsAreOfRule ==
  ASSUME NEW rule, rule.kind \in RuleKinds, NEW b
  PROVE  \A v \in CheckRule(rule, b).violations : v.rule = rule.name
<1>1. \A state, by, detail : Violation(rule, state, by, detail).rule = rule.name
  BY DEF Violation
<1>2. CASE rule.kind = "NoCycles"
  <2> DEFINE R == Scope(rule) \ AllowedEdges(rule)
             frozen == [p \in OnCycles(R) |-> FrozenFor(b, EdgeEntry(rule, p))]
             left == CyclesIn(rule, R, CoveredEdges(rule, b, R), frozen)
             exempt == Result({AllowedOnCycle(rule, p) : p \in AllowedEdges(rule) \cap OnCycles(Scope(rule))}, {}, {})
  <2>1. CheckRule(rule, b) = AllOf({exempt, left})
    BY <1>2 DEF CheckRule, CheckCycles
  <2>2. \A clusters, report : \A v \in ClusterViolations(rule, clusters, report) : v.rule = rule.name
    BY <1>1 DEF ClusterViolations
  <2>3. \A p, state, by, frozenFor : EdgeViolation(rule, p, state, by, frozenFor).rule = rule.name
    BY <1>1 DEF EdgeViolation
  <2>4. \A v \in left.violations : v.rule = rule.name
    <3> HIDE DEF R, frozen
    <3> QED
      BY <2>2, <2>3 DEF CyclesIn, Result
  <2>5. \A v \in exempt.violations : v.rule = rule.name
    BY <2>3 DEF AllowedOnCycle, Result
  <2> HIDE DEF left, exempt
  <2>6. AllOf({exempt, left}).violations = exempt.violations \cup left.violations
    <3>1. UNION {x.violations : x \in {exempt, left}} = exempt.violations \cup left.violations
      OBVIOUS
    <3> QED
      BY <3>1 DEF AllOf, Result
  <2> QED
    BY <2>1, <2>4, <2>5, <2>6
<1>3. CASE rule.kind # "NoCycles"
  <2>1. PICK D : CheckRule(rule, b) = CheckDependencies(rule, b, D)
    BY <1>3, JudgesDependencies DEF RuleKinds
  <2>2. \A d : \A v \in Judge(rule, b, d).violations : v.rule = rule.name
    BY <1>1 DEF Judge, Result
  <2>3. CheckRule(rule, b).violations = UNION {r.violations : r \in {Judge(rule, b, d) : d \in D}}
    BY <2>1 DEF CheckDependencies, AllOf, Result
  <2> QED
    BY <2>2, <2>3
<1> QED
  BY <1>2, <1>3

IsGreen(o, name) ==
  /\ \A v \in ReportedOf(o.violations) : v.rule # name
  /\ o.status.rules[name] = "ok"
  /\ \A u \in o.diagnostics.baseline : u.entry.rule # name

LEMMA FrozenIsQuiet ==
  ASSUME IsGraph, NEW config, AreNamedApart(config.rules), NEW r \in Active(config),
         NEW base, CheckRule(r, {}).entries \subseteq base
  PROVE  \A v \in ReportedOf(ChecksOf(config, base).violations) : v.rule # r.name
<1>1. ChecksOf(config, base).violations = UNION {CheckRule(q, base).violations : q \in Active(config)}
  <2>1. ChecksOf(config, base).violations = UNION {c.violations : c \in {CheckRule(q, base) : q \in Active(config)}}
    BY DEF ChecksOf, AllOf, Result
  <2> QED
    BY <2>1
<1>2. \A q \in Active(config) : q.kind \in RuleKinds /\ (q.name = r.name => q = r)
  BY DEF AreNamedApart, IsRule, Active
<1>3. NothingReported(CheckRule(r, base).violations, r.name)
  BY <1>2, FrozenRule
<1>4. \A q \in Active(config) : \A v \in CheckRule(q, base).violations : v.rule = q.name
  BY <1>2, ViolationsAreOfRule
<1> QED
  BY <1>1, <1>2, <1>3, <1>4 DEF NothingReported, ReportedOf

LEMMA FrozenIsMatched ==
  ASSUME IsGraph, NEW config, AreNamedApart(config.rules), NEW r \in Active(config),
         NEW base, HaveKeys(base), EntriesUnder(base, {r.name}) = CheckRule(r, {}).entries
  PROVE  \A u \in Unmatched(base, ChecksOf(config, base).hits) : u.entry.rule # r.name
<1>1. PICK A : /\ HaveKeys(A) /\ ChecksOf(config, {}).entries = A
               /\ \A b : ChecksOf(config, b).hits = {x \in A : FrozenFor(b, x) # {}}
  BY ChecksFind
<1>2. ChecksOf(config, base).hits = HitsOf(A, base)
  BY <1>1 DEF HitsOf
<1>3. ASSUME NEW u \in Unmatched(base, HitsOf(A, base)), u.entry.rule = r.name PROVE FALSE
  <2>1. PICK x : x = u.entry
    OBVIOUS
  <2>2. x \in base
    BY <1>3, <2>1 DEF Unmatched
  <2>3. x \in A
    BY <1>1, <1>3, <2>1, <2>2, FoundOfRule DEF EntriesUnder
  <2>4. SameKey(x, x) /\ CoversSymbols(x.symbols, x.symbols)
    BY <2>2, CoversItself DEF HaveKeys, IsEntry, SameKey
  <2>5. \A y \in base : IsEntry(y)
    BY DEF HaveKeys
  <2>6. ~\E h \in A : SameKey(x, h) /\ CoversSymbols(h.symbols, x.symbols)
    BY <1>1, <1>3, <2>1, <2>2, <2>5, UnmatchedIsUncovered
  <2> QED
    BY <2>3, <2>4, <2>6
<1> QED
  BY <1>2, <1>3

LEMMA OkIsGreen ==
  ASSUME NEW config, NEW run, NEW r \in Active(config),
         \A v \in ReportedOf(run.result.violations) : v.rule # r.name
  PROVE  Status(config, run).rules[r.name] = "ok"
<1> DEFINE reported(name, severity) ==
             {v \in ReportedOf(run.result.violations) : v.rule = name /\ v.severity = severity}
<1>1. \A severity : reported(r.name, severity) = {}
  OBVIOUS
<1>2. Status(config, run).rules = [name \in {q.name : q \in Active(config)} |->
                                     StatusWord(reported(name, "Error"), reported(name, "Warn"))]
  BY DEF Status
<1>3. Status(config, run).rules[r.name] = StatusWord(reported(r.name, "Error"), reported(r.name, "Warn"))
  BY <1>2
<1> HIDE DEF reported
<1> QED
  BY <1>1, <1>3 DEF StatusWord

LEMMA CheckIsGreen ==
  ASSUME IsGraph, NEW config, AreNamedApart(config.rules), NEW r \in Active(config),
         NEW baseline, HaveKeys(baseline.entries),
         EntriesUnder(baseline.entries, {r.name}) = CheckRule(r, {}).entries,
         CheckOutcome(config, baseline).error = {}
  PROVE  IsGreen(CheckOutcome(config, baseline), r.name)
<1> DEFINE base == baseline.entries
           run == CheckAll(config, base)
<1>1. config.error = {} /\ baseline.error = {}
  BY DEF CheckOutcome, Failed
<1>2. CheckOutcome(config, baseline) = IF run.error # {} THEN Failed("check", run.error) ELSE Outcome(config, run)
  BY <1>1 DEF CheckOutcome
<1> HIDE DEF run
<1>3. run.error = {} /\ CheckOutcome(config, baseline) = Outcome(config, run)
  BY <1>2 DEF Failed
<1>4. \A q \in Active(config) : q.kind = "Layers" => Overlaps(q.layers) = {}
  BY <1>3 DEF run, CheckAll
<1>5. /\ run.result = ChecksOf(config, base)
      /\ run.diagnostics = CollectDiagnostics(config, base, ChecksOf(config, base).hits)
  BY <1>4, CheckOfAll DEF run
<1>6. \A v \in ReportedOf(run.result.violations) : v.rule # r.name
  BY <1>5, FrozenIsQuiet DEF EntriesUnder
<1>7. Status(config, run).rules[r.name] = "ok"
  BY <1>6, OkIsGreen
<1>8. \A u \in run.diagnostics.baseline : u.entry.rule # r.name
  <2>1. \A u \in Unmatched(base, ChecksOf(config, base).hits) : u.entry.rule # r.name
    BY FrozenIsMatched
  <2>2. run.diagnostics.baseline \subseteq Unmatched(base, ChecksOf(config, base).hits)
    BY <1>5 DEF CollectDiagnostics
  <2> QED
    BY <2>1, <2>2
<1>9. /\ Outcome(config, run).violations = run.result.violations
      /\ Outcome(config, run).status = Status(config, run)
      /\ Outcome(config, run).diagnostics = run.diagnostics
  BY DEF Outcome
<1> QED
  BY <1>3, <1>6, <1>7, <1>8, <1>9 DEF IsGreen

-----------------------------------------------------------------------------
GreenInv == IsThen => FrozenStaysGreen

LEMMA GreenIs ==
  FrozenStaysGreen <=>
    (Checked => \A r \in Active(LoadConfig) :
       r.name \in DOMAIN frozenAt /\ frozenAt[r.name] = Snapshot(r) => IsGreen(outcome, r.name))
BY DEF FrozenStaysGreen, IsGreen

LEMMA GreenWillBe ==
  (FrozenStaysGreen <=>
    (Checked => \A r \in Active(LoadConfig) :
       r.name \in DOMAIN frozenAt /\ frozenAt[r.name] = Snapshot(r) => IsGreen(outcome, r.name)))'
BY GreenIs, PTL

LEMMA GreenCheck ==
  ASSUME NamesDiffer, CheckInv, FrozenInv, Check
  PROVE  GreenInv'
<1> SUFFICES ASSUME IsThen, Checked' PROVE FrozenStaysGreen'
  <2>1. IsThen' <=> IsThen
    BY DEF Check, Command, IsThen
  <2>2. ~Checked' => FrozenStaysGreen'
    BY DEF FrozenStaysGreen
  <2> QED
    BY <2>1, <2>2 DEF GreenInv
<1>1. PICK o : o = outcome'
  OBVIOUS
<1>2. PICK config, baseline : config = LoadConfig /\ baseline = LoadBaseline(baselineFile)
  OBVIOUS
<1>3. o = CheckOutcome(config, baseline) /\ o.error = {}
  BY <1>1, <1>2 DEF Check, Checked
<1>4. config.error = {}
  BY <1>3 DEF CheckOutcome, Failed
<1>5. IsGraph /\ AreNamedApart(config.rules)
  BY <1>2, <1>4, ProjectIsGraph, ConfigIsNamedApart
<1>6. HaveKeys(baseline.entries) /\ baseline.entries = Frozen
  BY <1>2, FrozenHaveKeys DEF CheckInv, Frozen
<1>7. ASSUME NEW r \in Active(config), r.name \in DOMAIN frozenAt, frozenAt[r.name] = Snapshot(r)
      PROVE  IsGreen(o, r.name)
  <2>1. IsRule(r)
    BY <1>5 DEF AreNamedApart, Active
  <2>2. IsOfThen(Snapshot(r))
    BY DEF IsOfThen, IsThen, Snapshot
  <2>3. IsKept(Snapshot(r), EntriesUnder(Frozen, {r.name}))
    BY <1>7 DEF FrozenInv
  <2>4. EntriesUnder(Frozen, {r.name}) = CheckRule(r, {}).entries
    BY <2>1, <2>2, <2>3, FoundThen DEF IsKept
  <2> QED
    BY <1>3, <1>5, <1>6, <2>4, CheckIsGreen
<1>8. config = LoadConfig' /\ frozenAt' = frozenAt /\ \A r : Snapshot(r)' = Snapshot(r)
  BY <1>2 DEF Check, Command, LoadConfig, Snapshot
<1>9. \A r \in Active(config)' :
        r.name \in DOMAIN frozenAt' /\ frozenAt'[r.name] = Snapshot(r)' => IsGreen(outcome', r.name)
  BY <1>1, <1>7, <1>8 DEF Active
<1> QED
  BY <1>8, <1>9, GreenWillBe

-----------------------------------------------------------------------------
(***************************************************************************)
(* This stays so, whatever commands run and whatever is edited.             *)
(***************************************************************************)
FrozenInvs == CheckInv /\ FrozenInv /\ GreenInv

LEMMA FrozenAtFirst == CommandInit => FrozenInv /\ GreenInv
<1> SUFFICES ASSUME CommandInit PROVE FrozenInv /\ GreenInv
  OBVIOUS
<1>1. ~Checked /\ DOMAIN frozenAt = {}
  BY DEF CommandInit, CheckInit, Checked, NoOutcome
<1> QED
  BY <1>1 DEF FrozenInv, GreenInv, FrozenStaysGreen

LEMMA NotChecked ==
  ASSUME ~Checked' PROVE GreenInv'
BY DEF GreenInv, FrozenStaysGreen

LEMMA GreenIdle ==
  ASSUME GreenInv, UNCHANGED checkVars PROVE GreenInv'
<1>1. IsThen' <=> IsThen
  BY DEF checkVars, IsThen
<1>2. PICK o, config, frozen : o = outcome /\ config = LoadConfig /\ frozen = frozenAt
  OBVIOUS
<1>3. o = outcome' /\ config = LoadConfig' /\ frozen = frozenAt' /\ \A r : Snapshot(r)' = Snapshot(r)
  BY <1>2 DEF checkVars, LoadConfig, Snapshot
<1>4. Checked' <=> Checked
  BY DEF checkVars, Checked
<1>5. FrozenStaysGreen =>
        (Checked => \A r \in Active(config) :
           r.name \in DOMAIN frozen /\ frozen[r.name] = Snapshot(r) => IsGreen(o, r.name))
  BY <1>2, GreenIs
<1>6. Active(config)' = Active(config)
  BY DEF Active
<1>7. FrozenStaysGreen => FrozenStaysGreen'
  BY <1>3, <1>4, <1>5, <1>6, GreenWillBe
<1> QED
  BY <1>1, <1>7 DEF GreenInv

LEMMA FrozenStep ==
  ASSUME NamesDiffer, CheckInv, FrozenInv, GreenInv, CommandNext
  PROVE  FrozenInv' /\ GreenInv'
<1>1. CASE Check
  <2>1. FrozenInv'
    BY <1>1, KeptAsBefore DEF Check, Command
  <2> QED
    BY <1>1, <2>1, GreenCheck
<1>2. CASE GenerateBaseline
  BY <1>2, GenerateKeeps, WrittenIsBaseline, NotChecked
<1>3. CASE EditCode \/ EditRules
  <2>1. ~Checked' /\ UNCHANGED <<frozenAt, options, baselineFile>>
    BY <1>3 DEF EditCode, EditRules, Change, NoOutcome, Checked
  <2> QED
    BY <2>1, KeptAsBefore, NotChecked
<1>4. CASE UNCHANGED checkVars
  <2>1. UNCHANGED <<frozenAt, options, baselineFile>>
    BY <1>4 DEF checkVars
  <2> QED
    BY <1>4, <2>1, KeptAsBefore, GreenIdle
<1>5. CASE ~Checked' /\ UNCHANGED <<nodes, edges, options, project, rulesFile, baselineFile, frozenAt>>
  BY <1>5, KeptAsBefore, NotChecked
<1> QED
  BY <1>1, <1>2, <1>3, <1>4, <1>5, CommandKinds

(***************************************************************************)
(* Code that a baseline was generated for checks green, whatever happened   *)
(* between: other baselines while its rule was ignored, changes of code and *)
(* rules and back. SomeNodes, SomeEdges and SomeOptions are any constants,  *)
(* so that it holds of every graph that a project has, as long as no two of *)
(* its nodes bear one name.                                                 *)
(***************************************************************************)
THEOREM FrozenStaysGreenHolds ==
  ASSUME NamesDiffer
  PROVE  CommandSpec => [](IsThen => FrozenStaysGreen)
<1>1. CommandInit => FrozenInvs
  BY CheckInvAtFirst, FrozenAtFirst DEF FrozenInvs
<1>2. FrozenInvs /\ [CommandNext]_commandVars => FrozenInvs'
  <2>1. CASE UNCHANGED commandVars
    <3>1. UNCHANGED checkVars /\ UNCHANGED <<frozenAt, options, baselineFile>>
      BY <2>1 DEF commandVars, checkVars
    <3> QED
      BY <3>1, IdleStep, KeptAsBefore, GreenIdle DEF FrozenInvs
  <2>2. CASE CommandNext
    BY <2>2, CommandStep, FrozenStep DEF FrozenInvs
  <2> QED
    BY <2>1, <2>2
<1>3. FrozenInvs => (IsThen => FrozenStaysGreen)
  BY DEF FrozenInvs, GreenInv
<1> QED
  BY <1>1, <1>2, <1>3, PTL DEF CommandSpec

-----------------------------------------------------------------------------
(***************************************************************************)
(* The nodes of the components are the ends of the edges on cycles.         *)
(***************************************************************************)
LEMMA ComponentsHaveEdges ==
  ASSUME NEW R, IsFiniteSet(Targets(R)), NEW scc \in Sccs(R)
  PROVE  scc # {} /\ \A u \in scc : \E p \in Within(R, scc) : p[1] = u
<1> DEFINE on == {u \in UNION {{p[1], p[2]} : p \in R} : \E p \in R : p[1] = u /\ u \in ReachedFrom({p[2]}, R)}
<1>1. PICK n \in on : scc = {v \in on : Tangled(R, n, v)}
  BY DEF Sccs
<1>2. n \in scc
  BY <1>1, LeadsOnward DEF Tangled, Leads
<1>3. ASSUME NEW u \in scc PROVE \E p \in Within(R, scc) : p[1] = u
  <2>1. PICK p \in R : p[1] = u /\ u \in ReachedFrom({p[2]}, R)
    BY <1>1
  <2>2. Leads(R, u, p[2]) /\ Leads(R, p[2], u)
    BY <2>1, LeadsOnward DEF Leads
  <2>3. p[2] \in scc
    BY <2>2, BetweenIsInside
  <2> QED
    BY <2>1, <2>3 DEF Within
<1> QED
  BY <1>2, <1>3

LEMMA EndsOnCycles ==
  ASSUME NEW R, IsFiniteSet(Targets(R))
  PROVE  /\ UNION Sccs(R) = Ends(OnCycles(R))
         /\ Sccs(R) = {} <=> OnCycles(R) = {}
<1>1. ASSUME NEW u, u \in UNION Sccs(R) PROVE u \in Ends(OnCycles(R))
  <2>1. PICK scc \in Sccs(R) : u \in scc
    BY <1>1
  <2>2. PICK p \in Within(R, scc) : p[1] = u
    BY <2>1, ComponentsHaveEdges
  <2> QED
    BY <2>1, <2>2 DEF Ends, OnCycles
<1>2. \A p \in OnCycles(R) : {p[1], p[2]} \subseteq UNION Sccs(R)
  BY DEF OnCycles, Within
<1>3. Sccs(R) = {} <=> OnCycles(R) = {}
  <2>1. \A scc \in Sccs(R) : Within(R, scc) # {}
    BY ComponentsHaveEdges
  <2> QED
    BY <2>1 DEF OnCycles
<1> QED
  BY <1>1, <1>2, <1>3 DEF Ends

-----------------------------------------------------------------------------
(***************************************************************************)
(* A rule against all cycles looks at the edges that the diagram looks at.  *)
(***************************************************************************)
IsOfModules ==
  /\ \A e \in EdgeSet : e.weight = "ModuleDep" => {e.src, e.dst} \subseteq Members
  /\ ModuleNodes # {} => CrateNodes # {}

LEMMA ProjectIsOfModules ==
  ASSUME CheckInv
  PROVE  IsOfModules
<1>1. IsProject(project)
  BY CheckAssumption DEF CheckInv, CodeIsOfProject
<1>2. PICK code \in project.codes : nodes = code.nodes /\ edges = code.edges
  BY DEF CheckInv, CodeIsOfProject
<1>3. ASSUME NEW e \in EdgeSet, e.weight = "ModuleDep" PROVE {e.src, e.dst} \subseteq Members
  <2>1. e \in Range(code.edges)
    BY <1>2 DEF EdgeSet
  <2>2. {e.src, e.dst} \subseteq DOMAIN nodes /\ {nodes[e.src].kind, nodes[e.dst].kind} \subseteq {"crate", "module"}
    BY <1>1, <1>2, <1>3, <2>1 DEF IsProject
  <2> QED
    BY <2>2 DEF Members, CrateNodes, ModuleNodes, Kind
<1>4. ASSUME ModuleNodes # {} PROVE CrateNodes # {}
  <2>1. PICK n \in DOMAIN nodes : nodes[n].kind = "module"
    BY <1>4 DEF ModuleNodes, Kind
  <2>2. \E m \in DOMAIN nodes : nodes[m].kind = "crate"
    BY <1>1, <1>2, <2>1 DEF IsProject
  <2> QED
    BY <2>2 DEF CrateNodes, Kind
<1> QED
  BY <1>3, <1>4 DEF IsOfModules

IsAgainstAll(rule) == rule.kind = "NoCycles" /\ rule.scope.form = "all" /\ rule.allow = <<>>

LEMMA ScopeOfAll ==
  ASSUME IsOfModules, NEW rule, IsAgainstAll(rule)
  PROVE  Scope(rule) = ProductionSubgraph(options.reexports) /\ AllowedEdges(rule) = {}
<1>1. ResolvePattern(rule.scope) = Members
  BY DEF IsAgainstAll, ResolvePattern
<1>2. \A p \in ProductionSubgraph(options.reexports) : p[1] \in Members /\ p[2] \in Members
  BY DEF ProductionSubgraph, IsProductionModuleDep, IsOfModules
<1>3. \A a, b : CoveredBy(rule.allow, a, b) = {}
  BY DEF CoveredBy, IsAgainstAll
<1> QED
  BY <1>1, <1>2, <1>3 DEF Scope, Within, AllowedEdges

LEMMA MarkedAreOnCycles ==
  ASSUME IsGraph
  PROVE  /\ IsEdgeSet(ProductionSubgraph(options.reexports))
         /\ Marked = OnCycles(ProductionSubgraph(options.reexports))
<1> DEFINE R == ProductionSubgraph(options.reexports)
<1>1. \A p \in R : p = <<p[1], p[2]>> /\ {p[1], p[2]} \subseteq DOMAIN nodes
  BY DEF ProductionSubgraph, IsGraph
<1> HIDE DEF R
<1>2. \A p \in R : p \in Nat \X Nat /\ p[2] \in DOMAIN nodes
  <2> SUFFICES ASSUME NEW p \in R PROVE p \in Nat \X Nat /\ p[2] \in DOMAIN nodes
    OBVIOUS
  <2>1. p = <<p[1], p[2]>> /\ p[1] \in Nat /\ p[2] \in Nat /\ p[2] \in DOMAIN nodes
    BY <1>1 DEF IsGraph
  <2> QED
    BY <2>1
<1>3. Targets(R) \subseteq DOMAIN nodes
  BY <1>2 DEF Targets
<1>4. IsEdgeSet(R)
  BY <1>2, <1>3, FS_Subset DEF IsGraph, IsEdgeSet
<1>5. UNION {CycleEdges(c) : c \in RepresentativeCycles(R)} = OnCycles(R)
  BY <1>4, RepresentativesCoverComponents DEF OnCycles
<1> QED
  BY <1>4, <1>5 DEF Marked, R

-----------------------------------------------------------------------------
(***************************************************************************)
(* The tangles that a check finds for a rule are the components of what is  *)
(* left of its scope, named one by one.                                     *)
(***************************************************************************)
TanglesIn(violations, name) ==
  {v \in violations : v.rule = name /\ v.detail.is = "cluster"}
LeftFor(rule) == Scope(rule) \ AllowedEdges(rule)
CoveredFor(rule, base) == CoveredEdges(rule, base, LeftFor(rule))
ClustersFor(rule, base) ==
  Clusters(LeftFor(rule), RepresentativeCycles(LeftFor(rule)), CoveredFor(rule, base))
ReportFor(rule, base) ==
  ClusterReport(LeftFor(rule), RepresentativeCycles(LeftFor(rule)), CoveredFor(rule, base))

\* Besides the clusters there are edges that are allowed or have grown.
LEMMA CyclesAreReported ==
  ASSUME NEW rule, rule.kind = "NoCycles", NEW base
  PROVE  \E E : /\ CheckRule(rule, base).violations = ClusterViolations(rule, ClustersFor(rule, base), ReportFor(rule, base)) \cup E
                /\ \A v \in E : v.detail.is = "edge"
                /\ LeftFor(rule) = Scope(rule) /\ OnCycles(Scope(rule)) = {} => E = {}
<1> DEFINE R == LeftFor(rule)
           on == OnCycles(R)
           covered == CoveredFor(rule, base)
           frozen == [p \in on |-> FrozenFor(base, EdgeEntry(rule, p))]
           left == CyclesIn(rule, R, covered, frozen)
           allowed == {AllowedOnCycle(rule, p) : p \in AllowedEdges(rule) \cap OnCycles(Scope(rule))}
           exempt == Result(allowed, {}, {})
           pairs == {p \in on : frozen[p] # {}} \ covered
           grown == {EdgeViolation(rule, p, "Reported", NoName, frozen[p]) : p \in pairs}
           tangles == ClusterViolations(rule, ClustersFor(rule, base), ReportFor(rule, base))
<1>1. CheckRule(rule, base) = AllOf({exempt, left})
  BY DEF CheckRule, CheckCycles, LeftFor, CoveredFor
<1>2. left.violations = tangles \cup grown
  BY DEF CyclesIn, Result, ClustersFor, ReportFor
<1>3. exempt.violations = allowed
  BY DEF Result
<1>4. \A p, state, by, frozenFor : EdgeViolation(rule, p, state, by, frozenFor).detail.is = "edge"
  BY DEF EdgeViolation, Violation, EdgeDetail
<1>5. \A v \in allowed \cup grown : v.detail.is = "edge"
  BY <1>4 DEF AllowedOnCycle
<1>6. R = Scope(rule) /\ OnCycles(Scope(rule)) = {} => allowed \cup grown = {}
  OBVIOUS
<1> HIDE DEF left, exempt, allowed, grown, tangles
<1>7. AllOf({exempt, left}).violations = exempt.violations \cup left.violations
  <2>1. UNION {x.violations : x \in {exempt, left}} = exempt.violations \cup left.violations
    OBVIOUS
  <2> QED
    BY <2>1 DEF AllOf, Result
<1>8. CheckRule(rule, base).violations = tangles \cup (allowed \cup grown)
  BY <1>1, <1>2, <1>3, <1>7
<1> QED
  BY <1>5, <1>6, <1>8 DEF tangles

LEMMA ClustersAreComponents ==
  ASSUME NEW rule, NEW clusters, NEW report
  PROVE  /\ {v.detail.nodes : v \in ClusterViolations(rule, clusters, report)} = {c.nodes : c \in clusters}
         /\ \A v \in ClusterViolations(rule, clusters, report) : v.detail.is = "cluster" /\ v.rule = rule.name
<1> DEFINE found(c) == Violation(rule, IF c.tolerated THEN "Frozen" ELSE "Reported", NoName, ClusterDetail(report, c))
<1>1. ClusterViolations(rule, clusters, report) = {found(c) : c \in clusters}
  BY DEF ClusterViolations
<1>2. \A c : found(c).detail.nodes = c.nodes /\ found(c).detail.is = "cluster" /\ found(c).rule = rule.name
  BY DEF Violation, ClusterDetail
<1> HIDE DEF found
<1> QED
  BY <1>1, <1>2

LEMMA TanglesAreComponents ==
  ASSUME NEW rule, rule.kind = "NoCycles", NEW base
  PROVE  {v.detail.nodes : v \in TanglesIn(CheckRule(rule, base).violations, rule.name)} = Sccs(LeftFor(rule))
<1> DEFINE found == ClusterViolations(rule, ClustersFor(rule, base), ReportFor(rule, base))
<1>1. PICK E : CheckRule(rule, base).violations = found \cup E /\ \A v \in E : v.detail.is = "edge"
  BY CyclesAreReported
<1>2. \A v \in found : v.detail.is = "cluster" /\ v.rule = rule.name
  BY ClustersAreComponents
<1>3. {v.detail.nodes : v \in found} = {c.nodes : c \in ClustersFor(rule, base)}
  BY ClustersAreComponents
<1>4. {c.nodes : c \in ClustersFor(rule, base)} = Sccs(LeftFor(rule))
  <2>1. \A R, cycles, scc, tolerated : ClusterOf(R, cycles, scc, tolerated).nodes = scc
    BY DEF ClusterOf
  <2>2. PICK R, cycles, covered : /\ R = LeftFor(rule)
                                  /\ ClustersFor(rule, base) = {ClusterOf(R, cycles, scc, covered) : scc \in Sccs(R)}
    BY DEF ClustersFor, Clusters
  <2>3. {c.nodes : c \in {ClusterOf(R, cycles, scc, covered) : scc \in Sccs(R)}}
          = {ClusterOf(R, cycles, scc, covered).nodes : scc \in Sccs(R)}
    OBVIOUS
  <2> QED
    BY <2>1, <2>2, <2>3
<1> HIDE DEF found
<1>5. TanglesIn(CheckRule(rule, base).violations, rule.name) = found
  BY <1>1, <1>2 DEF TanglesIn
<1> QED
  BY <1>3, <1>4, <1>5

\* A rule's name tells its tangles from those of the others.
LEMMA TanglesOfRule ==
  ASSUME NEW config, AreNamedApart(config.rules), NEW r \in Active(config), NEW base
  PROVE  TanglesIn(ChecksOf(config, base).violations, r.name) = TanglesIn(CheckRule(r, base).violations, r.name)
<1>1. ChecksOf(config, base).violations = UNION {CheckRule(q, base).violations : q \in Active(config)}
  <2>1. ChecksOf(config, base).violations = UNION {c.violations : c \in {CheckRule(q, base) : q \in Active(config)}}
    BY DEF ChecksOf, AllOf, Result
  <2> QED
    BY <2>1
<1>2. \A q \in Active(config) : q.kind \in RuleKinds /\ (q.name = r.name => q = r)
  BY DEF AreNamedApart, IsRule, Active
<1>3. \A q \in Active(config) : \A v \in CheckRule(q, base).violations : v.rule = q.name
  BY <1>2, ViolationsAreOfRule
<1> QED
  BY <1>1, <1>2, <1>3 DEF TanglesIn

LEMMA TanglesAreMarked ==
  ASSUME IsGraph, IsOfModules, NEW config, AreNamedApart(config.rules),
         NEW r \in Active(config), IsAgainstAll(r), NEW base
  PROVE  UNION {v.detail.nodes : v \in TanglesIn(ChecksOf(config, base).violations, r.name)} = Ends(Marked)
<1> DEFINE R == ProductionSubgraph(options.reexports)
<1>1. LeftFor(r) = R
  BY ScopeOfAll DEF LeftFor
<1>2. IsEdgeSet(R) /\ Marked = OnCycles(R)
  BY MarkedAreOnCycles
<1>3. {v.detail.nodes : v \in TanglesIn(CheckRule(r, base).violations, r.name)} = Sccs(R)
  BY <1>1, TanglesAreComponents DEF IsAgainstAll
<1> HIDE DEF R
<1> QED
  BY <1>2, <1>3, TanglesOfRule, EndsOnCycles DEF IsEdgeSet

-----------------------------------------------------------------------------
(***************************************************************************)
(* Without a rules file and a baseline there is the rule against all cycles *)
(* alone, and what the diagram would mark is what it reports.               *)
(***************************************************************************)
LEMMA ImplicitIsAlone ==
  /\ Active(Implicit) = {ImplicitRule}
  /\ IsAgainstAll(ImplicitRule)
  /\ ImplicitRule.severity = "Error"
<1>1. Range(<<ImplicitRule>>) = {ImplicitRule}
  BY DEF Range
<1> QED
  BY <1>1 DEF Active, Implicit, ImplicitRule, IsAgainstAll

\* No cycle of a component is tolerated where nothing is covered.
LEMMA UncoveredIsReported ==
  ASSUME NEW R, IsEdgeSet(R), NEW c \in Clusters(R, RepresentativeCycles(R), {})
  PROVE  ~c.tolerated
<1>1. PICK scc \in Sccs(R) : c = ClusterOf(R, RepresentativeCycles(R), scc, {})
  BY DEF Clusters
<1>2. PICK p \in Within(R, scc) : TRUE
  BY ComponentsHaveEdges DEF IsEdgeSet
<1>3. PICK x : x = Representative(R, scc, p)
  OBVIOUS
<1>4. IsCycle(x) /\ CycleEdges(x) \subseteq Within(R, scc) /\ p \in CycleEdges(x)
  BY <1>3, RepresentativeIsCycle
<1>5. x \in RepresentativeCycles(R)
  BY <1>3, RepresentativesAre
<1>6. x[1] \in scc
  <2>1. 1 \in DOMAIN x
    BY <1>4 DEF IsCycle
  <2>2. x[1] \in {e[1] : e \in CycleEdges(x)}
    BY <1>4, <2>1, NodesOfEdges DEF Range
  <2> QED
    BY <1>4, <2>2 DEF Within
<1>7. x \in {y \in {z \in RepresentativeCycles(R) : z[1] \in scc} : ~(CycleEdges(y) \subseteq {})}
  BY <1>4, <1>5, <1>6
<1> QED
  BY <1>1, <1>7 DEF ClusterOf

LEMMA ImplicitReports ==
  ASSUME IsGraph, IsOfModules
  PROVE  HasErrors(ChecksOf(Implicit, {}).violations) <=> Marked # {}
<1> DEFINE R == ProductionSubgraph(options.reexports)
           r == ImplicitRule
           found == ClusterViolations(r, ClustersFor(r, {}), ReportFor(r, {}))
           violations == ChecksOf(Implicit, {}).violations
<1>1. LeftFor(r) = R /\ Scope(r) = R /\ r.kind = "NoCycles"
  BY ImplicitIsAlone, ScopeOfAll DEF LeftFor, IsAgainstAll
<1>2. IsEdgeSet(R) /\ Marked = OnCycles(R)
  BY MarkedAreOnCycles
<1>3. CoveredFor(r, {}) = {}
  BY DEF CoveredFor, CoveredEdges, FrozenFor
<1>4. violations = CheckRule(r, {}).violations
  <2>1. violations = UNION {c.violations : c \in {CheckRule(q, {}) : q \in {r}}}
    BY ImplicitIsAlone DEF ChecksOf, AllOf, Result
  <2> QED
    BY <2>1
<1> HIDE DEF R, r, violations
<1>5. PICK E : violations = found \cup E /\ (OnCycles(R) = {} => E = {})
  BY <1>1, <1>4, CyclesAreReported
<1>6. ClustersFor(r, {}) = Clusters(R, RepresentativeCycles(R), {})
  BY <1>1, <1>3 DEF ClustersFor
<1>7. CASE Sccs(R) = {}
  <2>1. OnCycles(R) = {} /\ Marked = {}
    BY <1>2, <1>7, EndsOnCycles DEF IsEdgeSet
  <2>2. found = {}
    BY <1>6, <1>7 DEF Clusters, ClusterViolations
  <2>3. violations = {}
    BY <1>5, <2>1, <2>2
  <2> QED
    BY <2>1, <2>3 DEF HasErrors, ReportedOf, violations
<1>8. CASE Sccs(R) # {}
  <2>1. Marked # {}
    BY <1>2, <1>8, EndsOnCycles DEF IsEdgeSet
  <2>2. PICK c \in Clusters(R, RepresentativeCycles(R), {}) : ~c.tolerated
    BY <1>2, <1>8, UncoveredIsReported DEF Clusters
  <2>3. PICK v : v = Violation(r, "Reported", NoName, ClusterDetail(ReportFor(r, {}), c))
    OBVIOUS
  <2>4. v \in found
    BY <1>6, <2>2, <2>3 DEF ClusterViolations
  <2>5. v.state = "Reported" /\ v.severity = "Error"
    BY <2>3, ImplicitIsAlone DEF Violation, r
  <2> QED
    BY <1>5, <2>1, <2>4, <2>5 DEF HasErrors, ReportedOf, violations
<1> QED
  BY <1>7, <1>8

\* The only gap that the configuration can have is that `**` matches nothing.
LEMMA ImplicitIsHeard ==
  ASSUME IsOfModules, NEW base, NEW hits
  PROVE  Heard(Implicit, CollectDiagnostics(Implicit, base, hits), "Deny") # {} <=> CrateNodes = {}
<1> DEFINE found == CollectDiagnostics(Implicit, base, hits)
           names == {"unlayered", "excepts", "baseline", "allow", "contradictory", "pattern", "catchAll"}
<1>1. /\ Implicit.diagnostics.unlayered = "Deny" /\ Implicit.diagnostics.baseline = "Warn"
      /\ Implicit.diagnostics.allow = "Warn" /\ Implicit.diagnostics.contradictory = "Deny"
      /\ Implicit.diagnostics.pattern = "Deny" /\ Implicit.diagnostics.except = {}
  BY DEF Implicit, DefaultDiagnostics
<1>2. UnlayeredNodes(Implicit) = {}
  <2>1. \A q \in Active(Implicit) : q.kind # "Layers"
    BY ImplicitIsAlone DEF IsAgainstAll
  <2> QED
    BY <2>1 DEF UnlayeredNodes
<1>3. DeadCatchAlls(Implicit) = {}
  BY ImplicitIsAlone DEF DeadCatchAlls, IsAgainstAll
<1>4. Dead(Implicit.diagnostics.except) = {}
  BY <1>1 DEF Dead
<1>5. ContradictoryAllows(Implicit) = {}
  <2> DEFINE order(rule) == UNION {RankedPairs(e) : e \in Range(rule.allow)}
             circle(rule, R) ==
               [rule |-> rule.name, cycle |-> ExampleCycle(R),
                entries |-> {i \in DOMAIN rule.allow : RankedPairs(rule.allow[i]) \cap R # {}}]
             circles(rule) == {circle(rule, Within(order(rule), scc)) : scc \in Sccs(order(rule))}
  <2>1. ContradictoryAllows(Implicit) = UNION {circles(q) : q \in Active(Implicit)}
    BY DEF ContradictoryAllows
  <2>2. order(ImplicitRule) = {}
    BY ImplicitIsAlone DEF IsAgainstAll, Range
  <2>3. Sccs({}) = {}
    BY DEF Sccs
  <2> HIDE DEF order, circle
  <2>4. circles(ImplicitRule) = {}
    BY <2>2, <2>3
  <2> HIDE DEF circles
  <2> QED
    BY <2>1, <2>4, ImplicitIsAlone
<1>6. UnmatchedPatterns(Implicit) = {} <=> CrateNodes # {}
  <2>1. PatternsOf(ImplicitRule) = {ImplicitRule.scope} /\ ResolvePattern(ImplicitRule.scope) = Members
    BY ImplicitIsAlone DEF IsAgainstAll, PatternsOf, ResolvePattern
  <2>2. Dead(PatternsOf(ImplicitRule)) = {} <=> Members # {}
    BY <2>1 DEF Dead
  <2>3. UnmatchedPatterns(Implicit) = UNION {{<<q.name, p>> : p \in Dead(PatternsOf(q))} : q \in {ImplicitRule}}
    BY ImplicitIsAlone DEF UnmatchedPatterns
  <2>4. UnmatchedPatterns(Implicit) = {<<ImplicitRule.name, p>> : p \in Dead(PatternsOf(ImplicitRule))}
    BY <2>3
  <2>5. Members # {} <=> CrateNodes # {}
    BY DEF Members, IsOfModules
  <2> QED
    BY <2>2, <2>4, <2>5
<1>7. /\ DOMAIN found = names
      /\ found.unlayered = {} /\ found.excepts = {} /\ found.contradictory = {} /\ found.catchAll = {}
      /\ found.pattern = UnmatchedPatterns(Implicit)
  BY <1>1, <1>2, <1>3, <1>4, <1>5 DEF CollectDiagnostics
<1>8. /\ LevelOf(Implicit)["pattern"] = "Deny"
      /\ LevelOf(Implicit)["baseline"] = "Warn" /\ LevelOf(Implicit)["allow"] = "Warn"
  BY <1>1 DEF LevelOf
<1> HIDE DEF found
<1>9. \A name \in names : LevelOf(Implicit)[name] = "Deny" /\ found[name] # {} <=> name = "pattern" /\ found.pattern # {}
  BY <1>7, <1>8
<1>10. Heard(Implicit, found, "Deny") # {} <=> found.pattern # {}
  BY <1>7, <1>9 DEF Heard
<1> QED
  BY <1>6, <1>7, <1>10 DEF found

-----------------------------------------------------------------------------
(***************************************************************************)
(* What a check says and what the diagram marks, of the same code.          *)
(***************************************************************************)
Agrees(o, config, frozen) ==
  /\ \A r \in Active(config) : IsAgainstAll(r) =>
       UNION {v.detail.nodes : v \in TanglesIn(o.violations, r.name)} = Ends(Marked)
  /\ config = Implicit /\ frozen = {} => (o.judgment = "negative" <=> Marked # {} \/ CrateNodes = {})

LEMMA CheckAgrees ==
  ASSUME IsGraph, IsOfModules, NEW config, AreNamedApart(config.rules), NEW baseline,
         CheckOutcome(config, baseline).error = {}
  PROVE  Agrees(CheckOutcome(config, baseline), config, baseline.entries)
<1> DEFINE base == baseline.entries
           run == CheckAll(config, base)
<1>1. config.error = {} /\ baseline.error = {}
  BY DEF CheckOutcome, Failed
<1>2. CheckOutcome(config, baseline) = IF run.error # {} THEN Failed("check", run.error) ELSE Outcome(config, run)
  BY <1>1 DEF CheckOutcome
<1> HIDE DEF run
<1>3. run.error = {} /\ CheckOutcome(config, baseline) = Outcome(config, run)
  BY <1>2 DEF Failed
<1>4. \A q \in Active(config) : q.kind = "Layers" => Overlaps(q.layers) = {}
  BY <1>3 DEF run, CheckAll
<1>5. /\ run.result = ChecksOf(config, base)
      /\ run.diagnostics = CollectDiagnostics(config, base, ChecksOf(config, base).hits)
  BY <1>4, CheckOfAll DEF run
<1>6. /\ CheckOutcome(config, baseline).violations = ChecksOf(config, base).violations
      /\ CheckOutcome(config, baseline).judgment = Judgment(config, run)
  BY <1>3, <1>5 DEF Outcome
<1>7. ASSUME NEW r \in Active(config), IsAgainstAll(r)
      PROVE  UNION {v.detail.nodes : v \in TanglesIn(ChecksOf(config, base).violations, r.name)} = Ends(Marked)
  BY <1>7, TanglesAreMarked
<1>8. ASSUME config = Implicit, base = {}
      PROVE  Judgment(config, run) = "negative" <=> Marked # {} \/ CrateNodes = {}
  <2>1. HasErrors(run.result.violations) <=> Marked # {}
    BY <1>5, <1>8, ImplicitReports
  <2>2. Heard(config, run.diagnostics, "Deny") # {} <=> CrateNodes = {}
    BY <1>5, <1>8, ImplicitIsHeard
  <2> QED
    BY <2>1, <2>2 DEF Judgment
<1> QED
  BY <1>6, <1>7, <1>8 DEF Agrees

AgreeInv == Checked => Agrees(outcome, LoadConfig, Frozen)

LEMMA MarkedStay ==
  ASSUME UNCHANGED <<edges, options>> PROVE Marked' = Marked
<1>1. EdgeSet' = EdgeSet
  BY DEF EdgeSet
<1>2. ProductionSubgraph(options.reexports)' = ProductionSubgraph(options.reexports)
  BY <1>1 DEF ProductionSubgraph, IsProductionModuleDep, IsReexport
<1> QED
  BY <1>2 DEF Marked

LEMMA AgreesStays ==
  ASSUME UNCHANGED <<nodes, edges, options>>, NEW o, NEW config, NEW frozen, Agrees(o, config, frozen)
  PROVE  Agrees(o, config, frozen)'
<1>1. Marked' = Marked /\ CrateNodes' = CrateNodes
  BY MarkedStay DEF CrateNodes, Kind
<1> QED
  BY <1>1 DEF Agrees, Active, IsAgainstAll

LEMMA AgreeingWill ==
  ASSUME UNCHANGED <<nodes, edges, options, rulesFile, baselineFile>>,
         NEW o, o = outcome', Agrees(o, LoadConfig, Frozen)
  PROVE  AgreeInv'
<1>1. PICK config, frozen : config = LoadConfig /\ frozen = Frozen
  OBVIOUS
<1>2. Agrees(o, config, frozen)'
  BY <1>1, AgreesStays
<1>3. config = LoadConfig' /\ frozen = Frozen'
  BY <1>1 DEF LoadConfig, Frozen
<1>4. Agrees(outcome, LoadConfig, Frozen)'
  BY <1>2, <1>3
<1> QED
  BY <1>4 DEF AgreeInv

LEMMA AgreeCheck ==
  ASSUME NamesDiffer, CheckInv, Check
  PROVE  AgreeInv'
<1> SUFFICES ASSUME Checked' PROVE AgreeInv'
  BY DEF AgreeInv
<1>1. PICK o : o = outcome'
  OBVIOUS
<1>2. PICK config, baseline : config = LoadConfig /\ baseline = LoadBaseline(baselineFile)
  OBVIOUS
<1>3. o = CheckOutcome(config, baseline) /\ o.error = {}
  BY <1>1, <1>2 DEF Check, Checked
<1>4. config.error = {}
  BY <1>3 DEF CheckOutcome, Failed
<1>5. IsGraph /\ AreNamedApart(config.rules)
  BY <1>2, <1>4, ProjectIsGraph, ConfigIsNamedApart
<1>6. Agrees(o, config, baseline.entries)
  BY <1>3, <1>5, ProjectIsOfModules, CheckAgrees
<1>7. Agrees(o, LoadConfig, Frozen)
  BY <1>2, <1>6 DEF Frozen
<1> QED
  BY <1>1, <1>7, AgreeingWill DEF Check, Command

LEMMA AgreeIdle ==
  ASSUME AgreeInv, UNCHANGED checkVars
  PROVE  AgreeInv'
<1>1. CASE ~Checked
  BY <1>1 DEF checkVars, Checked, AgreeInv
<1>2. CASE Checked
  BY <1>2, AgreeingWill DEF AgreeInv, checkVars
<1> QED
  BY <1>1, <1>2

LEMMA AgreeStep ==
  ASSUME NamesDiffer, CheckInv, AgreeInv, CommandNext
  PROVE  AgreeInv'
<1>1. ~Checked' => AgreeInv'
  BY DEF AgreeInv
<1>2. GenerateBaseline \/ EditCode \/ EditRules => ~Checked'
  BY WrittenIsBaseline DEF EditCode, EditRules, Change, NoOutcome, Checked
<1> QED
  BY <1>1, <1>2, CommandKinds, AgreeCheck, AgreeIdle

-----------------------------------------------------------------------------
(***************************************************************************)
(* A diagram, in a file or on a page, marks the cycles of the code that it  *)
(* was made from.                                                           *)
(***************************************************************************)
SubgraphOf(E, reexports) ==
  {<<e.src, e.dst>> : e \in {f \in Range(E) : IsProductionModuleDep(f) /\ (reexports \/ ~IsReexport(f))}}
MarkedOf(E, reexports) == UNION {CycleEdges(c) : c \in RepresentativeCycles(SubgraphOf(E, reexports))}

IsDrawn(d, reexports) == d.is = "diagram" => d.marked = MarkedOf(d.of, reexports)

FilesAreDrawn(files, reexports) == \A f \in DOMAIN files : IsDrawn(files[f], reexports)

ServiceIsDrawn(s, reexports) ==
  /\ DOMAIN s = {"pages", "error"}
  /\ s.pages # NoDocument =>
       /\ IsDrawn(s.pages.arc, reexports)
       /\ ~s.pages.arc.whole => s.pages.arc.switches = s.pages.args.switches

DrawingInv ==
  /\ "files" \in DOMAIN disk /\ FilesAreDrawn(disk.files, options.reexports)
  /\ ServiceIsDrawn(service, options.reexports)

LEMMA DiagramIsDrawn ==
  \A a, form, switches : IsDrawn(Diagram(a, form, switches), options.reexports)
<1>1. Marked = MarkedOf(edges, options.reexports)
  BY DEF Marked, MarkedOf, SubgraphOf, ProductionSubgraph, EdgeSet
<1> QED
  BY <1>1 DEF IsDrawn, Diagram

LEMMA OthersAreDrawn ==
  /\ \A reexports : IsDrawn(NoDocument, reexports) /\ IsDrawn(VolatilityReport, reexports)
  /\ \A a, form, reexports : IsDrawn(HotspotDrawing(a, form), reexports)
BY DEF IsDrawn, NoDocument, VolatilityReport, HotspotDrawing

LEMMA WrittenIsDrawn ==
  ASSUME DrawingInv, options' = options, NEW a, NEW output, NEW document, IsDrawn(document, options.reexports),
         WriteOutput(a, output, document)
  PROVE  DrawingInv'
<1>1. service' = service
  BY DEF WriteOutput
<1>2. ASSUME NEW d, IsDrawn(d, options.reexports), disk' = [disk EXCEPT !.files[output] = d]
      PROVE  "files" \in DOMAIN disk' /\ FilesAreDrawn(disk'.files, options.reexports)
  <2>1. "files" \in DOMAIN disk' /\ disk'.files = [disk.files EXCEPT ![output] = d]
    BY <1>2 DEF DrawingInv
  <2> QED
    BY <1>2, <2>1 DEF FilesAreDrawn, DrawingInv
<1>3. disk' = disk \/ \E d \in {document, NoDocument} : disk' = [disk EXCEPT !.files[output] = d]
  BY DEF WriteOutput
<1>4. "files" \in DOMAIN disk' /\ FilesAreDrawn(disk'.files, options.reexports)
  BY <1>2, <1>3, OthersAreDrawn DEF DrawingInv
<1> QED
  BY <1>1, <1>4 DEF DrawingInv

LEMMA PagesAreDrawn ==
  \A a, switches : ServiceIsDrawn([pages |-> Pages(a, switches), error |-> {}], options.reexports)
                     <=> (disk.unparsed # {} => switches = a.switches)
<1> SUFFICES ASSUME NEW a, NEW switches
             PROVE  ServiceIsDrawn([pages |-> Pages(a, switches), error |-> {}], options.reexports)
                      <=> (disk.unparsed # {} => switches = a.switches)
  OBVIOUS
<1>1. /\ Pages(a, switches).arc = Diagram(a, "Page", switches) /\ Pages(a, switches).args = a
      /\ Pages(a, switches) # NoDocument
  BY DEF Pages, NoDocument
<1>2. Diagram(a, "Page", switches).whole = (disk.unparsed = {}) /\ Diagram(a, "Page", switches).switches = switches
  BY DEF Diagram
<1> QED
  BY <1>1, <1>2, DiagramIsDrawn DEF ServiceIsDrawn

LEMMA OptionsStay ==
  ASSUME CommandNext PROVE options' = options
BY CommandKinds DEF Check, GenerateBaseline, Command, EditCode, EditRules, Change, checkVars

LEMMA DrawingStep ==
  ASSUME DrawingInv, CommandNext
  PROVE  DrawingInv'
<1>0. options' = options
  BY OptionsStay
<1>1. ASSUME UNCHANGED <<disk, service>> PROVE DrawingInv'
  BY <1>0, <1>1 DEF DrawingInv
<1>2. CASE RunCheck
  BY <1>1, <1>2 DEF RunCheck, GivesUp
<1>3. ASSUME NEW a \in project.arguments,
             Refuse(a) \/ Draw(a) \/ ReportVolatility(a) \/ DrawHotspots(a) \/ StartUi(a)
      PROVE  DrawingInv'
  <2>1. CASE Refuse(a)
    BY <1>1, <2>1 DEF Refuse, GivesUp
  <2>2. CASE Draw(a)
    BY <1>0, <1>1, <2>2, WrittenIsDrawn, DiagramIsDrawn DEF Draw, GivesUp
  <2>3. CASE ReportVolatility(a)
    BY <1>0, <1>1, <2>3, WrittenIsDrawn, OthersAreDrawn DEF ReportVolatility, GivesUp
  <2>4. CASE DrawHotspots(a)
    BY <1>0, <1>1, <2>4, WrittenIsDrawn, OthersAreDrawn DEF DrawHotspots, GivesUp
  <2>5. CASE StartUi(a)
    <3>1. CASE service' = [pages |-> Pages(a, a.switches), error |-> {}] /\ UNCHANGED disk
      BY <1>0, <3>1, PagesAreDrawn DEF DrawingInv
    <3> QED
      BY <1>1, <2>5, <3>1 DEF StartUi, GivesUp
  <2> QED
    BY <1>3, <2>1, <2>2, <2>3, <2>4, <2>5
<1>4. CASE RerunUi
  <2>1. CASE RerunError # {}
    <3>1. UNCHANGED disk /\ service' = [service EXCEPT !.error = RerunError]
      BY <1>4, <2>1 DEF RerunUi
    <3>2. DOMAIN service' = DOMAIN service /\ service'.pages = service.pages
      BY <3>1 DEF DrawingInv, ServiceIsDrawn
    <3> QED
      BY <1>0, <3>1, <3>2 DEF DrawingInv, ServiceIsDrawn
  <2>2. CASE RerunError = {}
    <3>1. PICK switches : service' = [pages |-> Pages(service.pages.args, switches), error |-> {}]
      BY <1>4, <2>2 DEF RerunUi
    <3>2. disk.unparsed = {} /\ UNCHANGED disk
      BY <1>4, <2>2 DEF RerunError, RerunUi
    <3>3. ServiceIsDrawn(service', options.reexports)
      BY <3>1, <3>2, PagesAreDrawn
    <3> QED
      BY <1>0, <3>2, <3>3 DEF DrawingInv
  <2> QED
    BY <2>1, <2>2
<1>5. CASE StopUi
  BY <1>0, <1>5 DEF StopUi, NoService, DrawingInv, ServiceIsDrawn
<1>6. CASE ChangeFiles
  BY <1>0, <1>6 DEF ChangeFiles, DiskOf, DrawingInv
<1> QED
  BY <1>2, <1>3, <1>4, <1>5, <1>6 DEF CommandNext

LEMMA DrawingAtFirst == CommandInit => DrawingInv
<1> SUFFICES ASSUME CommandInit PROVE DrawingInv
  OBVIOUS
<1>1. "files" \in DOMAIN disk /\ disk.files = [f \in Outputs \ {"stdout"} |-> NoDocument]
  BY DEF CommandInit, DiskOf
<1>2. service = NoService
  BY DEF CommandInit
<1> QED
  BY <1>1, <1>2, OthersAreDrawn DEF DrawingInv, FilesAreDrawn, ServiceIsDrawn, NoService

LEMMA DrawingIsEnough ==
  ASSUME CheckInv, AgreeInv, DrawingInv
  PROVE  CommandsAgree
<1>1. \A d \in CurrentDrawings : d.marked = Marked
  <2>1. \A d \in Drawings : IsDrawn(d, options.reexports)
    BY DEF Drawings, DrawingInv, FilesAreDrawn, ServiceIsDrawn, Running, Range
  <2>2. Marked = MarkedOf(edges, options.reexports)
    BY DEF Marked, MarkedOf, SubgraphOf, ProductionSubgraph, EdgeSet
  <2> QED
    BY <2>1, <2>2 DEF CurrentDrawings, IsDrawn
<1>2. LackingPageIsTheFirst
  BY DEF LackingPageIsTheFirst, Running, DrawingInv, ServiceIsDrawn
<1>3. ASSUME Checked PROVE Agrees(outcome, LoadConfig, Frozen)
  BY <1>3 DEF AgreeInv
<1>4. ASSUME Checked, rulesFile = Missing PROVE LoadConfig = Implicit
  <2>1. Load(rulesFile) = [error |-> {"FileNotFound"}]
    BY <1>4 DEF Load, Missing
  <2>2. LoadConfig.error = {}
    BY <1>4 DEF CheckInv, Says
  <2> QED
    BY <2>1, <2>2 DEF LoadConfig
<1>5. ExitCode = 1 <=> outcome.judgment = "negative"
  BY DEF ExitCode
<1>6. \A r \in CheckedRules("NoCycles") :
        r.scope.form = "all" /\ r.allow = <<>> => r \in Active(LoadConfig) /\ IsAgainstAll(r)
  BY DEF CheckedRules, IsAgainstAll
<1>7. JudgedAsDrawn
  <2> SUFFICES ASSUME Checked, NEW d \in CurrentDrawings
               PROVE  /\ \A r \in CheckedRules("NoCycles") : r.scope.form = "all" /\ r.allow = <<>> =>
                           UNION {v.detail.nodes : v \in TanglesIn(outcome.violations, r.name)} = Ends(d.marked)
                      /\ rulesFile = Missing /\ Frozen = {} =>
                           (ExitCode = 1 <=> d.marked # {} \/ CrateNodes = {})
    BY DEF JudgedAsDrawn, TanglesIn
  <2> QED
    BY <1>1, <1>3, <1>4, <1>5, <1>6 DEF Agrees
<1> QED
  BY <1>2, <1>7 DEF CommandsAgree

(***************************************************************************)
(* What a diagram marks and what a check of the same code finds agree,      *)
(* whatever the rules, the code and the baseline are, in whichever order    *)
(* the commands run and the files change between them, as long as no two    *)
(* nodes bear one name; and a page that lacks the modules of a broken file  *)
(* is the one that `ui` started with.                                       *)
(***************************************************************************)
THEOREM CommandsAgreeHolds ==
  ASSUME NamesDiffer
  PROVE  CommandSpec => []CommandsAgree
<1> DEFINE Inv == CheckInv /\ AgreeInv /\ DrawingInv
<1>1. CommandInit => Inv
  <2>1. CommandInit => ~Checked
    BY DEF CommandInit, CheckInit, Checked, NoOutcome
  <2> QED
    BY <2>1, CheckInvAtFirst, DrawingAtFirst DEF AgreeInv
<1>2. Inv /\ [CommandNext]_commandVars => Inv'
  <2>1. CASE UNCHANGED commandVars
    <3>1. UNCHANGED <<checkVars, options, disk, service>>
      BY <2>1 DEF commandVars, checkVars
    <3> QED
      BY <3>1, IdleStep, AgreeIdle DEF DrawingInv
  <2>2. CASE CommandNext
    BY <2>2, CommandStep, AgreeStep, DrawingStep
  <2> QED
    BY <2>1, <2>2
<1>3. Inv => CommandsAgree
  BY DrawingIsEnough
<1> HIDE DEF Inv
<1> QED
  BY <1>1, <1>2, <1>3, PTL DEF CommandSpec

-----------------------------------------------------------------------------
(***************************************************************************)
(* The least of some ways of one length is one of them.                     *)
(***************************************************************************)
Ways(k) == [1 .. k -> Nat]
Alike(s, t, j) == \A i \in 1 .. j : s[i] = t[i]
LeastUpTo(S, s, j) == \A t \in S : Alike(s, t, j) \/ LexLess(s, t)

LEMMA LeastGoesOn ==
  ASSUME NEW k \in Nat, NEW S, S \subseteq Ways(k), NEW j \in Nat, j < k,
         NEW s \in S, LeastUpTo(S, s, j)
  PROVE  \E t \in S : LeastUpTo(S, t, j + 1)
<1> DEFINE T == {t \in S : Alike(s, t, j)}
           values == {t[j + 1] : t \in T}
<1>1. s \in T
  BY DEF Alike
<1>2. \A t \in S : DOMAIN t = 1 .. k /\ \A i \in 1 .. k : t[i] \in Nat
  BY DEF Ways
<1>3. j + 1 \in 1 .. k
  OBVIOUS
<1>4. values \subseteq Nat /\ values # {}
  BY <1>1, <1>2, <1>3
<1>5. PICK t \in T : \A u \in T : t[j + 1] <= u[j + 1]
  <2>1. PICK m \in values : \A v \in values : m <= v
    <3> HIDE DEF values
    <3> QED
      BY <1>4, Reach!LeastNatural
  <2>2. PICK t \in T : m = t[j + 1]
    OBVIOUS
  <2>3. \A u \in T : u[j + 1] \in values
    OBVIOUS
  <2> HIDE DEF values, T
  <2> QED
    BY <2>1, <2>2, <2>3
<1>6. \A i \in 1 .. j : i \in 1 .. k
  OBVIOUS
<1>7. ASSUME NEW u \in S PROVE Alike(t, u, j + 1) \/ LexLess(t, u)
  <2>1. DOMAIN t = 1 .. k /\ DOMAIN u = 1 .. k /\ DOMAIN s = 1 .. k
    BY <1>2
  <2>2. \A i \in 1 .. j : t[i] = s[i]
    BY <1>5 DEF Alike
  <2>3. CASE u \in T
    <3>1. t[j + 1] <= u[j + 1] /\ t[j + 1] \in Nat /\ u[j + 1] \in Nat
      BY <1>2, <1>3, <1>5, <2>3
    <3>2. \A i \in 1 .. j : t[i] = u[i]
      BY <2>2, <2>3 DEF Alike
    <3>3. CASE t[j + 1] = u[j + 1]
      <4>1. \A i \in 1 .. j + 1 : i \in 1 .. j \/ i = j + 1
        OBVIOUS
      <4> QED
        BY <3>2, <3>3, <4>1 DEF Alike
    <3>4. CASE t[j + 1] < u[j + 1]
      <4>1. j + 1 - 1 = j
        OBVIOUS
      <4> QED
        BY <1>3, <2>1, <3>2, <3>4, <4>1 DEF LexLess
    <3> QED
      BY <3>1, <3>3, <3>4
  <2>4. CASE u \notin T
    <3>1. LexLess(s, u) /\ ~Alike(s, u, j)
      BY <2>4 DEF LeastUpTo
    <3>2. PICK i \in 1 .. k : s[i] < u[i] /\ \A m \in 1 .. i - 1 : s[m] = u[m]
      BY <2>1, <3>1 DEF LexLess
    <3>3. i <= j
      BY <3>1, <3>2 DEF Alike
    <3>4. \A m \in 1 .. i - 1 : m \in 1 .. j
      BY <3>3
    <3>5. t[i] = s[i] /\ \A m \in 1 .. i - 1 : t[m] = s[m]
      BY <2>2, <3>3, <3>4
    <3> QED
      BY <2>1, <3>2, <3>5 DEF LexLess
  <2> QED
    BY <2>3, <2>4
<1> QED
  BY <1>7 DEF LeastUpTo

LEMMA LexMinIsOne ==
  ASSUME NEW k \in Nat, NEW S, S \subseteq Ways(k), S # {}
  PROVE  LexMin(S) \in S
<1> DEFINE N == {j \in Nat : j <= k => \E s \in S : LeastUpTo(S, s, j)}
<1>1. 0 \in N
  BY DEF LeastUpTo, Alike
<1>2. ASSUME NEW j \in Nat, j \in N PROVE j + 1 \in N
  <2> SUFFICES ASSUME j + 1 <= k PROVE \E s \in S : LeastUpTo(S, s, j + 1)
    OBVIOUS
  <2>1. j < k /\ \E s \in S : LeastUpTo(S, s, j)
    BY <1>2
  <2> QED
    BY <2>1, LeastGoesOn
<1> HIDE DEF N
<1>3. Nat \subseteq N
  BY <1>1, <1>2, Reach!AllNaturals
<1>4. PICK s \in S : LeastUpTo(S, s, k)
  BY <1>3 DEF N
<1>5. ASSUME NEW t \in S, t # s PROVE LexLess(s, t)
  <2>1. s \in Ways(k) /\ t \in Ways(k)
    OBVIOUS
  <2>2. Alike(s, t, k) => s = t
    BY <2>1 DEF Alike, Ways
  <2> QED
    BY <1>4, <1>5, <2>2 DEF LeastUpTo
<1> QED
  BY <1>5 DEF LexMin

-----------------------------------------------------------------------------
(***************************************************************************)
(* The walk from a layered node ends where nothing is left to enter: from   *)
(* every node that it may pass it went on, and each layered node that it    *)
(* met is next to the first one or has a route.                             *)
(***************************************************************************)
ProductionPairs == {<<e.src, e.dst>> : e \in ProductionEdges}
GoesOn(p, n) == n = p[1] \/ n \notin p[2]

WentOn(p, w) == \A n \in w.reached \ DOMAIN w.frontier : GoesOn(p, n) => DirectFrom(n) \subseteq w.reached
Met(p, w) == \A n \in (w.reached \cap p[2]) \ {p[1]} : n \in DirectFrom(p[1]) \/ \E r \in w.found : r.target = n

RouteInv(p, k, w) ==
  IsGraph /\ p[1] \in DOMAIN nodes =>
    /\ p[1] \in w.reached /\ w.reached \subseteq DOMAIN nodes
    /\ DOMAIN w.frontier \subseteq w.reached
    /\ \A n \in DOMAIN w.frontier : w.frontier[n] \in Ways(k) /\ GoesOn(p, n)
    /\ k = 0 => DOMAIN w.frontier = {p[1]}
    /\ WentOn(p, w)
    /\ Met(p, w)
    /\ DOMAIN w.frontier = {} \/ k + 1 <= Cardinality(w.reached)
    /\ \A n \in w.reached : Leads(ProductionPairs, p[1], n)

Route == INSTANCE Rounds WITH First <- WalkFirst, Round <- WalkRound, Inv <- RouteInv

LEMMA PairsLead ==
  ASSUME IsGraph
  PROVE  /\ IsFiniteSet(Targets(ProductionPairs))
         /\ \A a, n : n \in DirectFrom(a) <=> <<a, n>> \in ProductionPairs
         /\ \A p \in ProductionPairs : p = <<p[1], p[2]>> /\ p[1] \in DOMAIN nodes /\ p[2] \in DirectFrom(p[1])
<1>1. \A e \in ProductionEdges : e.src \in DOMAIN nodes /\ e.dst \in DOMAIN nodes
  BY DEF IsGraph, ProductionEdges
<1>2. Targets(ProductionPairs) \subseteq DOMAIN nodes
  BY <1>1 DEF Targets, ProductionPairs
<1>3. IsFiniteSet(Targets(ProductionPairs))
  BY <1>2, FS_Subset DEF IsGraph
<1> QED
  BY <1>1, <1>3 DEF DirectFrom, ProductionPairs

LEMMA RouteStarts == \A p : RouteInv(p, 0, WalkFirst(p))
<1> SUFFICES ASSUME NEW p, IsGraph, p[1] \in DOMAIN nodes, NEW w, w = WalkFirst(p)
             PROVE  RouteInv(p, 0, w)
  BY DEF RouteInv
<1>1. w.reached = {p[1]} /\ w.frontier = [n \in {p[1]} |-> <<>>] /\ w.found = {}
  BY DEF WalkFirst, AtSource
<1>2. <<>> \in Ways(0)
  BY DEF Ways
<1>3. Cardinality({p[1]}) = 1
  BY FS_Singleton
<1>4. Leads(ProductionPairs, p[1], p[1])
  BY PairsLead, LeadsOnward
<1> QED
  BY <1>1, <1>2, <1>3, <1>4 DEF RouteInv, WentOn, Met, GoesOn

LEMMA AppendedIsWay ==
  ASSUME NEW k \in Nat, NEW s \in Ways(k), NEW n \in Nat
  PROVE  Append(s, n) \in Ways(k + 1)
<1>1. s \in Seq(Nat) /\ Len(s) = k
  BY DEF Ways
<1>2. Append(s, n) \in Seq(Nat) /\ Len(Append(s, n)) = k + 1
  BY <1>1
<1>3. \A t \in Seq(Nat) : t \in [1 .. Len(t) -> Nat]
  OBVIOUS
<1> QED
  BY <1>2, <1>3 DEF Ways

LEMMA RouteGoesOn ==
  \A p : \A k \in Nat : \A w : RouteInv(p, k, w) => RouteInv(p, k + 1, WalkRound(p, k + 1, w))
<1> SUFFICES ASSUME NEW p, NEW k \in Nat, NEW w, RouteInv(p, k, w), IsGraph, p[1] \in DOMAIN nodes,
                    NEW x, x = WalkRound(p, k + 1, w)
             PROVE  RouteInv(p, k + 1, x)
  BY DEF RouteInv
<1> DEFINE near == {q \in (DOMAIN w.frontier) \X (DOMAIN nodes) :
                      /\ q[2] \notin w.reached
                      /\ \E e \in ProductionEdges : e.src = q[1] /\ e.dst = q[2]}
           entered == {q[2] : q \in near}
           waysTo(n) == {w.frontier[q[1]] : q \in {y \in near : y[2] = n}}
           over == [n \in entered |-> LexMin(waysTo(n))]
           targets == {m \in entered \cap p[2] : over[m] # <<>>}
           found == {[target |-> n, over |-> over[n]] : n \in targets}
           onward == [n \in entered \ p[2] |-> Append(over[n], n)]
<1>0. /\ p[1] \in w.reached /\ w.reached \subseteq DOMAIN nodes
      /\ DOMAIN w.frontier \subseteq w.reached
      /\ \A n \in DOMAIN w.frontier : w.frontier[n] \in Ways(k) /\ GoesOn(p, n)
      /\ k = 0 => DOMAIN w.frontier = {p[1]}
      /\ WentOn(p, w)
      /\ Met(p, w)
      /\ DOMAIN w.frontier = {} \/ k + 1 <= Cardinality(w.reached)
      /\ \A n \in w.reached : Leads(ProductionPairs, p[1], n)
  BY DEF RouteInv
<1>1. CASE DOMAIN w.frontier = {}
  <2>1. x = w
    BY <1>1 DEF WalkRound, NextLevel
  <2> QED
    BY <1>0, <1>1, <2>1 DEF RouteInv
<1>2. CASE DOMAIN w.frontier # {}
  <2>1. x = [reached |-> w.reached \cup entered, frontier |-> onward, found |-> w.found \cup found]
    BY <1>2 DEF WalkRound, NextLevel
  <2>2. \A n : n \in entered <=> n \in DOMAIN nodes \ w.reached /\ \E m \in DOMAIN w.frontier : n \in DirectFrom(m)
    <3>1. \A n : n \in entered => n \in DOMAIN nodes \ w.reached /\ \E m \in DOMAIN w.frontier : n \in DirectFrom(m)
      BY DEF DirectFrom
    <3>2. ASSUME NEW n \in DOMAIN nodes \ w.reached, NEW m \in DOMAIN w.frontier, n \in DirectFrom(m)
          PROVE  n \in entered
      <4>1. <<m, n>> \in near
        BY <3>2 DEF DirectFrom
      <4> QED
        BY <4>1
    <3> QED
      BY <3>1, <3>2
  <2>3. \A n \in entered : over[n] \in Ways(k)
    <3> SUFFICES ASSUME NEW n \in entered PROVE LexMin(waysTo(n)) \in Ways(k)
      OBVIOUS
    <3>1. waysTo(n) \subseteq Ways(k) /\ waysTo(n) # {}
      BY <1>0
    <3> HIDE DEF waysTo
    <3> QED
      BY <3>1, LexMinIsOne
  <2>4. x.reached = w.reached \cup entered /\ DOMAIN x.frontier = entered \ p[2]
    BY <2>1
  <2>5. \A n \in DOMAIN x.frontier : x.frontier[n] \in Ways(k + 1)
    <3>1. x.frontier = onward
      <4> HIDE DEF onward, entered, found
      <4> QED
        BY <2>1
    <3>2. \A n \in entered : n \in Nat
      BY <2>2 DEF IsGraph
    <3> HIDE DEF over, entered
    <3>3. \A n \in entered \ p[2] : onward[n] = Append(over[n], n)
      OBVIOUS
    <3>4. \A n \in entered \ p[2] : Append(over[n], n) \in Ways(k + 1)
      BY <2>3, <3>2, AppendedIsWay
    <3> HIDE DEF onward
    <3> QED
      BY <2>4, <3>1, <3>3, <3>4
  <2>6. \A n \in w.found : n \in x.found
    BY <2>1
  <2>7. ASSUME NEW n \in entered \cap p[2], k # 0 PROVE \E r \in x.found : r.target = n
    <3>1. over[n] # <<>>
      <4>1. over[n] \in Ways(k)
        BY <2>3
      <4> HIDE DEF over
      <4> QED
        BY <2>7, <4>1 DEF Ways
    <3>2. [target |-> n, over |-> over[n]] \in found
      BY <3>1
    <3> HIDE DEF found, over
    <3> QED
      BY <2>1, <3>2
  <2> HIDE DEF entered, over, onward, found
  <2>8. p[1] \in x.reached /\ x.reached \subseteq DOMAIN nodes /\ DOMAIN x.frontier \subseteq x.reached
    BY <1>0, <2>2, <2>4
  <2>9. \A n \in DOMAIN x.frontier : GoesOn(p, n)
    BY <2>4 DEF GoesOn
  <2>10. WentOn(p, x)
    <3> SUFFICES ASSUME NEW n \in x.reached \ DOMAIN x.frontier, GoesOn(p, n), NEW m \in DirectFrom(n)
                 PROVE  m \in x.reached
      BY DEF WentOn
    <3>1. n \in w.reached
      BY <1>0, <2>2, <2>4 DEF GoesOn
    <3>2. CASE n \in DOMAIN w.frontier
      BY <2>2, <2>4, <3>2 DEF DirectFrom
    <3>3. CASE n \notin DOMAIN w.frontier
      BY <1>0, <2>4, <3>1, <3>3 DEF WentOn
    <3> QED
      BY <3>2, <3>3
  <2>11. Met(p, x)
    <3> SUFFICES ASSUME NEW n \in (x.reached \cap p[2]) \ {p[1]}, n \notin DirectFrom(p[1])
                 PROVE  \E r \in x.found : r.target = n
      BY DEF Met
    <3>1. CASE n \in w.reached
      BY <1>0, <2>6, <3>1 DEF Met
    <3>2. CASE n \in entered
      <4>1. k # 0
        BY <1>0, <2>2, <3>2
      <4> QED
        BY <2>7, <3>2, <4>1
    <3> QED
      BY <2>4, <3>1, <3>2
  <2>12. DOMAIN x.frontier = {} \/ k + 2 <= Cardinality(x.reached)
    <3> SUFFICES ASSUME NEW n \in DOMAIN x.frontier PROVE k + 2 <= Cardinality(x.reached)
      OBVIOUS
    <3>1. n \in entered /\ n \notin w.reached
      BY <2>2, <2>4
    <3>2. IsFiniteSet(w.reached) /\ IsFiniteSet(x.reached)
      BY <1>0, <2>8, FS_Subset DEF IsGraph
    <3>3. Cardinality(w.reached \cup {n}) = Cardinality(w.reached) + 1
      BY <3>1, <3>2, FS_AddElement
    <3>4. w.reached \cup {n} \subseteq x.reached
      BY <2>4, <3>1
    <3>5. Cardinality(w.reached \cup {n}) <= Cardinality(x.reached)
      BY <3>2, <3>4, FS_Subset
    <3>6. Cardinality(w.reached) \in Nat /\ Cardinality(x.reached) \in Nat
      BY <3>2, FS_CardinalityType
    <3> QED
      BY <1>0, <1>2, <3>3, <3>5, <3>6
  <2>13. \A n \in x.reached : Leads(ProductionPairs, p[1], n)
    <3> SUFFICES ASSUME NEW n \in entered PROVE Leads(ProductionPairs, p[1], n)
      BY <1>0, <2>4
    <3>1. PICK m \in DOMAIN w.frontier : n \in DirectFrom(m)
      BY <2>2
    <3>2. Leads(ProductionPairs, p[1], m) /\ <<m, n>> \in ProductionPairs
      BY <1>0, <3>1, PairsLead
    <3>3. Leads(ProductionPairs, m, n)
      BY <3>2, PairsLead, LeadsOnward
    <3> QED
      BY <3>2, <3>3, PairsLead, LeadsOnward
  <2>14. k + 1 + 1 = k + 2 /\ k + 1 # 0
    OBVIOUS
  <2> QED
    BY <2>5, <2>8, <2>9, <2>10, <2>11, <2>12, <2>13, <2>14 DEF RouteInv
<1> QED
  BY <1>1, <1>2

(***************************************************************************)
(* From a layered node the routes over the others and the edges lead to     *)
(* every layered node that there is a way to past no other one              *)
(* (routes_over_unpositioned ends a route at a positioned node alone).      *)
(***************************************************************************)
THEOREM RoutesReachTheNext ==
  ASSUME IsGraph, NEW P, NEW a \in DOMAIN nodes
  PROVE  \E W : /\ a \in W /\ \A n \in W : Leads(ProductionPairs, a, n)
                /\ \A n \in W : n = a \/ n \notin P => DirectFrom(n) \subseteq W
                /\ \A n \in (W \cap P) \ {a} :
                     n \in DirectFrom(a) \/ \E r \in RoutesOverUnpositioned(a, P) : r.target = n
                /\ \A r \in RoutesOverUnpositioned(a, P) : r.target \in W
<1> DEFINE p == <<a, P>>
           N == Cardinality(DOMAIN nodes)
           walk == CHOOSE f : f = [k \in Nat |-> IF k = 0 THEN AtSource(a) ELSE NextLevel(f[k - 1], P)]
           last == walk[N]
<1>1. \A f : Walk!IsComputed(f, p) <=>
        f = [k \in Nat |-> IF k = 0 THEN AtSource(a) ELSE NextLevel(f[k - 1], P)]
  BY DEF Walk!IsComputed, WalkFirst, WalkRound
<1>2. Walk!IsComputed(walk, p)
  BY <1>1, Walk!ComputedExists
<1>3. Route!IsComputed(walk, p)
  BY <1>2 DEF Walk!IsComputed, Route!IsComputed
<1>4. N \in Nat
  BY FS_CardinalityType DEF IsGraph
<1>5. WalkInv(p, N, last) /\ RouteInv(p, N, last)
  <2> HIDE DEF walk
  <2>1. \A k \in Nat : WalkInv(p, k, walk[k])
    BY <1>2, WalkStarts, WalkGoesOn, Walk!InvariantOfRounds
  <2>2. \A k \in Nat : RouteInv(p, k, walk[k])
    BY <1>3, RouteStarts, RouteGoesOn, Route!InvariantOfRounds
  <2> QED
    BY <1>4, <2>1, <2>2
<1>6. RoutesOverUnpositioned(a, P) = last.found
  BY DEF RoutesOverUnpositioned
<1> HIDE DEF walk, last
<1>7. DOMAIN last.frontier = {}
  <2>1. Cardinality(last.reached) <= N
    BY <1>5, FS_Subset DEF RouteInv, IsGraph
  <2>2. Cardinality(last.reached) \in Nat
    BY <1>5, FS_Subset, FS_CardinalityType DEF RouteInv, IsGraph
  <2> HIDE DEF N
  <2> QED
    BY <1>4, <1>5, <2>1, <2>2 DEF RouteInv
<1>8. \A r \in last.found : r.target \in last.reached
  BY <1>5 DEF WalkInv
<1>9. /\ a \in last.reached /\ \A n \in last.reached : Leads(ProductionPairs, a, n)
      /\ \A n \in last.reached : n = a \/ n \notin P => DirectFrom(n) \subseteq last.reached
      /\ \A n \in (last.reached \cap P) \ {a} : n \in DirectFrom(a) \/ \E r \in last.found : r.target = n
  BY <1>5, <1>7 DEF RouteInv, WentOn, Met, GoesOn
<1> QED
  BY <1>6, <1>8, <1>9

-----------------------------------------------------------------------------
(***************************************************************************)
(* The order of layers, and the pairs that a rule finds against it.         *)
(***************************************************************************)
IsLayering(rule) == DOMAIN rule.layers \subseteq Nat /\ rule.direction \in Directions

LEMMA IndexIsPlace ==
  ASSUME NEW layers, DOMAIN layers \subseteq Nat
  PROVE  /\ DOMAIN LayerIndex(layers) \subseteq DOMAIN nodes
         /\ \A n \in DOMAIN LayerIndex(layers) : LayerIndex(layers)[n] \in Nat
<1> DEFINE rest == IF HasCatchAll(layers) THEN LayerRest(layers) ELSE {}
           catchAll == CHOOSE i \in DOMAIN layers : layers[i] = CatchAll
           claimed == {m \in Members : ClaimedBy(layers, m) # {}}
<1>1. LayerIndex(layers) = [n \in claimed \cup rest |-> IF n \in rest THEN catchAll ELSE Min(ClaimedBy(layers, n))]
  BY DEF LayerIndex
<1>2. claimed \cup rest \subseteq DOMAIN nodes
  BY DEF LayerRest, Members, CrateNodes, ModuleNodes
<1>3. ASSUME NEW n \in rest PROVE catchAll \in Nat
  BY <1>3 DEF HasCatchAll
<1>4. ASSUME NEW n \in claimed PROVE Min(ClaimedBy(layers, n)) \in Nat
  <2>1. ClaimedBy(layers, n) \subseteq Nat /\ ClaimedBy(layers, n) # {}
    BY DEF ClaimedBy, Ordinary
  <2> QED
    BY <2>1, MinIsMember
<1> HIDE DEF rest, catchAll, claimed
<1> QED
  BY <1>1, <1>2, <1>3, <1>4

LEMMA RejectsOnward ==
  ASSUME NEW rule, rule.direction \in Directions, NEW index, NEW a \in DOMAIN index, NEW b \in DOMAIN index,
         \A n \in DOMAIN index : index[n] \in Nat, Rejects(rule, index, a, b)
  PROVE  /\ a # b
         /\ \A n \in DOMAIN index : Rejects(rule, index, a, n) \/ Rejects(rule, index, n, b)
<1>1. CASE rule.direction = "TopDown"
  BY <1>1 DEF Rejects
<1>2. CASE rule.direction = "BottomUp"
  BY <1>2 DEF Rejects
<1> QED
  BY <1>1, <1>2 DEF Directions

RejectedPairs(rule, index) == {p \in (DOMAIN index) \X (DOMAIN index) : Rejects(rule, index, p[1], p[2])}
BrokenBy(rule, index) ==
  WrittenDependencies(RejectedPairs(rule, index))
    \cup DependenciesOverUnpositioned(DOMAIN index, RejectedPairs(rule, index))
PairsOf(D) == {<<d.source, d.target>> : d \in D}

\* Both what is written and what is routed.
LEMMA BrokenPairs ==
  ASSUME IsGraph, NEW rule, NEW index, DOMAIN index \subseteq DOMAIN nodes,
         NEW pairs, pairs = PairsOf(BrokenBy(rule, index))
  PROVE  /\ \A p \in pairs : /\ p[1] \in DOMAIN index /\ p[2] \in DOMAIN index
                             /\ Rejects(rule, index, p[1], p[2])
                             /\ Leads(ProductionPairs, p[1], p[2])
         /\ \A a, b \in DOMAIN index :
              /\ Rejects(rule, index, a, b)
              /\ b \in DirectFrom(a) \/ \E r \in RoutesOverUnpositioned(a, DOMAIN index) : r.target = b
              => <<a, b>> \in pairs
<1> DEFINE P == DOMAIN index
           rejected == RejectedPairs(rule, index)
           written == WrittenDependencies(rejected)
           routes(a) == {q \in RoutesOverUnpositioned(a, P) : <<a, q.target>> \in rejected}
           dependency(a, r) == Dependency(a, r.target, WrittenEdges(a, r), {})
           routedFrom(a) == {dependency(a, r) : r \in routes(a)}
           routed == UNION {routedFrom(a) : a \in P}
           uses(p) == UNION {e.locations : e \in {f \in ProductionEdges : f.src = p[1] /\ f.dst = p[2]}}
<1>1. pairs = PairsOf(written) \cup PairsOf(routed)
  BY DEF PairsOf, BrokenBy, DependenciesOverUnpositioned
<1>2. \A a, b : <<a, b>> \in rejected <=> a \in P /\ b \in P /\ Rejects(rule, index, a, b)
  BY DEF RejectedPairs
<1>3. \A d \in written : <<d.source, d.target>> \in rejected /\ Leads(ProductionPairs, d.source, d.target)
  <2>1. \A d \in written : <<d.source, d.target>> \in rejected /\ d.target \in DirectFrom(d.source)
    BY WrittenAreOnePerPair
  <2>2. \A q \in ProductionPairs : Leads(ProductionPairs, q[1], q[2])
    BY PairsLead, LeadsOnward
  <2>3. \A m, n : n \in DirectFrom(m) <=> <<m, n>> \in ProductionPairs
    BY PairsLead
  <2> HIDE DEF written, rejected
  <2> SUFFICES ASSUME NEW d \in written
               PROVE  <<d.source, d.target>> \in rejected /\ Leads(ProductionPairs, d.source, d.target)
    OBVIOUS
  <2>4. PICK q : q = <<d.source, d.target>>
    OBVIOUS
  <2>5. q \in ProductionPairs /\ q[1] = d.source /\ q[2] = d.target
    BY <2>1, <2>3, <2>4
  <2>6. Leads(ProductionPairs, d.source, d.target)
    BY <2>2, <2>5
  <2> QED
    BY <2>1, <2>6
<1>4. ASSUME NEW a, NEW b, <<a, b>> \in rejected, b \in DirectFrom(a) PROVE <<a, b>> \in PairsOf(written)
  <2>1. written = {Dependency(p[1], p[2], <<>>, uses(p)) : p \in {<<e.src, e.dst>> : e \in ProductionEdges} \cap rejected}
    BY DEF WrittenDependencies
  <2>2. <<a, b>> \in {<<e.src, e.dst>> : e \in ProductionEdges} \cap rejected
    BY <1>4, PairsLead DEF ProductionPairs
  <2>3. PICK d : d = Dependency(a, b, <<>>, uses(<<a, b>>))
    OBVIOUS
  <2>4. d \in written
    <3> HIDE DEF uses, rejected
    <3> QED
      BY <2>1, <2>2, <2>3
  <2>5. d.source = a /\ d.target = b
    BY <2>3 DEF Dependency
  <2> QED
    BY <2>4, <2>5 DEF PairsOf
<1>5. \A a, r : dependency(a, r).source = a /\ dependency(a, r).target = r.target
  BY DEF Dependency
<1>6. \A a \in P : \A r \in RoutesOverUnpositioned(a, P) : Leads(ProductionPairs, a, r.target)
  BY RoutesReachTheNext
<1>7. \A a : \A r \in routes(a) : r \in RoutesOverUnpositioned(a, P) /\ <<a, r.target>> \in rejected
  OBVIOUS
<1>8. ASSUME NEW a, NEW b, <<a, b>> \in rejected, NEW r \in RoutesOverUnpositioned(a, P), r.target = b
      PROVE  <<a, b>> \in PairsOf(routed)
  <2>1. a \in P /\ r \in routes(a)
    BY <1>2, <1>8
  <2> HIDE DEF routes, dependency
  <2>2. dependency(a, r) \in routed
    BY <2>1
  <2> HIDE DEF routed
  <2> QED
    BY <1>5, <1>8, <2>2 DEF PairsOf
<1> HIDE DEF routes, dependency
<1>9. \A d \in routed : \E a \in P : \E r \in routes(a) : d = dependency(a, r)
  OBVIOUS
<1> HIDE DEF routed, written, rejected
<1>10. \A d \in routed : <<d.source, d.target>> \in rejected /\ Leads(ProductionPairs, d.source, d.target)
  BY <1>5, <1>6, <1>7, <1>9
<1>11. ASSUME NEW p \in pairs
       PROVE  /\ p[1] \in P /\ p[2] \in P /\ Rejects(rule, index, p[1], p[2])
              /\ Leads(ProductionPairs, p[1], p[2])
  <2>1. PICK d \in written \cup routed : p = <<d.source, d.target>>
    BY <1>1 DEF PairsOf
  <2>2. p[1] = d.source /\ p[2] = d.target
    BY <2>1
  <2> QED
    BY <1>2, <1>3, <1>10, <2>2
<1> QED
  BY <1>1, <1>2, <1>4, <1>8, <1>11

(***************************************************************************)
(* However a dependency leads against the order, a broken pair is on the    *)
(* way: at every place of the way the walk from some layered node before it *)
(* is under way that the order puts on the wrong side of the end.           *)
(***************************************************************************)
THEOREM OrderIsBroken ==
  ASSUME IsGraph, NEW rule, IsLayering(rule), NEW index, index = LayerIndex(rule.layers),
         NEW pairs, pairs = PairsOf(BrokenBy(rule, index)),
         NEW a \in DOMAIN index, NEW b \in DOMAIN index,
         Leads(ProductionPairs, a, b), Rejects(rule, index, a, b)
  PROVE  \E p \in pairs : Leads(ProductionPairs, a, p[1]) /\ Leads(ProductionPairs, p[2], b)
<1> DEFINE P == DOMAIN index
           Lead(m, n) == Leads(ProductionPairs, m, n)
           IsMet(c, W) ==
             /\ c \in W /\ \A n \in W : Lead(c, n)
             /\ \A n \in W : n = c \/ n \notin P => DirectFrom(n) \subseteq W
             /\ \A n \in (W \cap P) \ {c} :
                  n \in DirectFrom(c) \/ \E r \in RoutesOverUnpositioned(c, P) : r.target = n
           met(c) == CHOOSE W : IsMet(c, W)
           T == {n \in {a} \cup Targets(ProductionPairs) : Lead(n, b) =>
                   \E c \in P : Lead(a, c) /\ Rejects(rule, index, c, b) /\ n \in met(c)}
<1> SUFFICES ASSUME \A p \in pairs : ~(Lead(a, p[1]) /\ Lead(p[2], b)) PROVE FALSE
  OBVIOUS
<1>1. P \subseteq DOMAIN nodes /\ \A n \in P : index[n] \in Nat
  BY IndexIsPlace DEF IsLayering
<1>2. \A c \in P : IsMet(c, met(c))
  <2>1. ASSUME NEW c \in P PROVE \E W : IsMet(c, W)
    <3>1. c \in DOMAIN nodes
      BY <1>1
    <3> QED
      BY <3>1, RoutesReachTheNext
  <2> HIDE DEF IsMet
  <2> QED
    BY <2>1
<1> HIDE DEF met
<1>3. /\ IsFiniteSet(Targets(ProductionPairs))
      /\ \A m, n : n \in DirectFrom(m) <=> <<m, n>> \in ProductionPairs
      /\ \A q \in ProductionPairs : q = <<q[1], q[2]>> /\ q[2] \in DirectFrom(q[1])
  BY PairsLead
<1>4. /\ \A n : Lead(n, n)
      /\ \A q \in ProductionPairs : Lead(q[1], q[2])
      /\ \A l, m, n : Lead(l, m) /\ Lead(m, n) => Lead(l, n)
  BY <1>3, LeadsOnward
<1>5. \A c, n \in P : Rejects(rule, index, c, n) /\ n \in met(c) /\ n # c => <<c, n>> \in pairs
  BY <1>1, <1>2, BrokenPairs
<1>6. \A c \in P : \A n \in met(c) : Lead(c, n)
  BY <1>2
<1>7. \A c \in P : \A n \in met(c) : n = c \/ n \notin P => DirectFrom(n) \subseteq met(c)
  BY <1>2
<1>8. \A c \in P : c \in met(c)
  BY <1>2
<1>9. \A c \in P : Rejects(rule, index, c, b) =>
        c # b /\ \A n \in P : Rejects(rule, index, c, n) \/ Rejects(rule, index, n, b)
  BY <1>1, RejectsOnward DEF IsLayering
<1> HIDE DEF IsMet, Lead
<1>10. a \in T
  BY <1>4, <1>8
<1>11. IsClosed(ProductionPairs, T)
  <2> SUFFICES ASSUME NEW q \in ProductionPairs, q[1] \in T, Lead(q[2], b)
               PROVE  \E c \in P : Lead(a, c) /\ Rejects(rule, index, c, b) /\ q[2] \in met(c)
    BY DEF IsClosed, Targets
  <2>1. Lead(q[1], b) /\ q[2] \in DirectFrom(q[1])
    BY <1>3, <1>4
  <2>2. PICK c \in P : Lead(a, c) /\ Rejects(rule, index, c, b) /\ q[1] \in met(c)
    BY <2>1
  <2>3. CASE q[1] = c \/ q[1] \notin P
    BY <1>7, <2>1, <2>2, <2>3
  <2>4. CASE q[1] # c /\ q[1] \in P
    <3>1. ~Rejects(rule, index, c, q[1])
      <4> SUFFICES ASSUME Rejects(rule, index, c, q[1]) PROVE FALSE
        OBVIOUS
      <4>1. PICK p : p = <<c, q[1]>>
        OBVIOUS
      <4>2. p \in pairs /\ p[1] = c /\ p[2] = q[1]
        BY <1>5, <2>2, <2>4, <4>1
      <4> QED
        BY <2>1, <2>2, <4>2
    <3>2. Rejects(rule, index, q[1], b)
      BY <1>9, <2>2, <2>4, <3>1
    <3>3. Lead(a, q[1])
      BY <1>4, <1>6, <2>2
    <3>4. q[2] \in met(q[1])
      BY <1>7, <1>8, <2>1, <2>4
    <3> QED
      BY <2>4, <3>2, <3>3, <3>4
  <2> QED
    BY <2>3, <2>4
<1>12. b \in T
  <2>1. ReachedFrom({a}, ProductionPairs) \subseteq T
    <3> HIDE DEF T
    <3> QED
      BY <1>3, <1>10, <1>11, ReachedIsLeast
  <2> QED
    BY <2>1 DEF Leads
<1>13. PICK c \in P : Lead(a, c) /\ Rejects(rule, index, c, b) /\ b \in met(c)
  BY <1>4, <1>12
<1>14. PICK p : p = <<c, b>>
  OBVIOUS
<1>15. p \in pairs /\ p[1] = c /\ p[2] = b
  BY <1>5, <1>9, <1>13, <1>14
<1> QED
  BY <1>4, <1>13, <1>15

-----------------------------------------------------------------------------
(***************************************************************************)
(* What a loaded rule of layers finds, and that it stays found.             *)
(***************************************************************************)
\* Every rule of layers has them in places, and says which way they point.
AreLayerings(rules) == \A r \in Range(rules) : r.kind = "Layers" => IsLayering(r)

HasLayerings(file) == file \in {Missing, Garbled} \/ AreLayerings(file.rules)

LEMMA ProjectHasLayerings ==
  ASSUME CheckInv PROVE HasLayerings(rulesFile)
<1>1. IsProject(project) /\ rulesFile \in project.files
  BY CheckAssumption DEF CheckInv, CodeIsOfProject
<1>2. CASE rulesFile \in {Missing, Garbled}
  BY <1>2 DEF HasLayerings
<1>3. CASE rulesFile \notin {Missing, Garbled}
  <2> SUFFICES ASSUME NEW r \in Range(rulesFile.rules), r.kind = "Layers" PROVE IsLayering(r)
    BY DEF HasLayerings, AreLayerings
  <2>1. r.layers \in Seq(Range(r.layers)) /\ r.direction \in Directions
    BY <1>1, <1>3 DEF IsProject
  <2>2. DOMAIN r.layers \subseteq Nat
    <3>1. DOMAIN r.layers = 1 .. Len(r.layers)
      BY <2>1
    <3> QED
      BY <3>1
  <2> QED
    BY <2>1, <2>2 DEF IsLayering
<1> QED
  BY <1>2, <1>3

\* A rule is written in the file, or the implicit one.
LEMMA RulesAreWritten ==
  ASSUME NEW file, file.is \notin {"missing", "garbled"}, IsRulesFile(file), Load(file).error = {}
  PROVE  \A r \in Range(Load(file).rules) :
           r = ImplicitRule \/ \E q \in Range(file.rules) : r = RuleOf(file, q)
<1> DEFINE rules == [i \in DOMAIN file.rules |-> RuleOf(file, file.rules[i])]
           passes == <<IF file.version \subseteq {FormatVersion} THEN {} ELSE {"UnsupportedVersion"},
                       IF NamesRepeat(rules) THEN {"DuplicateRuleName"} ELSE {},
                       CatchAllErrors(rules), ArityErrors(rules), ExhaustiveErrors(rules),
                       IF IsReserved(rules) THEN {"ReservedRuleName"} ELSE {}>>
<1>1. file.rules \in Seq(Range(file.rules))
  BY DEF IsRulesFile, Missing, Garbled
<1>2. Load(file).rules = WithImplicitRule(rules)
  <2> HIDE DEF rules, passes
  <2>1. Load(file) = IF SyntaxErrors(file) # {} THEN [error |-> SyntaxErrors(file)]
                     ELSE IF FirstError(passes) # {} THEN [error |-> FirstError(passes)]
                     ELSE [error |-> {}, rules |-> WithImplicitRule(rules),
                           diagnostics |-> file.diagnostics @@ DefaultDiagnostics]
    BY DEF Load, rules, passes
  <2> HIDE DEF passes
  <2> QED
    BY <2>1
<1>3. /\ Len(file.rules) \in Nat /\ DOMAIN rules = 1 .. Len(file.rules)
      /\ \A i \in DOMAIN rules : rules[i] = RuleOf(file, file.rules[i])
  BY <1>1
<1>4. \A r \in Range(rules) : \E q \in Range(file.rules) : r = RuleOf(file, q)
  BY DEF Range
<1> DEFINE n == Len(file.rules)
<1>5. rules \in Seq(Range(rules)) /\ Len(rules) = n
  <2>1. rules = [i \in 1 .. n |-> rules[i]] /\ \A i \in DOMAIN rules : rules[i] \in Range(rules)
    BY <1>3 DEF Range
  <2> HIDE DEF rules
  <2> QED
    BY <1>3, <2>1
<1> HIDE DEF rules
<1>6. Range(Append(rules, ImplicitRule)) \subseteq Range(rules) \cup {ImplicitRule}
  <2>1. /\ DOMAIN Append(rules, ImplicitRule) = 1 .. n + 1
        /\ \A i \in 1 .. n : Append(rules, ImplicitRule)[i] = rules[i]
        /\ Append(rules, ImplicitRule)[n + 1] = ImplicitRule
    BY <1>3, <1>5
  <2>2. 1 .. n + 1 = 1 .. n \cup {n + 1}
    BY <1>3
  <2> HIDE DEF n
  <2> QED
    BY <1>3, <2>1, <2>2 DEF Range, n
<1> QED
  BY <1>2, <1>4, <1>6 DEF WithImplicitRule

LEMMA ConfigHasLayerings ==
  ASSUME IsRulesFile(rulesFile), HasLayerings(rulesFile), LoadConfig.error = {}
  PROVE  AreLayerings(LoadConfig.rules)
<1>1. ImplicitRule.kind = "NoCycles"
  BY DEF ImplicitRule
<1>2. CASE Load(rulesFile).error = {"FileNotFound"} /\ ~options.explicit
  <2>1. LoadConfig.rules = <<ImplicitRule>>
    BY <1>2 DEF LoadConfig, Implicit
  <2>2. Range(<<ImplicitRule>>) = {ImplicitRule}
    BY DEF Range
  <2> QED
    BY <1>1, <2>1, <2>2 DEF AreLayerings
<1>3. CASE ~(Load(rulesFile).error = {"FileNotFound"} /\ ~options.explicit)
  <2>1. LoadConfig = Load(rulesFile)
    BY <1>3 DEF LoadConfig
  <2>2. rulesFile.is \notin {"missing", "garbled"}
    BY <2>1 DEF Load
  <2>3. AreLayerings(rulesFile.rules)
    BY <2>2 DEF HasLayerings, Missing, Garbled
  <2>4. ASSUME NEW q \in Range(rulesFile.rules), RuleOf(rulesFile, q).kind = "Layers"
        PROVE  IsLayering(RuleOf(rulesFile, q))
    <3>1. q.kind \in RuleKinds /\ DOMAIN q = RawRule \cup Params(q.kind)
      <4>1. rulesFile \notin {Missing, Garbled}
        BY <2>2 DEF Missing, Garbled
      <4> QED
        BY <4>1 DEF IsRulesFile
    <3>2. q.kind = "Layers" /\ {"kind", "layers", "direction"} \subseteq DOMAIN q \ {"retired"}
      BY <2>4, <3>1 DEF RuleOf, RawRule, Params, RuleKinds
    <3>3. RuleOf(rulesFile, q).layers = q.layers /\ RuleOf(rulesFile, q).direction = q.direction
      BY <3>2 DEF RuleOf
    <3> QED
      BY <2>3, <3>2, <3>3 DEF AreLayerings, IsLayering
  <2> QED
    BY <1>1, <2>1, <2>2, <2>4, RulesAreWritten DEF AreLayerings
<1> QED
  BY <1>2, <1>3

\* One dependency has one violation, of its edge.
IsJudged(rule, b, d, v) == Judge(rule, b, d).violations = {v} /\ v.detail.edge = <<d.source, d.target>>

LEMMA JudgedIsEdge ==
  ASSUME NEW rule, NEW b, NEW d
  PROVE  \E v : IsJudged(rule, b, d, v)
<1> DEFINE found(state, by, frozenFor) ==
             Violation(rule, state, by, EdgeDetail(d.source, d.target, frozenFor, d.via, d.locations))
<1>1. \A state, by, frozenFor : found(state, by, frozenFor).detail.edge = <<d.source, d.target>>
  BY DEF Violation, EdgeDetail
<1>2. \E state, by, frozenFor : Judge(rule, b, d).violations = {found(state, by, frozenFor)}
  BY DEF Judge, Result
<1> HIDE DEF found
<1> QED
  BY <1>1, <1>2 DEF IsJudged

EdgesIn(violations) == {v.detail.edge : v \in violations}

LEMMA LayersFindBroken ==
  ASSUME NEW rule, rule.kind = "Layers", NEW b
  PROVE  EdgesIn(CheckRule(rule, b).violations) = PairsOf(BrokenBy(rule, LayerIndex(rule.layers)))
<1>1. PICK D : D = BrokenBy(rule, LayerIndex(rule.layers))
  OBVIOUS
<1>2. CheckRule(rule, b) = CheckDependencies(rule, b, D)
  BY <1>1 DEF CheckRule, CheckLayers, BrokenBy, RejectedPairs
<1>3. CheckRule(rule, b).violations = UNION {r.violations : r \in {Judge(rule, b, d) : d \in D}}
  BY <1>2 DEF CheckDependencies, AllOf, Result
<1>4. CheckRule(rule, b).violations = UNION {Judge(rule, b, d).violations : d \in D}
  BY <1>3
<1> DEFINE judged(d) == CHOOSE v : IsJudged(rule, b, d, v)
<1>5. \A d : Judge(rule, b, d).violations = {judged(d)} /\ judged(d).detail.edge = <<d.source, d.target>>
  <2>1. \A d : IsJudged(rule, b, d, judged(d))
    BY JudgedIsEdge
  <2> HIDE DEF judged
  <2> QED
    BY <2>1 DEF IsJudged
<1> HIDE DEF judged
<1>6. UNION {Judge(rule, b, d).violations : d \in D} = {judged(d) : d \in D}
  <2>1. {Judge(rule, b, d).violations : d \in D} = {{judged(d)} : d \in D}
    BY <1>5
  <2> QED
    BY <2>1
<1>7. EdgesIn({judged(d) : d \in D}) = PairsOf(D)
  BY <1>5 DEF EdgesIn, PairsOf
<1> QED
  BY <1>1, <1>4, <1>6, <1>7

\* A rule's name tells its violations from those of the others.
ViolationsOf(violations, name) == {u \in violations : u.rule = name}

LEMMA ViolationsOfRule ==
  ASSUME NEW config, AreNamedApart(config.rules), NEW r \in Active(config), NEW base
  PROVE  ViolationsOf(ChecksOf(config, base).violations, r.name) = CheckRule(r, base).violations
<1>1. ChecksOf(config, base).violations = UNION {CheckRule(q, base).violations : q \in Active(config)}
  <2>1. ChecksOf(config, base).violations = UNION {c.violations : c \in {CheckRule(q, base) : q \in Active(config)}}
    BY DEF ChecksOf, AllOf, Result
  <2> QED
    BY <2>1
<1>2. \A q \in Active(config) : q.kind \in RuleKinds /\ (q.name = r.name => q = r)
  BY DEF AreNamedApart, IsRule, Active
<1>3. \A q \in Active(config) : \A v \in CheckRule(q, base).violations : v.rule = q.name
  BY <1>2, ViolationsAreOfRule
<1> QED
  BY <1>1, <1>2, <1>3 DEF ViolationsOf

IsOrdered(violations, r) ==
  LET index == LayerIndex(r.layers)
      found == EdgesIn(ViolationsOf(violations, r.name))
  IN  /\ \A p \in found : Rejects(r, index, p[1], p[2]) /\ Leads(ProductionPairs, p[1], p[2])
      /\ \A a, b \in DOMAIN index : Leads(ProductionPairs, a, b) /\ Rejects(r, index, a, b) =>
           \E p \in found : Leads(ProductionPairs, a, p[1]) /\ Leads(ProductionPairs, p[2], b)
      /\ DOMAIN index \subseteq DOMAIN nodes /\ \A p \in found : {p[1], p[2]} \subseteq DOMAIN index

Ordered(violations, config) ==
  \A r \in Active(config) : r.kind = "Layers" => IsOrdered(violations, r)

LEMMA ChecksAreOrdered ==
  ASSUME IsGraph, NEW config, AreNamedApart(config.rules), AreLayerings(config.rules), NEW base
  PROVE  Ordered(ChecksOf(config, base).violations, config)
<1> SUFFICES ASSUME NEW r \in Active(config), r.kind = "Layers"
             PROVE  IsOrdered(ChecksOf(config, base).violations, r)
  BY DEF Ordered
<1>1. IsLayering(r)
  BY DEF AreLayerings, Active
<1>2. PICK index : index = LayerIndex(r.layers)
  OBVIOUS
<1>3. PICK found : found = EdgesIn(ViolationsOf(ChecksOf(config, base).violations, r.name))
  OBVIOUS
<1>4. found = PairsOf(BrokenBy(r, index))
  BY <1>2, <1>3, ViolationsOfRule, LayersFindBroken
<1>5. DOMAIN index \subseteq DOMAIN nodes
  BY <1>1, <1>2, IndexIsPlace DEF IsLayering
<1>6. \A p \in found : /\ p[1] \in DOMAIN index /\ p[2] \in DOMAIN index
                       /\ Rejects(r, index, p[1], p[2]) /\ Leads(ProductionPairs, p[1], p[2])
  BY <1>4, <1>5, BrokenPairs
<1>7. \A a, b \in DOMAIN index : Leads(ProductionPairs, a, b) /\ Rejects(r, index, a, b) =>
        \E p \in found : Leads(ProductionPairs, a, p[1]) /\ Leads(ProductionPairs, p[2], b)
  BY <1>1, <1>2, <1>4, OrderIsBroken
<1> QED
  BY <1>2, <1>3, <1>5, <1>6, <1>7 DEF IsOrdered

LEMMA CheckIsOrdered ==
  ASSUME IsGraph, NEW config, AreNamedApart(config.rules), AreLayerings(config.rules), NEW baseline,
         CheckOutcome(config, baseline).error = {}
  PROVE  Ordered(CheckOutcome(config, baseline).violations, config)
<1> DEFINE run == CheckAll(config, baseline.entries)
<1>1. config.error = {} /\ baseline.error = {}
  BY DEF CheckOutcome, Failed
<1>2. CheckOutcome(config, baseline) = IF run.error # {} THEN Failed("check", run.error) ELSE Outcome(config, run)
  BY <1>1 DEF CheckOutcome
<1> HIDE DEF run
<1>3. run.error = {} /\ CheckOutcome(config, baseline) = Outcome(config, run)
  BY <1>2 DEF Failed
<1>4. run.result = ChecksOf(config, baseline.entries)
  <2>1. \A q \in Active(config) : q.kind = "Layers" => Overlaps(q.layers) = {}
    BY <1>3 DEF run, CheckAll
  <2> QED
    BY <2>1, CheckOfAll DEF run
<1>5. CheckOutcome(config, baseline).violations = ChecksOf(config, baseline.entries).violations
  BY <1>3, <1>4 DEF Outcome
<1> QED
  BY <1>5, ChecksAreOrdered

OrderInv == Checked => Ordered(outcome.violations, LoadConfig)

LEMMA OrderedStays ==
  ASSUME GraphStays, NEW violations, NEW config, Ordered(violations, config)
  PROVE  Ordered(violations, config)'
<1>1. ProductionPairs' = ProductionPairs
  BY EdgesStay DEF ProductionPairs
<1> SUFFICES ASSUME NEW r \in Active(config), r.kind = "Layers"
             PROVE  IsOrdered(violations, r)'
  BY DEF Ordered, Active
<1>2. IsOrdered(violations, r)
  BY DEF Ordered
<1>3. LayerIndex(r.layers)' = LayerIndex(r.layers)
  BY LayersStay
<1>4. DOMAIN nodes' = DOMAIN nodes
  BY DEF GraphStays
<1>5. \A index, a, b : Rejects(r, index, a, b)' <=> Rejects(r, index, a, b)
  BY DEF Rejects
<1>6. \A a, b : Leads(ProductionPairs, a, b)' <=> Leads(ProductionPairs, a, b)
  BY <1>1 DEF Leads
<1> QED
  BY <1>2, <1>3, <1>4, <1>5, <1>6 DEF IsOrdered

LEMMA OrderWill ==
  ASSUME UNCHANGED <<nodes, edges, options, rulesFile>>,
         NEW violations, violations = outcome'.violations, Ordered(violations, LoadConfig)
  PROVE  OrderInv'
<1>1. PICK config : config = LoadConfig
  OBVIOUS
<1>2. Ordered(violations, config)'
  BY <1>1, OrderedStays DEF GraphStays
<1>3. config = LoadConfig'
  BY <1>1 DEF LoadConfig
<1>4. Ordered(outcome.violations, LoadConfig)'
  BY <1>2, <1>3
<1> QED
  BY <1>4 DEF OrderInv

LEMMA OrderCheck ==
  ASSUME NamesDiffer, CheckInv, Check
  PROVE  OrderInv'
<1> SUFFICES ASSUME Checked' PROVE OrderInv'
  BY DEF OrderInv
<1>1. PICK config, baseline : config = LoadConfig /\ baseline = LoadBaseline(baselineFile)
  OBVIOUS
<1>2. outcome' = CheckOutcome(config, baseline) /\ CheckOutcome(config, baseline).error = {}
  BY <1>1 DEF Check, Checked
<1>3. config.error = {}
  BY <1>2 DEF CheckOutcome, Failed
<1>4. IsGraph /\ AreNamedApart(config.rules) /\ AreLayerings(config.rules)
  BY <1>1, <1>3, ProjectIsGraph, ProjectHasLayerings, ConfigIsNamedApart, ConfigHasLayerings
<1>5. PICK violations : violations = CheckOutcome(config, baseline).violations
  OBVIOUS
<1>6. Ordered(violations, LoadConfig)
  BY <1>1, <1>2, <1>4, <1>5, CheckIsOrdered
<1> QED
  BY <1>2, <1>5, <1>6, OrderWill DEF Check, Command

LEMMA OrderIdle ==
  ASSUME OrderInv, UNCHANGED checkVars
  PROVE  OrderInv'
<1>1. CASE ~Checked
  BY <1>1 DEF checkVars, Checked, OrderInv
<1>2. CASE Checked
  <2>1. PICK violations : violations = outcome.violations /\ violations = outcome'.violations
    BY DEF checkVars
  <2> QED
    BY <1>2, <2>1, OrderWill DEF OrderInv, checkVars
<1> QED
  BY <1>1, <1>2

LEMMA OrderStep ==
  ASSUME NamesDiffer, CheckInv, OrderInv, CommandNext
  PROVE  OrderInv'
<1>1. ~Checked' => OrderInv'
  BY DEF OrderInv
<1>2. GenerateBaseline \/ EditCode \/ EditRules => ~Checked'
  BY WrittenIsBaseline DEF EditCode, EditRules, Change, NoOutcome, Checked
<1> QED
  BY <1>1, <1>2, CommandKinds, OrderCheck, OrderIdle

LEMMA OrderIsEnough ==
  ASSUME OrderInv
  PROVE  OrderIsChecked
<1> DEFINE leads == {<<e.src, e.dst>> : e \in ProductionEdges}
           reach == [n \in DOMAIN nodes |-> ReachedFrom({n}, leads)]
           foundBy(r) == {v.detail.edge : v \in {u \in outcome.violations : u.rule = r.name}}
<1> SUFFICES ASSUME Checked, NEW r \in CheckedRules("Layers"), NEW index, index = LayerIndex(r.layers)
             PROVE  /\ \A p \in foundBy(r) : Rejects(r, index, p[1], p[2]) /\ p[2] \in reach[p[1]]
                    /\ \A a, b \in DOMAIN index : b \in reach[a] /\ Rejects(r, index, a, b) =>
                         \E p \in foundBy(r) : p[1] \in reach[a] /\ b \in reach[p[2]]
  BY DEF OrderIsChecked
<1>1. IsOrdered(outcome.violations, r)
  BY DEF OrderInv, Ordered, CheckedRules
<1>2. leads = ProductionPairs
  BY DEF ProductionPairs
<1>3. foundBy(r) = EdgesIn(ViolationsOf(outcome.violations, r.name))
  BY DEF EdgesIn, ViolationsOf
<1>4. \A a \in DOMAIN nodes : \A b : b \in reach[a] <=> Leads(ProductionPairs, a, b)
  BY <1>2 DEF Leads
<1> HIDE DEF reach, foundBy, leads
<1> QED
  BY <1>1, <1>3, <1>4 DEF IsOrdered

(***************************************************************************)
(* Wherever a dependency leads against the order of layers, on whatever     *)
(* way, a check finds a broken pair on that way, and finds no other,        *)
(* whatever the rules, the code and the baseline are: a route may stop at   *)
(* a layered node because the order is total and the walk goes on from it   *)
(* (check_layers).                                                          *)
(***************************************************************************)
THEOREM OrderIsCheckedHolds ==
  ASSUME NamesDiffer
  PROVE  CommandSpec => []OrderIsChecked
<1>1. CommandInit => CheckInv /\ OrderInv
  <2>1. CommandInit => ~Checked
    BY DEF CommandInit, CheckInit, Checked, NoOutcome
  <2> QED
    BY <2>1, CheckInvAtFirst DEF OrderInv
<1>2. CheckInv /\ OrderInv /\ [CommandNext]_commandVars => (CheckInv /\ OrderInv)'
  <2>1. CASE UNCHANGED commandVars
    BY <2>1, IdleStep, OrderIdle DEF commandVars
  <2>2. CASE CommandNext
    BY <2>2, CommandStep, OrderStep
  <2> QED
    BY <2>1, <2>2
<1>3. OrderInv => OrderIsChecked
  BY OrderIsEnough
<1> QED
  BY <1>1, <1>2, <1>3, PTL DEF CommandSpec

-----------------------------------------------------------------------------
\* Dependencies have numbers for nodes and symbols to count.
IsCounted ==
  /\ DOMAIN nodes \subseteq Nat /\ IsFiniteSet(DOMAIN nodes)
  /\ edges \in Seq(EdgeSet)
  /\ \A e \in EdgeSet :
       {e.src, e.dst} \subseteq DOMAIN nodes /\ IsFiniteSet(UNION {l.symbols : l \in e.locations})

LEMMA ProjectIsCounted ==
  ASSUME CodeIsOfProject
  PROVE  IsCounted /\ IsRulesFile(rulesFile)
<1>1. IsProject(project)
  BY CheckAssumption DEF CodeIsOfProject
<1>2. PICK code \in project.codes : nodes = code.nodes /\ edges = code.edges
  BY DEF CodeIsOfProject
<1>3. IsCounted
  BY <1>1, <1>2 DEF IsProject, IsCounted, EdgeSet
<1>4. IsRulesFile(rulesFile)
  BY <1>1 DEF IsProject, CodeIsOfProject, IsRulesFile
<1> QED
  BY <1>3, <1>4

\* What crosses an edge is told by one edge of the graph.
LEMMA SymbolsOfEdgesAreCounted ==
  ASSUME IsCounted, NEW p
  PROVE  Symbols(p) \in Nat
<1> DEFINE found == {f \in FindEdge(p[1], p[2]) : f.weight = "ModuleDep"}
           locations == UNION {e.locations : e \in found}
           named == SymbolsOf(p[1], p[2]).named
<1>1. ASSUME NEW e \in found PROVE e \in EdgeSet /\ found = {e}
  <2> DEFINE places == {i \in DOMAIN edges : edges[i].src = p[1] /\ edges[i].dst = p[2]}
  <2>1. DOMAIN edges = 1 .. Len(edges) /\ Len(edges) \in Nat
    BY DEF IsCounted
  <2>2. places # {} /\ e = edges[Max(places)] /\ \A f \in found : f = edges[Max(places)]
    BY DEF FindEdge
  <2>3. places \subseteq Nat /\ places \subseteq DOMAIN edges /\ IsFiniteSet(places)
    <3>1. places \in SUBSET (1 .. Len(edges)) /\ IsFiniteSet(1 .. Len(edges))
      BY <2>1, FS_Interval
    <3> QED
      BY <2>1, <3>1, FS_Subset
  <2> HIDE DEF places
  <2>4. Max(places) \in DOMAIN edges
    BY <2>2, <2>3, MaxOfFinite
  <2> QED
    BY <2>2, <2>4 DEF EdgeSet, Range
<1>2. IsFiniteSet(UNION {l.symbols : l \in locations})
  <2>1. CASE found = {}
    <3>1. UNION {l.symbols : l \in locations} = {}
      BY <2>1
    <3> QED
      BY <3>1, FS_EmptySet
  <2>2. CASE found # {}
    <3>1. PICK e : e \in found
      BY <2>2
    <3>2. e \in EdgeSet /\ found = {e}
      BY <1>1, <3>1
    <3>3. locations = e.locations
      BY <3>2
    <3> QED
      BY <3>2, <3>3 DEF IsCounted
  <2> QED
    BY <2>1, <2>2
<1>3. SymbolsOf(p[1], p[2]) = EdgeSymbols(locations)
  BY DEF SymbolsOf
<1> HIDE DEF locations
<1>4. named \in SUBSET UNION {l.symbols : l \in locations}
  BY <1>3 DEF EdgeSymbols
<1>5. Cardinality(named) \in Nat
  <2> HIDE DEF named
  <2> QED
    BY <1>2, <1>4, FS_Subset, FS_CardinalityType
<1>6. Symbols(p) = Cardinality(named) + (IF SymbolsOf(p[1], p[2]).bare THEN 1 ELSE 0)
  BY DEF Symbols, Size
<1> HIDE DEF named
<1> QED
  BY <1>5, <1>6

LEMMA ScopeIsNumbered ==
  ASSUME IsCounted, NEW rule
  PROVE  IsNumbered(Scope(rule)) /\ IsNumbered(LeftFor(rule))
<1> DEFINE R == Scope(rule)
           N == DOMAIN nodes
<1>1. R \subseteq ProductionSubgraph(options.reexports)
  BY DEF Scope, Within
<1>2. \A p \in ProductionSubgraph(options.reexports) : p = <<p[1], p[2]>> /\ p[1] \in N /\ p[2] \in N
  <2> SUFFICES ASSUME NEW p \in ProductionSubgraph(options.reexports)
               PROVE  p = <<p[1], p[2]>> /\ p[1] \in N /\ p[2] \in N
    OBVIOUS
  <2>1. PICK e \in EdgeSet : p = <<e.src, e.dst>>
    BY DEF ProductionSubgraph
  <2>2. e.src \in N /\ e.dst \in N
    BY DEF IsCounted
  <2> QED
    BY <2>1, <2>2
<1> HIDE DEF R, N
<1>3. R \in SUBSET (N \X N)
  <2> SUFFICES ASSUME NEW p \in R PROVE p \in N \X N
    OBVIOUS
  <2> QED
    BY <1>1, <1>2
<1>4. N \subseteq Nat /\ IsFiniteSet(N \X N)
  BY FS_Product DEF IsCounted, N
<1>5. R \subseteq Nat \X Nat /\ IsFiniteSet(R)
  BY <1>3, <1>4, FS_Subset
<1>6. IsNumbered(R)
  BY <1>5, SymbolsOfEdgesAreCounted DEF IsNumbered
<1>7. LeftFor(rule) \in SUBSET R
  BY DEF LeftFor, R
<1> QED
  BY <1>6, <1>7, NumberedAreEdges DEF R

\* The edges on cycles, and those that lie on cycles together with p.
LEMMA OnCyclesAre ==
  ASSUME NEW R, IsEdgeSet(R)
  PROVE  OnCycles(R) = {p \in R : Leads(R, p[2], p[1])}
<1>1. ASSUME NEW p \in R, Leads(R, p[2], p[1]) PROVE p \in OnCycles(R)
  BY <1>1, CircularIsWithin DEF IsEdgeSet, OnCycles
<1>2. ASSUME NEW p \in OnCycles(R) PROVE p \in R /\ Leads(R, p[2], p[1])
  <2>1. PICK scc \in Sccs(R) : p \in Within(R, scc)
    BY DEF OnCycles
  <2> QED
    BY <2>1, BetweenIsInside DEF Within, IsEdgeSet
<1> QED
  BY <1>1, <1>2

AroundOf(R, p) == {q \in OnCycles(R) : Leads(R, p[1], q[1]) /\ Leads(R, q[2], p[1])}

LEMMA AroundIsComponent ==
  ASSUME NEW R, IsEdgeSet(R), NEW scc \in Sccs(R), NEW p \in Within(R, scc)
  PROVE  AroundOf(R, p) = Within(R, scc)
<1>0. IsFiniteSet(Targets(R)) /\ p[1] \in scc
  BY DEF IsEdgeSet, Within
<1>1. ASSUME NEW q \in OnCycles(R), Leads(R, p[1], q[1]), Leads(R, q[2], p[1]) PROVE q \in Within(R, scc)
  <2>1. q \in R /\ Leads(R, q[1], q[2])
    BY <1>0, OnCyclesAre, LeadsOnward
  <2>2. Leads(R, q[1], p[1]) /\ Leads(R, p[1], q[2])
    BY <1>0, <1>1, <2>1, LeadsOnward
  <2>3. q[1] \in scc /\ q[2] \in scc
    BY <1>0, <1>1, <2>2, BetweenIsInside
  <2> QED
    BY <2>1, <2>3 DEF Within
<1>2. ASSUME NEW q \in Within(R, scc) PROVE q \in AroundOf(R, p)
  <2>1. q \in OnCycles(R) /\ q[1] \in scc /\ q[2] \in scc
    BY DEF OnCycles, Within
  <2> QED
    BY <1>0, <2>1, BetweenIsInside DEF AroundOf
<1> QED
  BY <1>1, <1>2 DEF AroundOf

LEMMA ComponentCyclesCover ==
  ASSUME NEW R, IsNumbered(R), NEW cycles, cycles = RepresentativeCycles(R), NEW scc \in Sccs(R)
  PROVE  \A e \in Within(R, scc) : \E x \in CyclesWithin(cycles, scc) : e \in CycleEdges(x)
<1> SUFFICES ASSUME NEW e \in Within(R, scc)
             PROVE  \E x \in CyclesWithin(cycles, scc) : e \in CycleEdges(x)
  OBVIOUS
<1>1. PICK x : x = Representative(R, scc, e)
  OBVIOUS
<1>2. IsCycle(x) /\ CycleEdges(x) \subseteq Within(R, scc) /\ e \in CycleEdges(x)
  BY <1>1, RepresentativeIsCycle, NumberedAreEdges
<1>3. x \in cycles
  BY <1>1, RepresentativesAre
<1>4. x[1] \in scc
  <2>1. 1 \in DOMAIN x
    BY <1>2 DEF IsCycle
  <2>2. x[1] \in {f[1] : f \in CycleEdges(x)}
    BY <1>2, <2>1, NodesOfEdges DEF Range
  <2> QED
    BY <1>2, <2>2 DEF Within
<1> QED
  BY <1>2, <1>3, <1>4 DEF CyclesWithin

\* A tangle is tolerated if and only if all of its edges are.
LEMMA ToleratedIsCovered ==
  ASSUME NEW R, IsNumbered(R), NEW cycles, cycles = RepresentativeCycles(R),
         NEW scc \in Sccs(R), NEW tolerated, NEW c, c = ClusterOf(R, cycles, scc, tolerated)
  PROVE  c.tolerated <=> Within(R, scc) \subseteq tolerated
<1>1. c.tolerated = (Untolerated(CyclesWithin(cycles, scc), tolerated) = {})
  BY ClusterIs
<1>2. \A e \in Within(R, scc) : \E x \in CyclesWithin(cycles, scc) : e \in CycleEdges(x)
  BY ComponentCyclesCover
<1>3. \A x \in CyclesWithin(cycles, scc) : CycleEdges(x) \subseteq Within(R, scc)
  BY RepresentativeIsInside DEF CyclesWithin
<1>4. Untolerated(CyclesWithin(cycles, scc), tolerated) = {} <=>
        \A x \in CyclesWithin(cycles, scc) : CycleEdges(x) \subseteq tolerated
  BY DEF Untolerated
<1>5. Within(R, scc) \subseteq tolerated <=> \A x \in CyclesWithin(cycles, scc) : CycleEdges(x) \subseteq tolerated
  BY <1>2, <1>3
<1> QED
  BY <1>1, <1>4, <1>5

\* Where all cycles count, the edges that a tangle is named by break them.
LEMMA NamedEdgesBreak ==
  ASSUME NEW R, IsNumbered(R), NEW cycles, cycles = RepresentativeCycles(R),
         NEW scc \in Sccs(R), NEW tolerated, NEW c, c = ClusterOf(R, cycles, scc, tolerated),
         c.countsEveryCycle, NEW report, NEW d, d = ClusterDetail(report, c)
  PROVE  Acyclic(Within(R, scc) \ ListedEdges(d.edges))
<1> DEFINE named == CHOOSE cycle \in c.cycles : TRUE
<1>1. d.edges = IF Cardinality(c.cycles) = 1 THEN Ranked(CycleEdges(named), EdgeCycles(c.cycles)) ELSE c.feedback
  BY DEF ClusterDetail
<1>2. BreaksCycles(R, cycles, tolerated, c) /\ IsFiniteSet(c.cycles) /\ c.nodes = scc
  BY ClusterBreaksCycles
<1>3. CASE Cardinality(c.cycles) # 1
  BY <1>1, <1>2, <1>3 DEF BreaksCycles
<1>4. CASE Cardinality(c.cycles) = 1
  <2>1. c.cycles = CyclesWithin(cycles, scc)
    <3>1. PICK counted, every : counted = CountedOf(cycles, scc, tolerated) /\ every = CountsEvery(cycles, scc, tolerated)
      OBVIOUS
    <3>2. c.cycles = counted /\ every
      BY <3>1, ClusterIs
    <3> QED
      BY <3>1, <3>2 DEF CountedOf, CountsEvery
  <2>2. c.cycles = {named}
    <3>1. PICK x : c.cycles = {x}
      BY <1>2, <1>4, FS_Singleton
    <3> QED
      BY <3>1
  <2> HIDE DEF named
  <2>3. Within(R, scc) \subseteq CycleEdges(named)
    <3>1. \A e \in Within(R, scc) : \E x \in c.cycles : e \in CycleEdges(x)
      BY <2>1, ComponentCyclesCover
    <3> QED
      BY <2>2, <3>1
  <2>4. c.cycles \subseteq cycles /\ \A x \in c.cycles : CycleEdges(x) \subseteq R /\ CycleEdges(x) # {}
    BY <2>1, RepresentativeIsInside DEF CyclesWithin
  <2>5. IsCoverage(EdgeCycles(c.cycles))
    BY <1>2, <2>4, CoverBreaksCycles
  <2>6. CycleEdges(named) \subseteq R
    BY <2>2, <2>4
  <2>7. ListedEdges(d.edges) = CycleEdges(named)
    BY <1>1, <1>4, <2>5, <2>6, RankedListsAll
  <2>8. Within(R, scc) \ ListedEdges(d.edges) = {}
    BY <2>3, <2>7
  <2>9. Acyclic({})
    BY DEF Acyclic, Sccs
  <2> QED
    BY <2>8, <2>9
<1> QED
  BY <1>3, <1>4

\* Every edge of a cycle lies on it.
LEMMA CycleGoesRound ==
  ASSUME NEW x, IsCycle(x)
  PROVE  Circular(CycleEdges(x)) = CycleEdges(x)
<1> DEFINE E == CycleEdges(x)
           n == Len(x)
<1>1. n \in Nat \ {0} /\ DOMAIN x = 1 .. n /\ \A i \in 1 .. n : x[i] \in Nat
  BY DEF IsCycle, Range
<1>2. E = {<<x[i], x[Around(n, i)]>> : i \in 1 .. n}
  BY <1>1, EdgesAround
<1>3. \A i \in 1 .. n : Around(n, i) \in 1 .. n
  <2> HIDE DEF n
  <2> QED
    BY <1>1 DEF Around
<1>4. IsFiniteSet(Targets(E))
  <2> DEFINE f == [i \in 1 .. n |-> x[Around(n, i)]]
  <2>1. Targets(E) = Range(f)
    <3>1. Targets(E) = {p[2] : p \in E}
      BY DEF Targets
    <3>2. Targets(E) = {x[Around(n, i)] : i \in 1 .. n}
      <4> HIDE DEF E, n
      <4>1. \A p \in E : \E i \in 1 .. n : p[2] = x[Around(n, i)]
        BY <1>2
      <4>2. ASSUME NEW i \in 1 .. n PROVE x[Around(n, i)] \in {p[2] : p \in E}
        <5>1. <<x[i], x[Around(n, i)]>> \in E
          BY <1>2
        <5> QED
          BY <5>1
      <4> QED
        BY <3>1, <4>1, <4>2
    <3> QED
      BY <3>2 DEF Range
  <2>2. DOMAIN f = 1 .. n
    OBVIOUS
  <2> HIDE DEF f, n
  <2>3. IsFiniteSet(1 .. n)
    BY <1>1, FS_Interval
  <2> QED
    BY <2>1, <2>2, <2>3, ImageIsFinite
<1> HIDE DEF E, n
<1>5. ASSUME NEW C, IsClosed(E, C), NEW a \in 1 .. n, x[a] \in C, NEW b \in 1 .. n
      PROVE  x[b] \in C
  <2> DEFINE J == {i \in 1 .. n : x[i] \in C}
  <2>1. \A i \in J : Around(n, i) \in J
    <3> SUFFICES ASSUME NEW i \in J PROVE Around(n, i) \in J
      OBVIOUS
    <3>1. <<x[i], x[Around(n, i)]>> \in E
      BY <1>2
    <3>2. x[Around(n, i)] \in C
      BY <1>5, <3>1 DEF IsClosed
    <3> QED
      BY <1>3, <3>2
  <2>2. a \in J /\ J \subseteq 1 .. n
    BY <1>5
  <2>3. n \in J
    <3>1. IsFiniteSet(J) /\ J \subseteq Nat
      <4>1. IsFiniteSet(1 .. n)
        BY <1>1, FS_Interval
      <4>2. \A i \in 1 .. n : i \in Nat
        OBVIOUS
      <4> HIDE DEF J
      <4> QED
        BY <2>2, <4>1, <4>2, FS_Subset
    <3> HIDE DEF J
    <3>2. Max(J) \in J /\ \A k \in J : k <= Max(J)
      BY <2>2, <3>1, MaxOfFinite
    <3> DEFINE m == Max(J)
    <3>3. m \in 1 .. n /\ Around(n, m) <= m
      BY <2>1, <2>2, <3>2
    <3> HIDE DEF m
    <3>4. m = n
      BY <1>1, <3>3 DEF Around
    <3> QED
      BY <3>2, <3>4 DEF m
  <2>4. 1 .. n \subseteq J
    <3> DEFINE rest == (1 .. n) \ J
    <3>1. SUFFICES ASSUME rest # {} PROVE FALSE
      OBVIOUS
    <3> HIDE DEF J
    <3>2. PICK m \in rest : \A k \in rest : m <= k
      <4>1. rest \subseteq Nat
        OBVIOUS
      <4> QED
        BY <3>1, <4>1, Reach!LeastNatural
    <3>3. CASE m = 1
      <4>1. Around(n, n) = 1
        BY DEF Around
      <4> QED
        BY <2>1, <2>3, <3>2, <3>3, <4>1
    <3>4. CASE m # 1
      <4>1. m - 1 \in 1 .. n /\ m - 1 \notin rest
        BY <1>1, <3>2, <3>4
      <4>2. m - 1 \in J
        BY <4>1
      <4>3. Around(n, m - 1) = m
        BY <1>1, <3>2, <4>1 DEF Around
      <4> QED
        BY <2>1, <3>2, <4>2, <4>3
    <3> QED
      BY <3>3, <3>4
  <2> QED
    BY <2>4
<1>6. ASSUME NEW p \in E PROVE p[1] \in ReachedFrom({p[2]}, E)
  <2>1. PICK i \in 1 .. n : p = <<x[i], x[Around(n, i)]>>
    BY <1>2
  <2>2. IsClosed(E, ReachedFrom({p[2]}, E)) /\ p[2] \in ReachedFrom({p[2]}, E)
    BY <1>4, ReachedIsLeast
  <2>3. x[Around(n, i)] \in ReachedFrom({p[2]}, E)
    BY <2>1, <2>2
  <2>4. Around(n, i) \in 1 .. n
    BY <1>3
  <2>5. x[i] \in ReachedFrom({p[2]}, E)
    BY <1>5, <2>2, <2>3, <2>4
  <2> QED
    BY <2>1, <2>5
<1> QED
  BY <1>6 DEF Circular, E

\* A representative cycle within a component.
LEMMA RepresentativeGoesRound ==
  ASSUME NEW R, IsNumbered(R), NEW x \in RepresentativeCycles(R)
  PROVE  IsCycle(x)
<1>1. PICK t \in Sccs(R) : \E p \in Within(R, t) : x = Representative(R, t, p)
  BY RepresentativesAre
<1> QED
  BY <1>1, RepresentativeIsCycle, NumberedAreEdges

\* What the table of a tangle says of its cycles.
LEMMA TangleHasTable ==
  ASSUME NEW R, IsNumbered(R), NEW cycles, cycles = RepresentativeCycles(R),
         NEW scc \in Sccs(R), NEW tolerated, NEW c, c = ClusterOf(R, cycles, scc, tolerated),
         NEW report, NEW d, d = ClusterDetail(report, c)
  PROVE  /\ IsRanking(d.edges)
         /\ d.members # <<>> => /\ ListedEdges(d.edges) \subseteq Within(R, scc)
                                /\ Circular(ListedEdges(d.edges)) = ListedEdges(d.edges)
         /\ ~d.countsEveryCycle => Within(R, scc) \cap tolerated # {}
<1> DEFINE named == CHOOSE cycle \in c.cycles : TRUE
<1>1. /\ d.edges = IF Cardinality(c.cycles) = 1 THEN Ranked(CycleEdges(named), EdgeCycles(c.cycles)) ELSE c.feedback
      /\ d.members = IF Cardinality(c.cycles) = 1 THEN named ELSE <<>>
      /\ d.countsEveryCycle = c.countsEveryCycle
  BY DEF ClusterDetail
<1>2. IsRanking(c.feedback) /\ IsFiniteSet(c.cycles)
  BY ClusterBreaksCycles
<1>3. PICK counted, every : counted = CountedOf(cycles, scc, tolerated) /\ every = CountsEvery(cycles, scc, tolerated)
  OBVIOUS
<1>4. c.cycles = counted /\ c.countsEveryCycle = every
  BY <1>3, ClusterIs
<1>5. ASSUME NEW x \in CyclesWithin(cycles, scc)
      PROVE  x \in cycles /\ IsCycle(x) /\ CycleEdges(x) \subseteq Within(R, scc) /\ CycleEdges(x) # {}
  <2>1. x \in cycles /\ x[1] \in scc
    BY DEF CyclesWithin
  <2> QED
    BY <2>1, RepresentativeIsInside, RepresentativeGoesRound
<1>6. counted \subseteq CyclesWithin(cycles, scc)
  BY <1>3 DEF CountedOf, Untolerated
<1>7. ASSUME ~d.countsEveryCycle PROVE Within(R, scc) \cap tolerated # {}
  <2>1. ~every
    BY <1>1, <1>4, <1>7
  <2>2. PICK x \in CyclesWithin(cycles, scc) : CycleEdges(x) \subseteq tolerated
    BY <1>3, <2>1 DEF CountsEvery, Untolerated
  <2> QED
    BY <1>5, <2>2
<1>8. CASE Cardinality(c.cycles) = 1
  <2>1. c.cycles = {named}
    <3>1. PICK x : c.cycles = {x}
      BY <1>2, <1>8, FS_Singleton
    <3> QED
      BY <3>1
  <2> HIDE DEF named
  <2>2. IsCycle(named) /\ CycleEdges(named) \subseteq Within(R, scc)
    BY <1>4, <1>5, <1>6, <2>1
  <2>3. c.cycles \subseteq cycles /\ \A x \in c.cycles : CycleEdges(x) \subseteq R /\ CycleEdges(x) # {}
    <3>1. Within(R, scc) \subseteq R
      BY DEF Within
    <3> QED
      BY <1>4, <1>5, <1>6, <3>1
  <2>4. IsCoverage(EdgeCycles(c.cycles))
    BY <1>2, <2>3, CoverBreaksCycles
  <2>5. CycleEdges(named) \subseteq R
    BY <2>1, <2>3
  <2>6. ListedEdges(d.edges) = CycleEdges(named) /\ IsRanking(d.edges)
    BY <1>1, <1>8, <2>4, <2>5, RankedListsAll
  <2> QED
    BY <1>7, <2>2, <2>6, CycleGoesRound
<1>9. CASE Cardinality(c.cycles) # 1
  BY <1>1, <1>2, <1>7, <1>9
<1> QED
  BY <1>8, <1>9

\* What a check says of the edges on cycles of a rule's scope.
SaysFrozen(frozen, rule, p) ==
  \E x \in frozen : SameKey(x, EdgeEntry(rule, p)) /\ CoversSymbols(x.symbols, EdgeEntry(rule, p).symbols)

TanglesOf(found) == {v \in found : v.detail.is = "cluster"}
Holding(found, p) == {v \in TanglesOf(found) : {p[1], p[2]} \subseteq v.detail.nodes}

\* The table of a tangle: its order, and what is said of the edges it lists.
IsTable(detail, tangle, rule, frozen) ==
  /\ IsRanking(detail.edges)
  /\ detail.members # <<>> => /\ ListedEdges(detail.edges) \subseteq tangle
                             /\ Circular(ListedEdges(detail.edges)) = ListedEdges(detail.edges)
  /\ ~detail.countsEveryCycle => \E p \in tangle : SaysFrozen(frozen, rule, p)

\* The same of a scope and of what the allowed edges leave of it.
JudgedOver(found, scope, left, rule, frozen) ==
  /\ {v.detail.edge : v \in {u \in found : u.state = "Allowed"}} = OnCycles(scope) \ left
  /\ \A p \in OnCycles(left) :
       /\ Cardinality(Holding(found, p)) = 1
       /\ \A v \in Holding(found, p) :
            v.state = "Frozen" <=> \A q \in AroundOf(left, p) : SaysFrozen(frozen, rule, q)
  /\ \A v \in TanglesOf(found) : v.detail.countsEveryCycle =>
       Acyclic(Within(left, v.detail.nodes) \ ListedEdges(v.detail.edges))
  /\ \A v \in TanglesOf(found) : IsTable(v.detail, Within(left, v.detail.nodes), rule, frozen)
AreJudged(found, rule, frozen) == JudgedOver(found, Scope(rule), LeftFor(rule), rule, frozen)

TangleFound(rule, report, c) ==
  Violation(rule, IF c.tolerated THEN "Frozen" ELSE "Reported", NoName, ClusterDetail(report, c))

LEMMA TangleIs ==
  ASSUME NEW rule, NEW report, NEW c, NEW v, v = TangleFound(rule, report, c)
  PROVE  /\ v.detail = ClusterDetail(report, c) /\ v.detail.is = "cluster"
         /\ v.detail.nodes = c.nodes /\ v.detail.countsEveryCycle = c.countsEveryCycle
         /\ v.state \in {"Frozen", "Reported"} /\ (v.state = "Frozen" <=> c.tolerated)
BY DEF TangleFound, Violation, ClusterDetail

\* The violations of the rule: of the exempt edges, of the tangles, and of the
\* edges that outgrew their entry.
MadeOf(rule, base, allowed, tangles, grown) ==
  /\ CheckRule(rule, base).violations = allowed \cup tangles \cup grown
  /\ allowed = {AllowedOnCycle(rule, p) : p \in AllowedEdges(rule) \cap OnCycles(Scope(rule))}
  /\ tangles = {TangleFound(rule, ReportFor(rule, base), c) : c \in ClustersFor(rule, base)}
  /\ \A v \in grown : v.detail.is = "edge" /\ v.state = "Reported"

LEMMA FoundOnCycles ==
  ASSUME NEW rule, rule.kind = "NoCycles", NEW base
  PROVE  \E allowed, tangles, grown : MadeOf(rule, base, allowed, tangles, grown)
<1> DEFINE R == LeftFor(rule)
           on == OnCycles(R)
           covered == CoveredFor(rule, base)
           frozen == [p \in on |-> FrozenFor(base, EdgeEntry(rule, p))]
           left == CyclesIn(rule, R, covered, frozen)
           allowed == {AllowedOnCycle(rule, p) : p \in AllowedEdges(rule) \cap OnCycles(Scope(rule))}
           exempt == Result(allowed, {}, {})
           pairs == {p \in on : frozen[p] # {}} \ covered
           grown == {EdgeViolation(rule, p, "Reported", NoName, frozen[p]) : p \in pairs}
           tangles == ClusterViolations(rule, ClustersFor(rule, base), ReportFor(rule, base))
<1>1. CheckRule(rule, base) = AllOf({exempt, left})
  BY DEF CheckRule, CheckCycles, LeftFor, CoveredFor
<1>2. left.violations = tangles \cup grown
  BY DEF CyclesIn, Result, ClustersFor, ReportFor
<1>3. exempt.violations = allowed
  BY DEF Result
<1>4. \A v \in grown : v.detail.is = "edge" /\ v.state = "Reported"
  BY DEF EdgeViolation, Violation, EdgeDetail
<1>5. tangles = {TangleFound(rule, ReportFor(rule, base), c) : c \in ClustersFor(rule, base)}
  BY DEF ClusterViolations, TangleFound
<1> HIDE DEF left, exempt, grown, tangles
<1>6. AllOf({exempt, left}).violations = exempt.violations \cup left.violations
  <2>1. UNION {x.violations : x \in {exempt, left}} = exempt.violations \cup left.violations
    OBVIOUS
  <2> QED
    BY <2>1 DEF AllOf, Result
<1>7. CheckRule(rule, base).violations = allowed \cup tangles \cup grown
  BY <1>1, <1>2, <1>3, <1>6
<1>8. MadeOf(rule, base, allowed, tangles, grown)
  BY <1>4, <1>5, <1>7 DEF MadeOf
<1> QED
  BY <1>8

LEMMA AllowedIs ==
  ASSUME NEW rule, NEW p
  PROVE  /\ AllowedOnCycle(rule, p).state = "Allowed" /\ AllowedOnCycle(rule, p).detail.is = "edge"
         /\ AllowedOnCycle(rule, p).detail.edge = <<p[1], p[2]>>
BY DEF AllowedOnCycle, EdgeViolation, Violation, EdgeDetail

LEMMA RuleIsJudged ==
  ASSUME IsCounted, NEW rule, rule.kind = "NoCycles", NEW base
  PROVE  AreJudged(CheckRule(rule, base).violations, rule, base)
<1> DEFINE R == LeftFor(rule)
           S == Scope(rule)
           cycles == RepresentativeCycles(R)
           covered == CoveredEdges(rule, base, R)
           report == ReportFor(rule, base)
           cluster(scc) == ClusterOf(R, cycles, scc, covered)
           tangle(scc) == TangleFound(rule, report, cluster(scc))
           found == CheckRule(rule, base).violations
<1>1. /\ IsNumbered(R) /\ IsEdgeSet(R) /\ IsFiniteSet(Targets(R))
      /\ IsEdgeSet(S)
  BY ScopeIsNumbered, NumberedAreEdges DEF IsEdgeSet
<1>0. PICK allowed, tangles, grown : MadeOf(rule, base, allowed, tangles, grown)
  BY FoundOnCycles
<1>2. /\ found = allowed \cup tangles \cup grown
      /\ allowed = {AllowedOnCycle(rule, p) : p \in AllowedEdges(rule) \cap OnCycles(S)}
      /\ tangles = {TangleFound(rule, report, c) : c \in ClustersFor(rule, base)}
      /\ \A v \in grown : v.detail.is = "edge" /\ v.state = "Reported"
  BY <1>0 DEF MadeOf
<1>3. tangles = {tangle(scc) : scc \in Sccs(R)}
  <2>1. ClustersFor(rule, base) = {cluster(scc) : scc \in Sccs(R)}
    BY DEF ClustersFor, Clusters, CoveredFor
  <2> HIDE DEF cluster
  <2> QED
    BY <1>2, <2>1
<1>4. ASSUME NEW scc \in Sccs(R)
      PROVE  /\ tangle(scc).detail = ClusterDetail(report, cluster(scc)) /\ tangle(scc).detail.is = "cluster"
             /\ tangle(scc).detail.nodes = scc
             /\ tangle(scc).detail.countsEveryCycle = cluster(scc).countsEveryCycle
             /\ tangle(scc).state \in {"Frozen", "Reported"}
             /\ tangle(scc).state = "Frozen" <=> cluster(scc).tolerated
  <2>1. cluster(scc).nodes = scc
    BY DEF ClusterOf
  <2> HIDE DEF cluster
  <2> QED
    BY <2>1, TangleIs
<1> HIDE DEF tangle, found
<1>5. TanglesOf(found) = tangles
  <2>1. \A v \in allowed : v.detail.is = "edge"
    BY <1>2, AllowedIs
  <2>2. \A v \in tangles : v.detail.is = "cluster"
    BY <1>3, <1>4
  <2> QED
    BY <1>2, <2>1, <2>2 DEF TanglesOf
<1>6. {v.detail.edge : v \in {u \in found : u.state = "Allowed"}} = OnCycles(S) \ R
  <2>1. {u \in found : u.state = "Allowed"} = allowed
    <3>1. \A v \in allowed : v.state = "Allowed"
      BY <1>2, AllowedIs
    <3>2. \A v \in tangles : v.state # "Allowed"
      BY <1>3, <1>4
    <3> QED
      BY <1>2, <3>1, <3>2
  <2>2. OnCycles(S) \subseteq S /\ \A p \in S : p = <<p[1], p[2]>>
    BY <1>1, OnCyclesAre DEF IsEdgeSet
  <2>3. AllowedEdges(rule) \cap OnCycles(S) = OnCycles(S) \ R
    BY <2>2 DEF LeftFor
  <2> DEFINE exempt == OnCycles(S) \ R
  <2>4. allowed = {AllowedOnCycle(rule, p) : p \in exempt}
    BY <1>2, <2>3
  <2>5. \A p \in exempt : AllowedOnCycle(rule, p).detail.edge = p
    BY <2>2, AllowedIs
  <2> HIDE DEF exempt
  <2>6. {v.detail.edge : v \in allowed} = exempt
    BY <2>4, <2>5
  <2> QED
    BY <2>1, <2>6 DEF exempt
<1>7. ASSUME NEW p \in OnCycles(R)
      PROVE  /\ Cardinality(Holding(found, p)) = 1
             /\ \A v \in Holding(found, p) :
                  v.state = "Frozen" <=> \A q \in AroundOf(R, p) : SaysFrozen(base, rule, q)
  <2>1. PICK scc \in Sccs(R) : p \in Within(R, scc)
    BY DEF OnCycles
  <2>2. p[1] \in scc /\ p[2] \in scc
    BY <2>1 DEF Within
  <2>3. \A t \in Sccs(R) : p[1] \in t => t = scc
    BY <1>1, <2>2, ComponentsAreApart
  <2>4. Holding(found, p) = {tangle(scc)}
    BY <1>3, <1>4, <1>5, <2>2, <2>3 DEF Holding
  <2>5. Cardinality({tangle(scc)}) = 1
    BY FS_Singleton
  <2>6. cluster(scc).tolerated <=> Within(R, scc) \subseteq covered
    BY <1>1, ToleratedIsCovered
  <2>7. AroundOf(R, p) = Within(R, scc)
    BY <1>1, <2>1, AroundIsComponent
  <2>8. \A q \in Within(R, scc) : q \in covered <=> SaysFrozen(base, rule, q)
    <3>1. \A q \in Within(R, scc) : q \in OnCycles(R)
      BY DEF OnCycles
    <3> QED
      BY <3>1 DEF CoveredEdges, SaysFrozen, FrozenFor, SameKey
  <2> HIDE DEF cluster, covered
  <2> QED
    BY <1>4, <2>4, <2>5, <2>6, <2>7, <2>8
<1>8. ASSUME NEW v \in TanglesOf(found), v.detail.countsEveryCycle
      PROVE  Acyclic(Within(R, v.detail.nodes) \ ListedEdges(v.detail.edges))
  <2>1. PICK scc \in Sccs(R) : v = tangle(scc)
    BY <1>3, <1>5
  <2>2. PICK c : c = cluster(scc)
    OBVIOUS
  <2>3. v.detail = ClusterDetail(report, c) /\ v.detail.nodes = scc /\ c.countsEveryCycle
    BY <1>4, <1>8, <2>1, <2>2
  <2>4. Acyclic(Within(R, scc) \ ListedEdges(v.detail.edges))
    BY <1>1, <2>2, <2>3, NamedEdgesBreak
  <2> QED
    BY <2>3, <2>4
<1>9. ASSUME NEW v \in TanglesOf(found)
      PROVE  IsTable(v.detail, Within(R, v.detail.nodes), rule, base)
  <2>1. PICK scc \in Sccs(R) : v = tangle(scc)
    BY <1>3, <1>5, <1>9
  <2>2. PICK c : c = cluster(scc)
    OBVIOUS
  <2>3. PICK detail : detail = ClusterDetail(report, c) /\ detail = v.detail /\ detail.nodes = scc
    BY <1>4, <2>1, <2>2
  <2>4. /\ IsRanking(detail.edges)
        /\ detail.members # <<>> => /\ ListedEdges(detail.edges) \subseteq Within(R, scc)
                                   /\ Circular(ListedEdges(detail.edges)) = ListedEdges(detail.edges)
        /\ ~detail.countsEveryCycle => Within(R, scc) \cap covered # {}
    BY <1>1, <2>2, <2>3, TangleHasTable
  <2>5. \A q \in covered : SaysFrozen(base, rule, q)
    BY DEF CoveredEdges, SaysFrozen, FrozenFor, SameKey
  <2> HIDE DEF covered
  <2> QED
    BY <2>3, <2>4, <2>5 DEF IsTable
<1> QED
  BY <1>6, <1>7, <1>8, <1>9 DEF AreJudged, JudgedOver, found

Judged(violations, config, frozen) ==
  \A r \in Active(config) : r.kind = "NoCycles" => AreJudged(ViolationsOf(violations, r.name), r, frozen)

LEMMA CheckIsJudged ==
  ASSUME IsCounted, NEW config, AreNamedApart(config.rules), NEW baseline,
         CheckOutcome(config, baseline).error = {}
  PROVE  Judged(CheckOutcome(config, baseline).violations, config, baseline.entries)
<1> DEFINE run == CheckAll(config, baseline.entries)
<1>1. config.error = {} /\ baseline.error = {}
  BY DEF CheckOutcome, Failed
<1>2. CheckOutcome(config, baseline) = IF run.error # {} THEN Failed("check", run.error) ELSE Outcome(config, run)
  BY <1>1 DEF CheckOutcome
<1> HIDE DEF run
<1>3. run.error = {} /\ CheckOutcome(config, baseline) = Outcome(config, run)
  BY <1>2 DEF Failed
<1>4. run.result = ChecksOf(config, baseline.entries)
  <2>1. \A q \in Active(config) : q.kind = "Layers" => Overlaps(q.layers) = {}
    BY <1>3 DEF run, CheckAll
  <2> QED
    BY <2>1, CheckOfAll DEF run
<1>5. CheckOutcome(config, baseline).violations = ChecksOf(config, baseline.entries).violations
  BY <1>3, <1>4 DEF Outcome
<1>6. ASSUME NEW r \in Active(config), r.kind = "NoCycles"
      PROVE  AreJudged(ViolationsOf(ChecksOf(config, baseline.entries).violations, r.name), r, baseline.entries)
  <2>1. AreJudged(CheckRule(r, baseline.entries).violations, r, baseline.entries)
    BY <1>6, RuleIsJudged
  <2>2. ViolationsOf(ChecksOf(config, baseline.entries).violations, r.name) = CheckRule(r, baseline.entries).violations
    BY ViolationsOfRule
  <2> QED
    BY <2>1, <2>2
<1> QED
  BY <1>5, <1>6 DEF Judged

JudgedInv ==
  /\ CodeIsOfProject
  /\ Checked => Judged(outcome.violations, LoadConfig, Frozen)

LEMMA JudgedStays ==
  ASSUME GraphStays, options' = options, NEW violations, NEW config, NEW frozen,
         Judged(violations, config, frozen)
  PROVE  Judged(violations, config, frozen)'
<1> SUFFICES ASSUME NEW r \in Active(config), r.kind = "NoCycles"
             PROVE  AreJudged(ViolationsOf(violations, r.name), r, frozen)'
  BY DEF Judged, Active
<1>1. PICK found : found = ViolationsOf(violations, r.name)
  OBVIOUS
<1>2. Scope(r)' = Scope(r)
  BY EdgesStay, PatternsStay DEF Scope, Within
<1>3. AllowedEdges(r)' = AllowedEdges(r)
  BY <1>2, AllowedStay DEF AllowedEdges
<1>4. PICK scope, left : /\ scope = Scope(r) /\ scope = Scope(r)'
                         /\ left = LeftFor(r) /\ left = LeftFor(r)'
  BY <1>2, <1>3 DEF LeftFor
<1>5. \A p : EdgeEntry(r, p)' = EdgeEntry(r, p)
  BY EdgesStay DEF EdgeEntry
<1>6. \A p : SaysFrozen(frozen, r, p)' <=> SaysFrozen(frozen, r, p)
  BY <1>5 DEF SaysFrozen
<1>7. JudgedOver(found, scope, left, r, frozen)
  BY <1>1, <1>4 DEF Judged, AreJudged
<1>8. JudgedOver(found, scope, left, r, frozen)'
  BY <1>6, <1>7 DEF JudgedOver, IsTable
<1>9. found = ViolationsOf(violations, r.name)'
  BY <1>1 DEF ViolationsOf
<1> QED
  BY <1>4, <1>8, <1>9 DEF AreJudged

LEMMA JudgeWill ==
  ASSUME CodeIsOfProject, UNCHANGED <<nodes, edges, options, project, rulesFile, baselineFile>>,
         NEW violations, violations = outcome'.violations, Judged(violations, LoadConfig, Frozen)
  PROVE  JudgedInv'
<1>1. PICK config, frozen : config = LoadConfig /\ frozen = Frozen
  OBVIOUS
<1>2. Judged(violations, config, frozen)'
  BY <1>1, JudgedStays DEF GraphStays
<1>3. config = LoadConfig' /\ frozen = Frozen'
  BY <1>1 DEF LoadConfig, Frozen
<1>4. Judged(outcome.violations, LoadConfig, Frozen)'
  BY <1>2, <1>3
<1> QED
  BY <1>4, CodeStays DEF JudgedInv

LEMMA JudgeCheck ==
  ASSUME JudgedInv, Check
  PROVE  JudgedInv'
<1>1. PICK config, baseline : config = LoadConfig /\ baseline = LoadBaseline(baselineFile)
  OBVIOUS
<1>2. outcome' = CheckOutcome(config, baseline)
  BY <1>1 DEF Check
<1>3. CASE ~Checked'
  BY <1>3, CodeStays DEF JudgedInv, Check, Command
<1>4. CASE Checked'
  <2>1. CheckOutcome(config, baseline).error = {}
    BY <1>2, <1>4 DEF Checked
  <2>2. config.error = {}
    BY <2>1 DEF CheckOutcome, Failed
  <2>3. IsCounted /\ AreNamedApart(config.rules)
    BY <1>1, <2>2, ProjectIsCounted, ConfigIsNamedApart DEF JudgedInv
  <2>4. PICK violations : violations = CheckOutcome(config, baseline).violations
    OBVIOUS
  <2>5. Judged(violations, LoadConfig, Frozen)
    BY <1>1, <2>1, <2>3, <2>4, CheckIsJudged DEF Frozen
  <2> QED
    BY <1>2, <2>4, <2>5, JudgeWill DEF JudgedInv, Check, Command
<1> QED
  BY <1>3, <1>4

LEMMA GeneratedIsNoCheck ==
  ASSUME GenerateBaseline
  PROVE  ~Checked'
BY DEF GenerateBaseline, Refused, WriteBaseline, Failed, Checked

LEMMA JudgeStep ==
  ASSUME JudgedInv, CommandNext \/ UNCHANGED checkVars
  PROVE  JudgedInv'
<1>1. CASE Check
  BY <1>1, JudgeCheck
<1>2. CASE GenerateBaseline
  BY <1>2, GeneratedIsNoCheck, CodeStays DEF JudgedInv, GenerateBaseline, Command
<1>3. CASE EditCode \/ EditRules
  <2>1. ~Checked'
    BY <1>3 DEF EditCode, EditRules, Change, NoOutcome, Checked
  <2>2. CodeIsOfProject'
    BY <1>3 DEF EditCode, EditRules, Change, CodeIsOfProject, JudgedInv
  <2> QED
    BY <2>1, <2>2 DEF JudgedInv
<1>4. CASE UNCHANGED checkVars
  <2>1. CASE ~Checked
    <3>1. ~Checked'
      BY <1>4, <2>1 DEF checkVars, Checked
    <3> QED
      BY <1>4, <3>1, CodeStays DEF checkVars, JudgedInv
  <2>2. CASE Checked
    <3>1. PICK violations : violations = outcome.violations /\ violations = outcome'.violations
      BY <1>4 DEF checkVars
    <3> QED
      BY <1>4, <2>2, <3>1, JudgeWill DEF JudgedInv, checkVars
  <2> QED
    BY <2>1, <2>2
<1>5. CASE ~Checked' /\ UNCHANGED <<nodes, edges, options, project, rulesFile, baselineFile, frozenAt>>
  BY <1>5, CodeStays DEF JudgedInv
<1> QED
  BY <1>1, <1>2, <1>3, <1>4, <1>5, CommandKinds

LEMMA JudgedIsEnough ==
  ASSUME JudgedInv
  PROVE  CyclesAreJudged
<1> SUFFICES ASSUME Checked, NEW r \in CheckedRules("NoCycles")
             PROVE  LET on(R) == {p \in R : p[1] \in ReachedFrom({p[2]}, R)}
                        scope == Scope(r)
                        left == {p \in scope : CoveredBy(r.allow, p[1], p[2]) = {}}
                        found == {v \in outcome.violations : v.rule = r.name}
                        tangles == {v \in found : v.detail.is = "cluster"}
                        around(p) == {q \in on(left) : q[1] \in ReachedFrom({p[1]}, left) /\ p[1] \in ReachedFrom({q[2]}, left)}
                    IN  /\ {v.detail.edge : v \in {u \in found : u.state = "Allowed"}} = on(scope) \ left
                        /\ \A p \in on(left) :
                             /\ Cardinality({v \in tangles : {p[1], p[2]} \subseteq v.detail.nodes}) = 1
                             /\ \A v \in tangles : {p[1], p[2]} \subseteq v.detail.nodes =>
                                  (v.state = "Frozen" <=> \A q \in around(p) : IsFrozen(r, q))
                        /\ \A v \in tangles : v.detail.countsEveryCycle =>
                             on(Within(left, v.detail.nodes) \ {e.edge : e \in Range(v.detail.edges)}) = {}
  BY DEF CyclesAreJudged
<1> DEFINE on(R) == {p \in R : p[1] \in ReachedFrom({p[2]}, R)}
           scope == Scope(r)
           left == {p \in scope : CoveredBy(r.allow, p[1], p[2]) = {}}
           found == {v \in outcome.violations : v.rule = r.name}
           tangles == {v \in found : v.detail.is = "cluster"}
           around(p) == {q \in on(left) : q[1] \in ReachedFrom({p[1]}, left) /\ p[1] \in ReachedFrom({q[2]}, left)}
<1>1. IsNumbered(scope) /\ IsNumbered(LeftFor(r))
  BY ProjectIsCounted, ScopeIsNumbered DEF JudgedInv
<1>2. left = LeftFor(r)
  BY DEF LeftFor, AllowedEdges
<1>3. found = ViolationsOf(outcome.violations, r.name) /\ tangles = TanglesOf(found)
  BY DEF ViolationsOf, TanglesOf
<1>4. ASSUME NEW R, IsEdgeSet(R) PROVE on(R) = OnCycles(R)
  BY <1>4, OnCyclesAre DEF Leads
<1>5. on(scope) = OnCycles(scope) /\ on(left) = OnCycles(left)
  BY <1>1, <1>2, <1>4, NumberedAreEdges
<1>6. \A p : around(p) = AroundOf(left, p)
  BY <1>5 DEF AroundOf, Leads
<1>7. JudgedOver(found, scope, left, r, Frozen)
  BY <1>2, <1>3 DEF JudgedInv, Judged, AreJudged, CheckedRules
<1>8. \A p : IsFrozen(r, p) <=> SaysFrozen(Frozen, r, p)
  BY DEF IsFrozen, SaysFrozen
<1>9. ASSUME NEW v \in tangles, v.detail.countsEveryCycle
      PROVE  on(Within(left, v.detail.nodes) \ {e.edge : e \in Range(v.detail.edges)}) = {}
  <2>1. PICK rest : rest = Within(left, v.detail.nodes) \ ListedEdges(v.detail.edges)
    OBVIOUS
  <2>2. Acyclic(rest)
    BY <1>3, <1>7, <1>9, <2>1 DEF JudgedOver
  <2>3. rest \subseteq left
    BY <2>1 DEF Within
  <2>4. IsEdgeSet(rest)
    BY <1>1, <1>2, <2>3, NumberedAreEdges
  <2>5. on(rest) = {}
    BY <1>4, <2>2, <2>4, EndsOnCycles DEF Acyclic, IsEdgeSet
  <2> QED
    BY <2>1, <2>5 DEF ListedEdges
<1> HIDE DEF on, scope, left, found, tangles, around
<1>10. \A p : Holding(found, p) = {v \in tangles : {p[1], p[2]} \subseteq v.detail.nodes}
  BY <1>3 DEF Holding
<1>11. {v.detail.edge : v \in {u \in found : u.state = "Allowed"}} = on(scope) \ left
  BY <1>5, <1>7 DEF JudgedOver
<1>12. ASSUME NEW p \in on(left)
       PROVE  /\ Cardinality({v \in tangles : {p[1], p[2]} \subseteq v.detail.nodes}) = 1
              /\ \A v \in tangles : {p[1], p[2]} \subseteq v.detail.nodes =>
                   (v.state = "Frozen" <=> \A q \in around(p) : IsFrozen(r, q))
  <2>1. /\ Cardinality(Holding(found, p)) = 1
        /\ \A v \in Holding(found, p) :
             v.state = "Frozen" <=> \A q \in AroundOf(left, p) : SaysFrozen(Frozen, r, q)
    BY <1>5, <1>7, <1>12 DEF JudgedOver
  <2>2. Holding(found, p) = {v \in tangles : {p[1], p[2]} \subseteq v.detail.nodes} /\ around(p) = AroundOf(left, p)
    BY <1>6, <1>10
  <2>3. Cardinality({v \in tangles : {p[1], p[2]} \subseteq v.detail.nodes}) = 1
    BY <2>1, <2>2
  <2>4. ASSUME NEW v \in tangles, {p[1], p[2]} \subseteq v.detail.nodes
        PROVE  v.state = "Frozen" <=> \A q \in around(p) : IsFrozen(r, q)
    <3>1. v \in Holding(found, p)
      BY <2>2, <2>4
    <3>2. v.state = "Frozen" <=> \A q \in AroundOf(left, p) : SaysFrozen(Frozen, r, q)
      BY <2>1, <3>1
    <3> QED
      BY <1>8, <2>2, <3>2
  <2> QED
    BY <2>3, <2>4
<1> QED
  BY <1>9, <1>11, <1>12 DEF on, scope, left, found, tangles, around

(***************************************************************************)
(* Every edge on a cycle within a rule's scope is judged, whatever the      *)
(* code, the rules and the baseline are: an allowed edge is listed as such, *)
(* any other one that still is on a cycle lies in exactly one tangle, which *)
(* is frozen if and only if the baseline covers every edge around it, and   *)
(* without the edges that it lists a tangle that counts all its cycles has  *)
(* none left (check_cycles, drop_allowed_edges, freeze_cycle_edges).        *)
(***************************************************************************)
THEOREM CyclesAreJudgedHolds == CommandSpec => []CyclesAreJudged
<1>1. CommandInit => JudgedInv
  <2>1. CommandInit => ~Checked
    BY DEF CommandInit, CheckInit, Checked, NoOutcome
  <2> QED
    BY <2>1 DEF CommandInit, CheckInit, CodeIsOfProject, JudgedInv
<1>2. JudgedInv /\ [CommandNext]_commandVars => JudgedInv'
  BY JudgeStep DEF commandVars
<1>3. JudgedInv => CyclesAreJudged
  BY JudgedIsEnough
<1> QED
  BY <1>1, <1>2, <1>3, PTL DEF CommandSpec

-----------------------------------------------------------------------------
\* What a check finds of a finite project is finite.
FoundIsFinite(p, k, w) == IsFiniteSet(DOMAIN nodes) => IsFiniteSet(w.found)
Finds == INSTANCE Rounds WITH First <- WalkFirst, Round <- WalkRound, Inv <- FoundIsFinite

LEMMA RoutesAreFinite ==
  ASSUME IsFiniteSet(DOMAIN nodes), NEW a, NEW positioned
  PROVE  IsFiniteSet(RoutesOverUnpositioned(a, positioned))
<1> DEFINE q == <<a, positioned>>
           walk == CHOOSE f : f = [k \in Nat |-> IF k = 0 THEN AtSource(a)
                                                 ELSE NextLevel(f[k - 1], positioned)]
<1>1. \A f : Finds!IsComputed(f, q) <=>
        f = [k \in Nat |-> IF k = 0 THEN AtSource(a) ELSE NextLevel(f[k - 1], positioned)]
  BY DEF Finds!IsComputed, WalkFirst, WalkRound
<1>2. \E f : Finds!IsComputed(f, q)
  BY Finds!ComputedExists
<1>3. Finds!IsComputed(walk, q)
  BY <1>1, <1>2
<1>4. \A p : FoundIsFinite(p, 0, WalkFirst(p))
  BY FS_EmptySet DEF FoundIsFinite, WalkFirst, AtSource
<1>5. ASSUME NEW p, NEW k \in Nat, NEW w, FoundIsFinite(p, k, w)
      PROVE  FoundIsFinite(p, k + 1, WalkRound(p, k + 1, w))
  <2> DEFINE near == {x \in (DOMAIN w.frontier) \X (DOMAIN nodes) :
                        /\ x[2] \notin w.reached
                        /\ \E e \in ProductionEdges : e.src = x[1] /\ e.dst = x[2]}
             entered == {x[2] : x \in near}
             over == [n \in entered |-> LexMin({w.frontier[x[1]] : x \in {y \in near : y[2] = n}})]
             targets == {m \in entered \cap p[2] : over[m] # <<>>}
             f == [n \in targets |-> [target |-> n, over |-> over[n]]]
  <2>1. targets \in SUBSET DOMAIN nodes
    OBVIOUS
  <2>2. WalkRound(p, k + 1, w).found \in {w.found, w.found \cup {[target |-> n, over |-> over[n]] : n \in targets}}
    BY DEF WalkRound, NextLevel
  <2>3. {[target |-> n, over |-> over[n]] : n \in targets} = Range(f)
    <3> HIDE DEF over, targets
    <3> QED
      BY DEF Range
  <2>4. DOMAIN f = targets
    OBVIOUS
  <2> HIDE DEF f, over, targets
  <2>5. IsFiniteSet(Range(f))
    BY <2>1, <2>4, FS_Subset, ImageIsFinite
  <2>6. PICK added, found : added = Range(f) /\ found = WalkRound(p, k + 1, w).found
    OBVIOUS
  <2>7. found = w.found \/ found = w.found \cup added
    BY <2>2, <2>3, <2>6
  <2>8. IsFiniteSet(w.found) /\ IsFiniteSet(added)
    BY <1>5, <2>5, <2>6 DEF FoundIsFinite
  <2>9. IsFiniteSet(found)
    BY <2>7, <2>8, FS_Union
  <2> QED
    BY <2>6, <2>9 DEF FoundIsFinite
<1>6. \A k \in Nat : FoundIsFinite(q, k, walk[k])
  BY <1>3, <1>4, <1>5, Finds!InvariantOfRounds
<1>7. IsFiniteSet(walk[Cardinality(DOMAIN nodes)].found)
  BY <1>6, FS_CardinalityType DEF FoundIsFinite
<1>8. RoutesOverUnpositioned(a, positioned) = walk[Cardinality(DOMAIN nodes)].found
  BY DEF RoutesOverUnpositioned
<1> HIDE DEF walk
<1> QED
  BY <1>7, <1>8

LEMMA EdgesAreFinite ==
  ASSUME IsCounted
  PROVE  IsFiniteSet(EdgeSet)
<1>1. Len(edges) \in Nat /\ DOMAIN edges = 1 .. Len(edges)
  BY DEF IsCounted
<1>2. IsFiniteSet(DOMAIN edges)
  BY <1>1, FS_Interval
<1> QED
  BY <1>2, ImageIsFinite DEF EdgeSet

LEMMA WrittenAreFinite ==
  ASSUME IsCounted, NEW rejected
  PROVE  IsFiniteSet(WrittenDependencies(rejected))
<1> DEFINE ends == [e \in ProductionEdges |-> <<e.src, e.dst>>]
           pairs == {<<e.src, e.dst>> : e \in ProductionEdges} \cap rejected
           uses(p) == UNION {e.locations : e \in {f \in ProductionEdges : f.src = p[1] /\ f.dst = p[2]}}
           f == [p \in pairs |-> Dependency(p[1], p[2], <<>>, uses(p))]
<1>1. IsFiniteSet(ProductionEdges)
  <2>1. ProductionEdges \in SUBSET EdgeSet
    BY DEF ProductionEdges
  <2> QED
    BY <2>1, EdgesAreFinite, FS_Subset
<1>2. IsFiniteSet(Range(ends)) /\ pairs \in SUBSET Range(ends)
  <2>1. DOMAIN ends = ProductionEdges /\ pairs \in SUBSET Range(ends)
    BY DEF Range
  <2> HIDE DEF ends, pairs
  <2> QED
    BY <1>1, <2>1, ImageIsFinite
<1> HIDE DEF ends
<1>3. IsFiniteSet(pairs)
  BY <1>2, FS_Subset
<1>4. WrittenDependencies(rejected) = {Dependency(p[1], p[2], <<>>, uses(p)) : p \in pairs}
  BY DEF WrittenDependencies
<1> HIDE DEF pairs, uses
<1>5. DOMAIN f = pairs /\ Range(f) = {Dependency(p[1], p[2], <<>>, uses(p)) : p \in pairs}
  BY DEF Range
<1> HIDE DEF f
<1> QED
  BY <1>3, <1>4, <1>5, ImageIsFinite

LEMMA RoutedAreFinite ==
  ASSUME IsCounted, NEW positioned, positioned \subseteq DOMAIN nodes, NEW rejected
  PROVE  IsFiniteSet(DependenciesOverUnpositioned(positioned, rejected))
<1> DEFINE routes(a) == {q \in RoutesOverUnpositioned(a, positioned) : <<a, q.target>> \in rejected}
           from(a) == {Dependency(a, r.target, WrittenEdges(a, r), {}) : r \in routes(a)}
           all == [a \in positioned |-> from(a)]
<1>1. ASSUME NEW a PROVE IsFiniteSet(from(a))
  <2> DEFINE f == [r \in routes(a) |-> Dependency(a, r.target, WrittenEdges(a, r), {})]
  <2>1. routes(a) \in SUBSET RoutesOverUnpositioned(a, positioned)
    OBVIOUS
  <2>2. IsFiniteSet(routes(a))
    <3> HIDE DEF routes
    <3> QED
      BY <2>1, RoutesAreFinite, FS_Subset DEF IsCounted
  <2> HIDE DEF routes
  <2>3. DOMAIN f = routes(a) /\ Range(f) = from(a)
    BY DEF Range
  <2> HIDE DEF f, from
  <2> QED
    BY <2>2, <2>3, ImageIsFinite
<1>2. DependenciesOverUnpositioned(positioned, rejected) = UNION {from(a) : a \in positioned}
  BY DEF DependenciesOverUnpositioned
<1> HIDE DEF from
<1>3. DOMAIN all = positioned /\ Range(all) = {from(a) : a \in positioned}
  BY DEF Range
<1>4. IsFiniteSet(positioned)
  BY FS_Subset DEF IsCounted
<1> HIDE DEF all
<1>5. IsFiniteSet({from(a) : a \in positioned})
  BY <1>3, <1>4, ImageIsFinite
<1>6. IsFiniteSet(UNION {from(a) : a \in positioned})
  BY <1>1, <1>5, FS_UNION
<1> QED
  BY <1>2, <1>6

LEMMA FiniteDependencies ==
  ASSUME IsCounted, NEW rule, rule.kind \in {"ForbiddenDependency", "Layers"}
  PROVE  \E D : IsFiniteSet(D) /\ \A b : CheckRule(rule, b) = CheckDependencies(rule, b, D)
<1>1. CASE rule.kind = "ForbiddenDependency"
  <2>1. PICK D : D = WrittenDependencies(ResolvePattern(rule.from) \X ResolvePattern(rule.to))
    OBVIOUS
  <2>2. \A b : CheckRule(rule, b) = CheckDependencies(rule, b, D)
    BY <1>1, <2>1 DEF CheckRule, CheckForbidden
  <2> QED
    BY <2>1, <2>2, WrittenAreFinite
<1>2. CASE rule.kind = "Layers"
  <2>1. PICK index : index = LayerIndex(rule.layers)
    OBVIOUS
  <2>2. PICK rejected : rejected = {p \in (DOMAIN index) \X (DOMAIN index) : Rejects(rule, index, p[1], p[2])}
    OBVIOUS
  <2>3. DOMAIN index \subseteq DOMAIN nodes
    <3>1. DOMAIN index \subseteq Members
      BY <2>1 DEF LayerIndex, LayerRest
    <3> QED
      BY <3>1 DEF Members, CrateNodes, ModuleNodes
  <2>4. PICK D : D = WrittenDependencies(rejected) \cup DependenciesOverUnpositioned(DOMAIN index, rejected)
    OBVIOUS
  <2>5. IsFiniteSet(D)
    BY <2>3, <2>4, WrittenAreFinite, RoutedAreFinite, FS_Union
  <2>6. \A b : CheckRule(rule, b) = CheckDependencies(rule, b, D)
    BY <1>2, <2>1, <2>2, <2>4 DEF CheckRule, CheckLayers
  <2> QED
    BY <2>5, <2>6
<1> QED
  BY <1>1, <1>2

-----------------------------------------------------------------------------
\* What the report relies on of one violation, of what a rule finds, and of the
\* outcome of a check.
GrownIsTrue(v) ==
  \A t \in v.detail.frozenFor : Surplus(EdgeSymbols(v.detail.locations), t) # NoSymbols

IsViolationOf(rule, v) ==
  /\ v.rule = rule.name /\ v.state \in States
  /\ \/ v.detail.is = "edge" /\ GrownIsTrue(v)
     \/ v.detail.is = "cluster" /\ rule.kind = "NoCycles"

LEMMA UncoveredIsSurplus ==
  ASSUME NEW s, NEW t, ~CoversSymbols(t, s)
  PROVE  Surplus(s, t) # NoSymbols
<1>1. (s.named \ t.named) # {} \/ (s.bare /\ ~t.bare)
  BY DEF CoversSymbols
<1> QED
  BY <1>1 DEF Surplus, NoSymbols

LEMMA AnythingCoversNothing == \A t : CoversSymbols(t, NoSymbols)
BY DEF CoversSymbols, NoSymbols

LEMMA DependencyIsTold ==
  ASSUME NEW rule, NEW b, NEW d
  PROVE  \E v : Judge(rule, b, d).violations = {v} /\ IsViolationOf(rule, v)
<1> DEFINE allowing == CoveredBy(rule.allow, d.source, d.target)
           symbols == IF d.via = <<>> THEN EdgeSymbols(d.locations) ELSE NoSymbols
           tolerated == FrozenFor(b, EntryOf(rule, d))
           covered == \E t \in tolerated : CoversSymbols(t, symbols)
           found(state, by, frozenFor) ==
             Violation(rule, state, by, EdgeDetail(d.source, d.target, frozenFor, d.via, d.locations))
<1>1. EntryOf(rule, d).symbols = symbols
  BY DEF EntryOf, Entry
<1>2. Judge(rule, b, d).violations =
        IF allowing # {} THEN {found("Allowed", rule.allow[Min(allowing)].pattern, {})}
        ELSE IF covered THEN {found("Frozen", NoName, {})} ELSE {found("Reported", NoName, tolerated)}
  BY DEF Judge, Result, EntryOf, Entry
<1>3. \A state, by, frozenFor :
        LET v == found(state, by, frozenFor)
        IN  /\ v.rule = rule.name /\ v.state = state /\ v.detail.is = "edge"
            /\ v.detail.frozenFor = frozenFor /\ v.detail.locations = d.locations
  BY DEF Violation, EdgeDetail
<1>4. ~covered => \A t \in tolerated : Surplus(EdgeSymbols(d.locations), t) # NoSymbols
  <2> SUFFICES ASSUME ~covered, NEW t \in tolerated PROVE Surplus(EdgeSymbols(d.locations), t) # NoSymbols
    OBVIOUS
  <2>1. ~CoversSymbols(t, symbols)
    OBVIOUS
  <2>2. symbols = EdgeSymbols(d.locations)
    BY <2>1, AnythingCoversNothing
  <2> QED
    BY <2>1, <2>2, UncoveredIsSurplus
<1> HIDE DEF allowing, tolerated, covered, found
<1>5. \A by : \A state \in States : IsViolationOf(rule, found(state, by, {}))
  BY <1>3 DEF IsViolationOf, GrownIsTrue
<1>6. ~covered => IsViolationOf(rule, found("Reported", NoName, tolerated))
  BY <1>3, <1>4 DEF IsViolationOf, GrownIsTrue, States
<1> QED
  BY <1>2, <1>5, <1>6 DEF States

\* All that a rule finds.
IsToldOf(rule, violations) ==
  IsFiniteSet(violations) /\ \A v \in violations : IsViolationOf(rule, v)

LEMMA DependenciesAreTold ==
  ASSUME IsCounted, NEW rule, rule.kind \in {"ForbiddenDependency", "Layers"}, NEW b
  PROVE  IsToldOf(rule, CheckRule(rule, b).violations)
<1>1. PICK D : IsFiniteSet(D) /\ CheckRule(rule, b) = CheckDependencies(rule, b, D)
  BY FiniteDependencies
<1> DEFINE told(d) == CHOOSE v : Judge(rule, b, d).violations = {v} /\ IsViolationOf(rule, v)
           all == [d \in D |-> told(d)]
<1>2. \A d : Judge(rule, b, d).violations = {told(d)} /\ IsViolationOf(rule, told(d))
  BY DependencyIsTold
<1>3. CheckRule(rule, b).violations = UNION {r.violations : r \in {Judge(rule, b, d) : d \in D}}
  BY <1>1 DEF CheckDependencies, AllOf, Result
<1> HIDE DEF told
<1>4. CheckRule(rule, b).violations = {told(d) : d \in D}
  <2>1. \A v : v \in CheckRule(rule, b).violations <=> \E d \in D : v \in Judge(rule, b, d).violations
    BY <1>3
  <2> QED
    BY <1>2, <2>1
<1>5. DOMAIN all = D /\ Range(all) = {told(d) : d \in D}
  BY DEF Range
<1> HIDE DEF all
<1> QED
  BY <1>1, <1>2, <1>4, <1>5, ImageIsFinite DEF IsToldOf

LEMMA EdgeIsTold ==
  ASSUME NEW rule, NEW p, NEW state \in States, NEW by, NEW frozenFor,
         \A t \in frozenFor : ~CoversSymbols(t, EdgeEntry(rule, p).symbols)
  PROVE  IsViolationOf(rule, EdgeViolation(rule, p, state, by, frozenFor))
<1>1. PICK v : v = EdgeViolation(rule, p, state, by, frozenFor)
  OBVIOUS
<1>2. /\ v.rule = rule.name /\ v.state = state /\ v.detail.is = "edge" /\ v.detail.frozenFor = frozenFor
      /\ v.detail.locations = ModuleDepLocations(p[1], p[2])
  BY <1>1 DEF EdgeViolation, Violation, EdgeDetail
<1>3. EdgeEntry(rule, p).symbols = EdgeSymbols(ModuleDepLocations(p[1], p[2]))
  BY DEF EdgeEntry, Entry
<1>4. \A t \in frozenFor : Surplus(EdgeSymbols(v.detail.locations), t) # NoSymbols
  BY <1>2, <1>3, UncoveredIsSurplus
<1> QED
  BY <1>1, <1>2, <1>4 DEF IsViolationOf, GrownIsTrue

LEMMA ClustersAreTold ==
  ASSUME NEW rule, rule.kind = "NoCycles", NEW clusters, IsFiniteSet(clusters), NEW report
  PROVE  IsToldOf(rule, ClusterViolations(rule, clusters, report))
<1> DEFINE of(c) == TangleFound(rule, report, c)
           all == [c \in clusters |-> of(c)]
<1>1. ClusterViolations(rule, clusters, report) = {of(c) : c \in clusters}
  BY DEF ClusterViolations, TangleFound
<1>2. \A c : of(c).rule = rule.name /\ of(c).state \in {"Frozen", "Reported"} /\ of(c).detail.is = "cluster"
  <2>1. \A c : of(c).rule = rule.name
    BY DEF TangleFound, Violation
  <2> QED
    BY <2>1, TangleIs
<1> HIDE DEF of
<1>3. DOMAIN all = clusters /\ Range(all) = {of(c) : c \in clusters}
  BY DEF Range
<1>4. \A c : IsViolationOf(rule, of(c))
  BY <1>2 DEF IsViolationOf, States
<1> HIDE DEF all
<1> QED
  BY <1>1, <1>3, <1>4, ImageIsFinite DEF IsToldOf

LEMMA ToldTogether ==
  ASSUME NEW rule, NEW S, NEW T, IsToldOf(rule, S), IsToldOf(rule, T)
  PROVE  IsToldOf(rule, S \cup T)
BY FS_Union DEF IsToldOf

LEMMA CyclesAreTold ==
  ASSUME IsCounted, NEW rule, rule.kind = "NoCycles", NEW b
  PROVE  IsToldOf(rule, CheckRule(rule, b).violations)
<1> DEFINE R == LeftFor(rule)
           on == OnCycles(R)
           covered == CoveredEdges(rule, b, R)
           frozen == [p \in on |-> FrozenFor(b, EdgeEntry(rule, p))]
           left == CyclesIn(rule, R, covered, frozen)
           exempt == AllowedEdges(rule) \cap OnCycles(Scope(rule))
           allowed == {AllowedOnCycle(rule, p) : p \in exempt}
           spared == Result(allowed, {}, {})
           pairs == {p \in on : frozen[p] # {}} \ covered
           grown == {EdgeViolation(rule, p, "Reported", NoName, frozen[p]) : p \in pairs}
           clusters == Clusters(R, RepresentativeCycles(R), covered)
           report == ClusterReport(R, RepresentativeCycles(R), covered)
<1>1. IsNumbered(R) /\ IsFiniteSet(R) /\ IsFiniteSet(Scope(rule))
  BY ScopeIsNumbered DEF IsNumbered
<1>2. CheckRule(rule, b) = AllOf({spared, left})
  BY DEF CheckRule, CheckCycles, LeftFor
<1>3. left.violations = ClusterViolations(rule, clusters, report) \cup grown /\ spared.violations = allowed
  BY DEF CyclesIn, Result
<1>4. AllOf({spared, left}).violations = spared.violations \cup left.violations
  <2> HIDE DEF spared, left
  <2>1. UNION {x.violations : x \in {spared, left}} = spared.violations \cup left.violations
    OBVIOUS
  <2> QED
    BY <2>1 DEF AllOf, Result
<1>5. IsToldOf(rule, allowed)
  <2> DEFINE all == [p \in exempt |-> AllowedOnCycle(rule, p)]
  <2>1. \A p : IsViolationOf(rule, AllowedOnCycle(rule, p))
    BY EdgeIsTold DEF AllowedOnCycle, States
  <2>2. exempt \in SUBSET Scope(rule)
    BY DEF AllowedEdges
  <2>3. IsFiniteSet(exempt)
    <3> HIDE DEF exempt
    <3> QED
      BY <1>1, <2>2, FS_Subset
  <2> HIDE DEF exempt
  <2>4. DOMAIN all = exempt /\ Range(all) = allowed
    BY DEF Range
  <2>5. \A v \in allowed : IsViolationOf(rule, v)
    BY <2>1
  <2> HIDE DEF all, allowed
  <2> QED
    BY <2>3, <2>4, <2>5, ImageIsFinite DEF IsToldOf
<1>6. IsToldOf(rule, grown)
  <2> DEFINE of(p) == EdgeViolation(rule, p, "Reported", NoName, frozen[p])
             all == [p \in pairs |-> of(p)]
  <2>1. ASSUME NEW p \in pairs PROVE IsViolationOf(rule, of(p))
    <3>1. frozen[p] = FrozenFor(b, EdgeEntry(rule, p)) /\ p \in on /\ p \notin covered
      OBVIOUS
    <3>2. \A t \in frozen[p] : ~CoversSymbols(t, EdgeEntry(rule, p).symbols)
      BY <3>1 DEF CoveredEdges
    <3> HIDE DEF frozen
    <3> QED
      BY <3>2, EdgeIsTold DEF States
  <2>2. pairs \in SUBSET R
    BY DEF OnCycles, Within
  <2>3. IsFiniteSet(pairs)
    <3> HIDE DEF pairs, R
    <3> QED
      BY <1>1, <2>2, FS_Subset
  <2>4. grown = {of(p) : p \in pairs}
    OBVIOUS
  <2> HIDE DEF of, pairs, grown
  <2>5. DOMAIN all = pairs /\ Range(all) = grown
    BY <2>4 DEF Range
  <2>6. \A v \in grown : IsViolationOf(rule, v)
    BY <2>1, <2>4
  <2> HIDE DEF all
  <2> QED
    BY <2>3, <2>5, <2>6, ImageIsFinite DEF IsToldOf
<1>7. IsToldOf(rule, ClusterViolations(rule, clusters, report))
  <2> DEFINE of(scc) == ClusterOf(R, RepresentativeCycles(R), scc, covered)
             all == [scc \in Sccs(R) |-> of(scc)]
  <2>1. clusters = {of(scc) : scc \in Sccs(R)}
    BY DEF Clusters
  <2> HIDE DEF of
  <2>2. DOMAIN all = Sccs(R) /\ Range(all) = {of(scc) : scc \in Sccs(R)}
    BY DEF Range
  <2> HIDE DEF all
  <2>3. IsFiniteSet(clusters)
    BY <1>1, <2>1, <2>2, ComponentsAreFinite, ImageIsFinite
  <2> HIDE DEF clusters, report
  <2> QED
    BY <2>3, ClustersAreTold
<1> HIDE DEF allowed, grown, clusters, report, left, spared
<1> QED
  BY <1>2, <1>3, <1>4, <1>5, <1>6, <1>7, ToldTogether

LEMMA RuleIsTold ==
  ASSUME IsCounted, NEW rule, rule.kind \in RuleKinds, NEW b
  PROVE  IsToldOf(rule, CheckRule(rule, b).violations)
BY DependenciesAreTold, CyclesAreTold DEF RuleKinds

AreListed(rules) == Len(rules) \in Nat /\ DOMAIN rules = 1 .. Len(rules)

DiagnosticNames == {"unlayered", "excepts", "baseline", "allow", "contradictory", "pattern", "catchAll"}

IsTold(o, config) ==
  /\ \E run : o = Outcome(config, run)
  /\ DOMAIN o.diagnostics = DiagnosticNames
  /\ IsFiniteSet(o.violations)
  /\ \A v \in o.violations : \E r \in Active(config) : IsViolationOf(r, v)

LEMMA RulesOfFileAreListed ==
  ASSUME NEW file, file.is \notin {"missing", "garbled"}, IsRulesFile(file), Load(file).error = {}
  PROVE  AreListed(Load(file).rules)
<1> DEFINE rules == [i \in DOMAIN file.rules |-> RuleOf(file, file.rules[i])]
           passes == <<IF file.version \subseteq {FormatVersion} THEN {} ELSE {"UnsupportedVersion"},
                       IF NamesRepeat(rules) THEN {"DuplicateRuleName"} ELSE {},
                       CatchAllErrors(rules), ArityErrors(rules), ExhaustiveErrors(rules),
                       IF IsReserved(rules) THEN {"ReservedRuleName"} ELSE {}>>
<1>1. file.rules \in Seq(Range(file.rules))
  BY DEF IsRulesFile, Missing, Garbled
<1>2. Load(file).rules = WithImplicitRule(rules)
  <2> HIDE DEF rules, passes
  <2>1. Load(file) = IF SyntaxErrors(file) # {} THEN [error |-> SyntaxErrors(file)]
                     ELSE IF FirstError(passes) # {} THEN [error |-> FirstError(passes)]
                     ELSE [error |-> {}, rules |-> WithImplicitRule(rules),
                           diagnostics |-> file.diagnostics @@ DefaultDiagnostics]
    BY DEF Load, rules, passes
  <2> HIDE DEF passes
  <2> QED
    BY <2>1
<1>3. Len(file.rules) \in Nat /\ DOMAIN rules = 1 .. Len(file.rules)
  BY <1>1
<1>4. rules \in Seq(Range(rules))
  <2>1. rules = [i \in 1 .. Len(file.rules) |-> rules[i]] /\ \A i \in DOMAIN rules : rules[i] \in Range(rules)
    BY <1>3 DEF Range
  <2> HIDE DEF rules
  <2> QED
    BY <1>3, <2>1
<1> HIDE DEF rules
<1>5. AreListed(rules) /\ AreListed(Append(rules, ImplicitRule))
  BY <1>4 DEF AreListed
<1> QED
  BY <1>2, <1>5 DEF WithImplicitRule

LEMMA ConfigIsListed ==
  ASSUME IsRulesFile(rulesFile), LoadConfig.error = {}
  PROVE  AreListed(LoadConfig.rules)
<1>1. CASE Load(rulesFile).error = {"FileNotFound"} /\ ~options.explicit
  <2>1. LoadConfig.rules = <<ImplicitRule>>
    BY <1>1 DEF LoadConfig, Implicit
  <2> QED
    BY <2>1 DEF AreListed
<1>2. CASE ~(Load(rulesFile).error = {"FileNotFound"} /\ ~options.explicit)
  <2>1. LoadConfig = Load(rulesFile)
    BY <1>2 DEF LoadConfig
  <2>2. rulesFile.is \notin {"missing", "garbled"}
    BY <2>1 DEF Load
  <2> QED
    BY <2>1, <2>2, RulesOfFileAreListed
<1> QED
  BY <1>1, <1>2

LEMMA CheckIsTold ==
  ASSUME IsCounted, NEW config, AreNamedApart(config.rules), AreListed(config.rules), NEW baseline,
         CheckOutcome(config, baseline).error = {}
  PROVE  IsTold(CheckOutcome(config, baseline), config)
<1> DEFINE run == CheckAll(config, baseline.entries)
           base == baseline.entries
<1>1. config.error = {} /\ baseline.error = {}
  BY DEF CheckOutcome, Failed
<1>2. CheckOutcome(config, baseline) = IF run.error # {} THEN Failed("check", run.error) ELSE Outcome(config, run)
  BY <1>1 DEF CheckOutcome
<1> HIDE DEF run
<1>3. run.error = {} /\ CheckOutcome(config, baseline) = Outcome(config, run)
  BY <1>2 DEF Failed
<1>4. /\ run.result = ChecksOf(config, base)
      /\ run.diagnostics = CollectDiagnostics(config, base, ChecksOf(config, base).hits)
  <2>1. \A q \in Active(config) : q.kind = "Layers" => Overlaps(q.layers) = {}
    BY <1>3 DEF run, CheckAll
  <2> QED
    BY <2>1, CheckOfAll DEF run
<1>5. DOMAIN run.diagnostics = DiagnosticNames
  BY <1>4 DEF CollectDiagnostics, DiagnosticNames
<1>6. PICK o : o = CheckOutcome(config, baseline)
  OBVIOUS
<1>7. o.violations = ChecksOf(config, base).violations /\ o.diagnostics = run.diagnostics
  BY <1>3, <1>4, <1>6 DEF Outcome
<1>8. \A r \in Active(config) : r.kind \in RuleKinds
  BY DEF AreNamedApart, IsRule, Active
<1>9. IsFiniteSet(Active(config))
  <2>1. Active(config) \in SUBSET Range(config.rules)
    BY DEF Active
  <2>2. IsFiniteSet(1 .. Len(config.rules))
    BY FS_Interval DEF AreListed
  <2> QED
    BY <2>1, <2>2, ImageIsFinite, FS_Subset DEF AreListed
<1> DEFINE found(r) == CheckRule(r, base).violations
           all == [r \in Active(config) |-> found(r)]
<1>10. \A r \in Active(config) : IsToldOf(r, found(r))
  BY <1>8, RuleIsTold
<1>11. o.violations = UNION {found(r) : r \in Active(config)}
  <2>1. o.violations = UNION {x.violations : x \in {CheckRule(r, base) : r \in Active(config)}}
    BY <1>7 DEF ChecksOf, AllOf, Result
  <2> QED
    BY <2>1
<1> HIDE DEF found
<1>12. DOMAIN all = Active(config) /\ Range(all) = {found(r) : r \in Active(config)}
  BY DEF Range
<1> HIDE DEF all
<1>13. IsFiniteSet({found(r) : r \in Active(config)})
  BY <1>9, <1>12, ImageIsFinite
<1>14. IsFiniteSet(o.violations)
  BY <1>10, <1>11, <1>13, FS_UNION DEF IsToldOf
<1>15. \A v \in o.violations : \E r \in Active(config) : IsViolationOf(r, v)
  BY <1>10, <1>11 DEF IsToldOf
<1> QED
  BY <1>3, <1>5, <1>6, <1>7, <1>14, <1>15 DEF IsTold

-----------------------------------------------------------------------------
(***************************************************************************)
(* What the report of a check holds: a block for every rule that is heard,  *)
(* and in the blocks every violation that is not silenced.                  *)
(***************************************************************************)
LEMMA BlocksAre ==
  ASSUME NEW config, AreListed(config.rules), NEW violations, NEW show
  PROVE  Range(Blocks(config, violations, show)) =
           {Block(violations, show, r) : r \in {q \in Range(config.rules) : Shown(violations, show, q) # {}}}
<1> DEFINE heard == {i \in DOMAIN config.rules : Shown(violations, show, config.rules[i]) # {}}
           key == [i \in heard |-> <<i>>]
           places == SortedBy({<<<<i>>, i>> : i \in heard})
           n == Len(config.rules)
<1>1. heard \in SUBSET (1 .. n) /\ n \in Nat
  BY DEF AreListed
<1>2. IsFiniteSet(heard) /\ heard \subseteq Nat
  <2> HIDE DEF heard, n
  <2>1. IsFiniteSet(1 .. n)
    BY <1>1, FS_Interval
  <2>2. IsFiniteSet(heard)
    BY <1>1, <2>1, FS_Subset
  <2> QED
    BY <1>1, <2>2
<1>3. {<<<<i>>, i>> : i \in heard} = Keyed(heard, key)
  <2> HIDE DEF heard
  <2> QED
    BY DEF Keyed
<1>4. AreKeys(heard, key, 1)
  <2> HIDE DEF heard
  <2> QED
    BY <1>2 DEF AreKeys
<1>5. Range(places) = heard
  <2> HIDE DEF heard, key
  <2> QED
    BY <1>2, <1>3, <1>4, SortedLists
<1>6. Blocks(config, violations, show) = [k \in DOMAIN places |-> Block(violations, show, config.rules[places[k]])]
  BY DEF Blocks
<1> HIDE DEF places
<1>7. Range(Blocks(config, violations, show)) = {Block(violations, show, config.rules[i]) : i \in heard}
  <2> HIDE DEF heard
  <2>1. \A b \in Range(Blocks(config, violations, show)) : \E i \in heard : b = Block(violations, show, config.rules[i])
    BY <1>5, <1>6 DEF Range
  <2>2. ASSUME NEW i \in heard
        PROVE  Block(violations, show, config.rules[i]) \in Range(Blocks(config, violations, show))
    <3>1. PICK k \in DOMAIN places : places[k] = i
      BY <1>5 DEF Range
    <3> QED
      BY <1>6, <3>1 DEF Range
  <2> QED
    BY <2>1, <2>2
<1>8. \A r \in Range(config.rules) : Shown(violations, show, r) # {} <=> \E i \in heard : r = config.rules[i]
  BY DEF Range
<1> HIDE DEF heard
<1>9. \A i \in heard : config.rules[i] \in Range(config.rules)
  BY <1>1 DEF AreListed, Range
<1> QED
  BY <1>7, <1>8, <1>9

\* The blocks and what is told in them, by the rules.
LEMMA BlockIs ==
  ASSUME NEW violations, NEW show, NEW r, NEW b, b = Block(violations, show, r)
  PROVE  /\ b.head = BlockHead(OfRule(violations, r))
         /\ DOMAIN b.lines = Shown(violations, show, r)
         /\ \A v \in Shown(violations, show, r) : b.lines[v] = Lines(v)
BY DEF Block

IsReportOf(text, config, o, show) == AreListed(config.rules) /\ IsTold(o, config) /\ text = Report(config, o, show)

HoldsBlocks(text, config, o, show) ==
  /\ \A b \in Range(text.blocks) : \E r \in Range(config.rules) :
       b = Block(o.violations, show, r) /\ Shown(o.violations, show, r) # {}
  /\ \A r \in Range(config.rules) : Shown(o.violations, show, r) # {} =>
       Block(o.violations, show, r) \in Range(text.blocks)

LEMMA ToldIs ==
  ASSUME NEW config, NEW o, NEW show \in BOOLEAN, NEW text, IsReportOf(text, config, o, show)
  PROVE  /\ Told(text) = IF show THEN o.violations ELSE ReportedOf(o.violations)
         /\ HoldsBlocks(text, config, o, show)
<1> DEFINE told == IF show THEN o.violations ELSE ReportedOf(o.violations)
           blocks == {Block(o.violations, show, r) : r \in {q \in Range(config.rules) : Shown(o.violations, show, q) # {}}}
<1>1. Range(text.blocks) = blocks
  BY BlocksAre DEF IsReportOf, Report
<1>2. /\ \A b \in Range(text.blocks) : \E r \in Range(config.rules) :
           b = Block(o.violations, show, r) /\ Shown(o.violations, show, r) # {}
      /\ \A r \in Range(config.rules) : Shown(o.violations, show, r) # {} =>
           Block(o.violations, show, r) \in Range(text.blocks)
  BY <1>1
<1> HIDE DEF blocks
<1>3. \A r : Shown(o.violations, show, r) = {v \in told : v.rule = r.name}
  BY DEF Shown, OfRule, ReportedOf
<1>4. \A v \in told : \E r \in Range(config.rules) : v.rule = r.name
  BY DEF IsReportOf, IsTold, IsViolationOf, Active, ReportedOf
<1> HIDE DEF told
<1>5. ASSUME NEW v \in told PROVE v \in Told(text)
  <2>1. PICK r \in Range(config.rules) : v \in Shown(o.violations, show, r)
    BY <1>3, <1>4
  <2>2. PICK b \in Range(text.blocks) : b = Block(o.violations, show, r)
    BY <1>2, <2>1
  <2>3. v \in DOMAIN b.lines
    BY <2>1, <2>2, BlockIs
  <2> QED
    BY <2>3 DEF Told
<1>6. ASSUME NEW v \in Told(text) PROVE v \in told
  <2>1. PICK b \in Range(text.blocks) : v \in DOMAIN b.lines
    BY DEF Told
  <2>2. PICK r : b = Block(o.violations, show, r)
    BY <1>2
  <2>3. v \in Shown(o.violations, show, r)
    BY <2>1, <2>2, BlockIs
  <2> QED
    BY <1>3, <2>3
<1>7. Told(text) = told
  BY <1>5, <1>6
<1> QED
  BY <1>2, <1>7 DEF HoldsBlocks, told

LEMMA ErrorsAreHeads ==
  ASSUME NEW config, NEW o, NEW show \in BOOLEAN, NEW text, IsReportOf(text, config, o, show)
  PROVE  (\E b \in Range(text.blocks) : b.head = "error") <=> HasErrors(o.violations)
<1>0. HoldsBlocks(text, config, o, show)
  BY ToldIs
<1>1. ASSUME NEW b \in Range(text.blocks), b.head = "error" PROVE HasErrors(o.violations)
  <2>1. PICK r \in Range(config.rules) : b = Block(o.violations, show, r)
    BY <1>0 DEF HoldsBlocks
  <2>2. BlockHead(OfRule(o.violations, r)) = "error"
    BY <1>1, <2>1, BlockIs
  <2>3. PICK v \in ReportedOf(OfRule(o.violations, r)) : v.severity = "Error"
    BY <2>2 DEF BlockHead
  <2> QED
    BY <2>3 DEF HasErrors, ReportedOf, OfRule
<1>2. ASSUME HasErrors(o.violations) PROVE \E b \in Range(text.blocks) : b.head = "error"
  <2>1. PICK v \in ReportedOf(o.violations) : v.severity = "Error"
    BY <1>2 DEF HasErrors
  <2>2. PICK r \in Range(config.rules) : v.rule = r.name
    BY <2>1 DEF IsReportOf, IsTold, IsViolationOf, Active, ReportedOf
  <2>3. v \in ReportedOf(OfRule(o.violations, r)) /\ v \in OfRule(o.violations, r)
    BY <2>1, <2>2 DEF ReportedOf, OfRule
  <2>4. Shown(o.violations, show, r) # {}
    BY <2>3 DEF Shown
  <2>5. PICK b \in Range(text.blocks) : b = Block(o.violations, show, r)
    BY <1>0, <2>4 DEF HoldsBlocks
  <2>6. BlockHead(OfRule(o.violations, r)) = "error"
    <3> HIDE DEF OfRule
    <3> QED
      BY <2>1, <2>3 DEF BlockHead
  <2> QED
    BY <2>5, <2>6, BlockIs
<1> QED
  BY <1>1, <1>2

\* What is heard of the configuration, by its level.
LEMMA ConfigurationHead ==
  ASSUME NEW config, NEW d
  PROVE  ConfigurationBlock(config, d).head = "error" <=> Heard(config, d, "Deny") # {}
<1>1. Heard(config, d, "Deny") # {} => ~\A name \in DOMAIN d : d[name] = {}
  BY DEF Heard
<1> QED
  BY <1>1 DEF ConfigurationBlock

LEMMA StatusTells ==
  ASSUME NEW config, NEW o, IsTold(o, config)
  PROVE  /\ o.status.config = "FAILED" <=> Heard(config, o.diagnostics, "Deny") # {}
         /\ "FAILED" \in Range(o.status.rules) <=> HasErrors(o.violations)
         /\ o.judgment = "negative" <=> HasErrors(o.violations) \/ Heard(config, o.diagnostics, "Deny") # {}
<1>1. PICK run : o = Outcome(config, run)
  BY DEF IsTold
<1>2. /\ o.violations = run.result.violations /\ o.diagnostics = run.diagnostics
      /\ o.judgment = Judgment(config, run) /\ o.status = Status(config, run)
  BY <1>1 DEF Outcome
<1> DEFINE reported(name, severity) == {v \in ReportedOf(o.violations) : v.rule = name /\ v.severity = severity}
           word(name) == StatusWord(reported(name, "Error"), reported(name, "Warn"))
           names == {r.name : r \in Active(config)}
<1>3. /\ o.status.rules = [name \in names |-> word(name)]
      /\ o.status.config = StatusWord(Heard(config, o.diagnostics, "Deny"), Heard(config, o.diagnostics, "Warn"))
  BY <1>2 DEF Status
<1>4. \A S, T : StatusWord(S, T) = "FAILED" <=> S # {}
  BY DEF StatusWord
<1>5. \A name \in names : word(name) = "FAILED" <=> reported(name, "Error") # {}
  BY <1>4
<1>6. \A v \in ReportedOf(o.violations) : v.rule \in names
  BY DEF IsTold, IsViolationOf, ReportedOf
<1>7. "FAILED" \in Range(o.status.rules) <=> \E name \in names : word(name) = "FAILED"
  <2> HIDE DEF names, word
  <2>1. DOMAIN o.status.rules = names /\ \A name \in names : o.status.rules[name] = word(name)
    BY <1>3
  <2> QED
    BY <2>1 DEF Range
<1>8. (\E name \in names : reported(name, "Error") # {}) <=> HasErrors(o.violations)
  <2> HIDE DEF names
  <2> QED
    BY <1>6 DEF HasErrors
<1>9. "FAILED" \in Range(o.status.rules) <=> HasErrors(o.violations)
  <2> HIDE DEF names, word, reported
  <2> QED
    BY <1>5, <1>7, <1>8
<1>10. o.judgment = "negative" <=> HasErrors(o.violations) \/ Heard(config, o.diagnostics, "Deny") # {}
  BY <1>2 DEF Judgment
<1> QED
  BY <1>3, <1>4, <1>9, <1>10

LEMMA JudgmentIsReported ==
  ASSUME NEW config, NEW show \in BOOLEAN, NEW text, IsReportOf(text, config, outcome, show)
  PROVE  JudgmentIsTold(text)
<1>1. text.configuration = ConfigurationBlock(config, outcome.diagnostics)
  BY DEF IsReportOf, Report
<1>2. text.configuration.head = "error" <=> Heard(config, outcome.diagnostics, "Deny") # {}
  BY <1>1, ConfigurationHead
<1> DEFINE heads == {text.configuration.head} \cup {b.head : b \in Range(text.blocks)}
           words == {outcome.status.config} \cup Range(outcome.status.rules)
           deny == Heard(config, outcome.diagnostics, "Deny") # {}
<1>3. "error" \in heads <=> deny \/ HasErrors(outcome.violations)
  <2>1. "error" \in heads <=> text.configuration.head = "error" \/ \E b \in Range(text.blocks) : b.head = "error"
    OBVIOUS
  <2> QED
    BY <1>2, <2>1, ErrorsAreHeads
<1>4. "FAILED" \in words <=> deny \/ HasErrors(outcome.violations)
  BY StatusTells DEF IsReportOf
<1>5. outcome.judgment = "negative" <=> deny \/ HasErrors(outcome.violations)
  BY StatusTells DEF IsReportOf
<1> HIDE DEF heads, words, deny
<1>6. (("error" \in heads) = (outcome.judgment = "negative")) /\ (("error" \in heads) = ("FAILED" \in words))
  BY <1>3, <1>4, <1>5
<1> QED
  BY <1>6 DEF JudgmentIsTold, heads, words

LEMMA StatesAreCounted ==
  ASSUME NEW S, IsFiniteSet(S), \A v \in S : v.state \in {"Allowed", "Frozen"}
  PROVE  /\ Cardinality(S) = InState(S, "Allowed") + InState(S, "Frozen")
         /\ InState(S, "Allowed") \in Nat /\ InState(S, "Frozen") \in Nat
<1> DEFINE A == {v \in S : v.state = "Allowed"}
           F == {v \in S : v.state = "Frozen"}
<1>1. A \in SUBSET S /\ F \in SUBSET S /\ A \cup F = S /\ A \cap F = {}
  OBVIOUS
<1>2. InState(S, "Allowed") = Cardinality(A) /\ InState(S, "Frozen") = Cardinality(F)
  BY DEF InState
<1> HIDE DEF A, F
<1>3. IsFiniteSet(A) /\ IsFiniteSet(F)
  BY <1>1, FS_Subset
<1>4. Cardinality(A \cup F) = Cardinality(A) + Cardinality(F) - Cardinality(A \cap F)
  BY <1>3, FS_Union
<1>5. Cardinality(A \cap F) = 0
  BY <1>1, FS_EmptySet
<1>6. Cardinality(A) \in Nat /\ Cardinality(F) \in Nat
  BY <1>3, FS_CardinalityType
<1>7. Cardinality(S) = Cardinality(A) + Cardinality(F)
  <2>1. Cardinality(S) = Cardinality(A) + Cardinality(F) - Cardinality(A \cap F)
    BY <1>1, <1>4
  <2> QED
    BY <1>5, <1>6, <2>1
<1> QED
  BY <1>2, <1>6, <1>7

LEMMA RestIsCounted ==
  ASSUME NEW config, NEW show \in BOOLEAN, NEW text, IsReportOf(text, config, outcome, show)
  PROVE  UntoldIsCounted(text)
<1> DEFINE all == outcome.violations
           untold == all \ Told(text)
           allowed == InState(all, "Allowed")
           frozen == InState(all, "Frozen")
           counts == [allowed |-> allowed, frozen |-> frozen]
<1>1. /\ Told(text) = IF show THEN all ELSE ReportedOf(all)
      /\ text.silenced = IF show \/ allowed + frozen = 0 THEN {} ELSE {counts}
  BY ToldIs DEF IsReportOf, Report, SilencedCount
<1>2. IsFiniteSet(all) /\ \A v \in all : v.state \in States
  BY DEF IsReportOf, IsTold, IsViolationOf
<1>3. CASE show
  BY <1>1, <1>3 DEF UntoldIsCounted, ReportedOf
<1>4. CASE ~show
  <2>1. untold = {v \in all : v.state # "Reported"}
    BY <1>1, <1>4 DEF ReportedOf
  <2>2. IsFiniteSet(untold) /\ \A v \in untold : v.state \in {"Allowed", "Frozen"}
    <3>1. untold \in SUBSET all
      OBVIOUS
    <3>2. IsFiniteSet(untold)
      <4> HIDE DEF untold
      <4> QED
        BY <1>2, <3>1, FS_Subset
    <3> QED
      BY <1>2, <2>1, <3>2 DEF States
  <2>3. InState(untold, "Allowed") = allowed /\ InState(untold, "Frozen") = frozen
    <3>1. /\ {v \in untold : v.state = "Allowed"} = {v \in all : v.state = "Allowed"}
          /\ {v \in untold : v.state = "Frozen"} = {v \in all : v.state = "Frozen"}
      BY <2>1
    <3> HIDE DEF untold
    <3> QED
      BY <3>1 DEF InState
  <2>4. ReportedOf(untold) = {}
    BY <2>2 DEF ReportedOf
  <2> HIDE DEF untold, all, allowed, frozen
  <2>5. Cardinality(untold) = allowed + frozen /\ allowed \in Nat /\ frozen \in Nat
    BY <2>2, <2>3, StatesAreCounted
  <2>6. \/ untold = {} /\ text.silenced = {}
        \/ \E s \in text.silenced : Cardinality(untold) = s.allowed + s.frozen
    <3>1. CASE allowed + frozen = 0
      BY <1>1, <2>2, <2>5, <3>1, FS_EmptySet
    <3>2. CASE allowed + frozen # 0
      <4>1. counts \in text.silenced
        BY <1>1, <1>4, <3>2
      <4> QED
        BY <2>5, <4>1
    <3> QED
      BY <3>1, <3>2
  <2> QED
    BY <2>4, <2>6 DEF UntoldIsCounted, untold, all
<1> QED
  BY <1>3, <1>4

LEMMA LineIs ==
  ASSUME NEW v
  PROVE  /\ Lines(v).mark = Mark(v)
         /\ v.detail.is = "edge" => Lines(v).grown = Grown(v)
         /\ v.detail.is = "cluster" => Lines(v) = ClusterLines(v)
BY DEF Lines, ClusterLines, EdgeLines

LEMMA LinesHold ==
  ASSUME NEW config, NEW o, NEW show \in BOOLEAN, NEW text, IsReportOf(text, config, o, show)
  PROVE  LinesAreTrue(text)
<1> SUFFICES ASSUME NEW b \in Range(text.blocks), NEW v \in DOMAIN b.lines
             PROVE  /\ b.head = "silenced" => b.lines[v].mark # <<>>
                    /\ v.detail.is = "edge" => \A g \in b.lines[v].grown : g.alsoCarries # NoSymbols
  BY DEF LinesAreTrue
<1>0. HoldsBlocks(text, config, o, show)
  BY ToldIs
<1>1. PICK r \in Range(config.rules) : b = Block(o.violations, show, r)
  BY <1>0 DEF HoldsBlocks
<1>2. /\ v \in Shown(o.violations, show, r) /\ b.lines[v] = Lines(v)
      /\ b.head = BlockHead(OfRule(o.violations, r))
  BY <1>1, BlockIs
<1>3. v \in OfRule(o.violations, r) /\ v \in o.violations
  BY <1>2 DEF Shown, ReportedOf, OfRule
<1>4. ASSUME b.head = "silenced" PROVE b.lines[v].mark # <<>>
  <2>1. ReportedOf(OfRule(o.violations, r)) = {}
    BY <1>2, <1>4 DEF BlockHead
  <2>2. v.state # "Reported"
    BY <1>3, <2>1 DEF ReportedOf
  <2>3. Mark(v) # <<>>
    BY <2>2 DEF Mark
  <2> QED
    BY <1>2, <2>3, LineIs
<1>5. ASSUME v.detail.is = "edge", NEW g \in b.lines[v].grown PROVE g.alsoCarries # NoSymbols
  <2>1. GrownIsTrue(v)
    BY <1>3, <1>5 DEF IsReportOf, IsTold, IsViolationOf
  <2>2. g \in Grown(v)
    BY <1>2, <1>5, LineIs
  <2>3. PICK t \in v.detail.frozenFor : g = [frozenFor |-> t, alsoCarries |-> Surplus(EdgeSymbols(v.detail.locations), t)]
    BY <2>2 DEF Grown
  <2> QED
    BY <2>1, <2>3 DEF GrownIsTrue
<1> QED
  BY <1>4, <1>5

\* Each group of the configuration block is about something.
LEMMA GroupsHold ==
  ASSUME NEW config, NEW d, DOMAIN d = DiagnosticNames
  PROVE  GroupsAreTrue(ConfigurationBlock(config, d))
<1> DEFINE named == UNION {{<<name, pair[1]>> : pair \in d[name]} : name \in {"unlayered", "allow", "pattern"}}
           catching == {<<"catchAll", rule>> : rule \in d.catchAll}
           contradicting == {<<"contradictory", <<c.rule, c.entries>>>> : c \in d.contradictory}
           excepting == IF d.excepts = {} THEN {} ELSE {<<"excepts", "">>}
           wides == {b \in BOOLEAN : StaleEntries(d, b) # {}}
           staling == {<<"baseline", wide>> : wide \in wides}
<1>1. Explained(d) = named \cup catching \cup contradicting \cup excepting \cup staling
  BY DEF Explained
<1>2. ASSUME NEW g \in named PROVE Subjects(d, g) # {}
  <2>1. PICK name \in {"unlayered", "allow", "pattern"} : \E pair \in d[name] : g = <<name, pair[1]>>
    OBVIOUS
  <2>2. PICK pair \in d[name] : g = <<name, pair[1]>>
    BY <2>1
  <2>3. pair[2] \in Subjects(d, g)
    BY <2>2 DEF Subjects
  <2> QED
    BY <2>3
<1>3. ASSUME NEW g \in catching PROVE Subjects(d, g) # {}
  BY DEF Subjects
<1>4. ASSUME NEW g \in contradicting PROVE Subjects(d, g) # {}
  <2>1. PICK c \in d.contradictory : g = <<"contradictory", <<c.rule, c.entries>>>>
    OBVIOUS
  <2>2. c.cycle \in Subjects(d, g)
    BY <2>1 DEF Subjects
  <2> QED
    BY <2>2
<1>5. ASSUME NEW g \in excepting PROVE Subjects(d, g) # {}
  <2>1. g = <<"excepts", "">> /\ d.excepts # {}
    OBVIOUS
  <2>2. Subjects(d, g) = d.excepts
    BY <2>1 DEF Subjects
  <2> QED
    BY <2>1, <2>2
<1>6. ASSUME NEW g \in staling PROVE Subjects(d, g) # {}
  <2>1. PICK wide \in wides : g = <<"baseline", wide>>
    OBVIOUS
  <2>2. PICK u \in StaleEntries(d, wide) : TRUE
    BY <2>1
  <2>3. [rule |-> u.entry.rule, edge |-> u.entry.edge, surplus |-> u.surplus] \in Subjects(d, g)
    BY <2>1, <2>2 DEF Subjects
  <2> QED
    BY <2>3
<1>7. \A g \in Explained(d) : Subjects(d, g) # {}
  <2> HIDE DEF named, catching, contradicting, excepting, staling
  <2> QED
    BY <1>1, <1>2, <1>3, <1>4, <1>5, <1>6
<1>8. staling = {} <=> d.baseline = {}
  <2>1. ASSUME NEW u \in d.baseline PROVE staling # {}
    <3>1. PICK wide \in BOOLEAN : (u.surplus # {}) = wide
      OBVIOUS
    <3>2. u \in StaleEntries(d, wide)
      BY <3>1 DEF StaleEntries
    <3>3. <<"baseline", wide>> \in staling
      BY <3>2
    <3> QED
      BY <3>3
  <2>2. d.baseline = {} => staling = {}
    BY DEF StaleEntries
  <2> QED
    BY <2>1, <2>2
<1>9. named = {} <=> d.unlayered = {} /\ d.allow = {} /\ d.pattern = {}
  <2>1. ASSUME NEW name \in {"unlayered", "allow", "pattern"}, NEW pair \in d[name] PROVE <<name, pair[1]>> \in named
    OBVIOUS
  <2>2. ASSUME NEW g \in named PROVE \E name \in {"unlayered", "allow", "pattern"} : d[name] # {}
    OBVIOUS
  <2> HIDE DEF named
  <2>3. (d.unlayered # {} \/ d.allow # {} \/ d.pattern # {}) => named # {}
    BY <2>1
  <2>4. named # {} => (d.unlayered # {} \/ d.allow # {} \/ d.pattern # {})
    BY <2>2
  <2> QED
    BY <2>3, <2>4
<1>10. /\ catching = {} <=> d.catchAll = {}
       /\ contradicting = {} <=> d.contradictory = {}
       /\ excepting = {} <=> d.excepts = {}
  OBVIOUS
<1>11. Explained(d) = {} <=> \A name \in DOMAIN d : d[name] = {}
  <2> HIDE DEF named, catching, contradicting, excepting, staling
  <2> QED
    BY <1>1, <1>8, <1>9, <1>10 DEF DiagnosticNames
<1>12. PICK c : c = ConfigurationBlock(config, d)
  <2>1. \E c : c = ConfigurationBlock(config, d)
    OBVIOUS
  <2> QED
    BY <2>1
<1>13. c.groups = [g \in Explained(d) |-> Subjects(d, g)]
  BY <1>12 DEF ConfigurationBlock
<1>14. c.head = "none" <=> \A name \in DOMAIN d : d[name] = {}
  <2>1. ASSUME \A name \in DOMAIN d : d[name] = {} PROVE c.head = "none"
    <3>1. ~(Heard(config, d, "Deny") # {})
      BY <2>1 DEF Heard
    <3> QED
      BY <1>12, <2>1, <3>1 DEF ConfigurationBlock
  <2>2. ASSUME ~\A name \in DOMAIN d : d[name] = {} PROVE c.head # "none"
    BY <1>12, <2>2 DEF ConfigurationBlock
  <2> QED
    BY <2>1, <2>2
<1> HIDE DEF named, catching, contradicting, excepting, staling
<1> QED
  BY <1>7, <1>11, <1>12, <1>13, <1>14 DEF GroupsAreTrue

LEMMA SeveralDiffer ==
  ASSUME NEW S, IsFiniteSet(S)
  PROVE  Cardinality(S) > 1 <=> \E x, y \in S : x # y
<1>1. Cardinality(S) \in Nat /\ (Cardinality(S) = 0 <=> S = {}) /\ (Cardinality(S) = 1 <=> \E x : S = {x})
  BY FS_CardinalityType, FS_EmptySet, FS_Singleton
<1>2. (S # {} /\ ~\E x : S = {x}) <=> \E x, y \in S : x # y
  OBVIOUS
<1>3. Cardinality(S) > 1 <=> Cardinality(S) # 0 /\ Cardinality(S) # 1
  BY <1>1
<1> QED
  BY <1>1, <1>2, <1>3

LEMMA AcyclicHasNoCircular ==
  ASSUME NEW R, IsEdgeSet(R), Acyclic(R)
  PROVE  Circular(R) = {}
<1>1. OnCycles(R) = {p \in R : p[1] \in ReachedFrom({p[2]}, R)}
  BY OnCyclesAre DEF Leads
<1>2. OnCycles(R) = {}
  BY EndsOnCycles DEF Acyclic, IsEdgeSet
<1> QED
  BY <1>1, <1>2 DEF Circular

LEMMA TableIs ==
  ASSUME NEW rows, IsRanking(rows)
  PROVE  /\ EdgeTable(rows).mostCyclesFirst <=> \E r, s \in Range(rows) : r.cycles # s.cycles
         /\ EdgeTable(rows).rows = rows
<1> DEFINE counts == {r.cycles : r \in Range(rows)}
           all == [i \in DOMAIN rows |-> rows[i].cycles]
<1>1. counts = Range(all) /\ DOMAIN all = 1 .. Len(rows) /\ Len(rows) \in Nat
  BY DEF Range, IsRanking
<1>2. IsFiniteSet(counts)
  <2> HIDE DEF counts, all
  <2>1. IsFiniteSet(1 .. Len(rows))
    BY <1>1, FS_Interval
  <2> QED
    BY <1>1, <2>1, ImageIsFinite
<1>3. (EdgeTable(rows).mostCyclesFirst <=> Cardinality(counts) > 1) /\ EdgeTable(rows).rows = rows
  BY DEF EdgeTable
<1>4. (\E x, y \in counts : x # y) <=> \E r, s \in Range(rows) : r.cycles # s.cycles
  OBVIOUS
<1> HIDE DEF counts
<1>5. Cardinality(counts) > 1 <=> \E x, y \in counts : x # y
  BY <1>2, SeveralDiffer
<1> QED
  BY <1>3, <1>4, <1>5

LEMMA TangleHolds ==
  ASSUME NEW rule, NEW v, NEW tangle, tangle = Within(LeftFor(rule), v.detail.nodes), IsNumbered(tangle),
         IsTable(v.detail, tangle, rule, Frozen),
         v.detail.countsEveryCycle => Acyclic(tangle \ ListedEdges(v.detail.edges))
  PROVE  TangleIsTrue(rule, v, ClusterLines(v))
<1>1. PICK rows, d, lines : rows = v.detail.edges /\ d = v.detail /\ lines = ClusterLines(v)
  OBVIOUS
<1>2. PICK listed : listed = ListedEdges(rows)
  OBVIOUS
<1>3. /\ lines.table = EdgeTable(rows) /\ lines.cycle = d.members /\ lines.closing = ClosingSentence(d)
  BY <1>1 DEF ClusterLines
<1>4. IsRanking(rows) /\ lines.table.rows = rows
  BY <1>1, <1>3, TableIs DEF IsTable
<1>5. /\ lines.table.mostCyclesFirst <=> \E r, s \in Range(rows) : r.cycles # s.cycles
      /\ lines.table.mostCyclesFirst => \A i, j \in DOMAIN rows : i < j => rows[i].cycles >= rows[j].cycles
  BY <1>3, <1>4, TableIs DEF IsRanking
<1>6. d.countsEveryCycle => Circular(tangle \ listed) = {}
  <2>1. IsEdgeSet(tangle \ listed)
    <3>1. tangle \ listed \in SUBSET tangle
      OBVIOUS
    <3> QED
      BY <3>1, NumberedAreEdges
  <2> QED
    BY <1>1, <1>2, <2>1, AcyclicHasNoCircular
<1>7. ~d.countsEveryCycle => \E p \in tangle : IsFrozen(rule, p)
  BY <1>1 DEF IsTable, SaysFrozen, IsFrozen
<1>8. d.members # <<>> => listed \subseteq tangle /\ Circular(listed) = listed
  BY <1>1, <1>2 DEF IsTable
<1>9. /\ lines.closing = "on every cycle" => d.members = <<>> /\ d.countsEveryCycle
      /\ lines.closing = "others may stand" => d.members = <<>> /\ ~d.countsEveryCycle
      /\ lines.closing \notin {"on every cycle", "others may stand"} /\ d.members = <<>> => d.countsEveryCycle
  BY <1>3 DEF ClosingSentence
<1>10. tangle = TangleOf(rule, v) /\ listed = {row.edge : row \in Range(rows)}
  BY <1>1, <1>2 DEF TangleOf, LeftFor, ListedEdges
<1>11. /\ lines.closing = "on every cycle" => Circular(tangle \ listed) = {}
       /\ lines.closing = "others may stand" => \E p \in tangle : IsFrozen(rule, p)
       /\ lines.closing = "none" /\ lines.cycle = <<>> => Circular(tangle \ listed) = {}
       /\ lines.closing = "none" /\ lines.cycle # <<>> => listed \subseteq tangle /\ Circular(listed) = listed
  BY <1>3, <1>6, <1>7, <1>8, <1>9
<1>12. TangleIsTrue(rule, v, lines)
  BY <1>4, <1>5, <1>10, <1>11 DEF TangleIsTrue
<1> QED
  BY <1>1, <1>12

-----------------------------------------------------------------------------
(***************************************************************************)
(* The report of the last check, from what the check told.                  *)
(***************************************************************************)
ReportedInv ==
  /\ JudgedInv
  /\ Checked => LoadConfig.error = {} /\ IsTold(outcome, LoadConfig)

LEMMA ToldStays ==
  ASSUME GraphStays, options' = options, NEW o, NEW config, IsTold(o, config)
  PROVE  IsTold(o, config)'
BY DEF IsTold, Outcome, Judgment, Status, Active, ReportedOf, HasErrors, Heard, LevelOf, IsViolationOf, GrownIsTrue,
       EdgeSymbols, States

LEMMA ReportWill ==
  ASSUME JudgedInv', UNCHANGED <<nodes, edges, options, rulesFile>>,
         NEW o, o = outcome', LoadConfig.error = {}, IsTold(o, LoadConfig)
  PROVE  ReportedInv'
<1>1. PICK config : config = LoadConfig
  OBVIOUS
<1>2. IsTold(o, config)'
  BY <1>1, ToldStays DEF GraphStays
<1>3. config = LoadConfig'
  BY <1>1 DEF LoadConfig
<1>4. IsTold(outcome, LoadConfig)'
  BY <1>2, <1>3
<1> QED
  BY <1>1, <1>3, <1>4 DEF ReportedInv

LEMMA ReportCheck ==
  ASSUME ReportedInv, Check
  PROVE  ReportedInv'
<1>1. PICK config, baseline : config = LoadConfig /\ baseline = LoadBaseline(baselineFile)
  OBVIOUS
<1>2. PICK o : o = outcome' /\ o = CheckOutcome(config, baseline)
  BY <1>1 DEF Check
<1>3. JudgedInv'
  BY JudgeCheck DEF ReportedInv
<1>4. CASE ~Checked'
  BY <1>3, <1>4 DEF ReportedInv
<1>5. CASE Checked'
  <2>1. CheckOutcome(config, baseline).error = {}
    BY <1>2, <1>5 DEF Checked
  <2>2. config.error = {}
    BY <2>1 DEF CheckOutcome, Failed
  <2>3. IsCounted /\ AreNamedApart(config.rules) /\ AreListed(config.rules)
    BY <1>1, <2>2, ProjectIsCounted, ConfigIsNamedApart, ConfigIsListed DEF JudgedInv, ReportedInv
  <2>4. IsTold(o, config)
    BY <1>2, <2>1, <2>3, CheckIsTold
  <2> QED
    BY <1>1, <1>2, <1>3, <2>2, <2>4, ReportWill DEF Check, Command
<1> QED
  BY <1>4, <1>5

LEMMA ReportStep ==
  ASSUME ReportedInv, CommandNext \/ UNCHANGED checkVars
  PROVE  ReportedInv'
<1>1. JudgedInv'
  BY JudgeStep DEF ReportedInv
<1>2. CASE Check
  BY <1>2, ReportCheck
<1>3. CASE GenerateBaseline
  BY <1>1, <1>3, GeneratedIsNoCheck DEF ReportedInv
<1>4. CASE EditCode \/ EditRules
  <2>1. ~Checked'
    BY <1>4 DEF EditCode, EditRules, Change, NoOutcome, Checked
  <2> QED
    BY <1>1, <2>1 DEF ReportedInv
<1>5. CASE UNCHANGED checkVars
  <2>1. CASE ~Checked
    <3>1. ~Checked'
      BY <1>5, <2>1 DEF checkVars, Checked
    <3> QED
      BY <1>1, <3>1 DEF ReportedInv
  <2>2. CASE Checked
    <3>1. PICK o : o = outcome /\ o = outcome'
      BY <1>5 DEF checkVars
    <3> QED
      BY <1>1, <1>5, <2>2, <3>1, ReportWill DEF ReportedInv, checkVars
  <2> QED
    BY <2>1, <2>2
<1>6. CASE ~Checked'
  BY <1>1, <1>6 DEF ReportedInv
<1> QED
  BY <1>2, <1>3, <1>4, <1>5, <1>6, CommandKinds

\* A tangle that is told of, and the rule it is told of.
LEMMA ToldTangleHolds ==
  ASSUME ReportedInv, Checked, NEW v \in outcome.violations, v.detail.is = "cluster",
         NEW rule \in Range(LoadConfig.rules), v.rule = rule.name
  PROVE  TangleIsTrue(rule, v, ClusterLines(v))
<1>1. PICK r \in Active(LoadConfig) : IsViolationOf(r, v)
  BY DEF ReportedInv, IsTold
<1>2. r.kind = "NoCycles" /\ v.rule = r.name /\ r \in Range(LoadConfig.rules)
  BY <1>1 DEF IsViolationOf, Active
<1>3. rule = r
  BY <1>2, ProjectIsCounted, ConfigIsNamedApart DEF AreNamedApart, ReportedInv, JudgedInv
<1>4. PICK found : found = ViolationsOf(outcome.violations, r.name)
  OBVIOUS
<1>5. v \in TanglesOf(found)
  BY <1>2, <1>4 DEF ViolationsOf, TanglesOf
<1>6. PICK left : left = LeftFor(r)
  OBVIOUS
<1>7. JudgedOver(found, Scope(r), left, r, Frozen)
  BY <1>1, <1>2, <1>4, <1>6 DEF ReportedInv, JudgedInv, Judged, AreJudged
<1>8. PICK tangle : tangle = Within(left, v.detail.nodes)
  OBVIOUS
<1>9. /\ IsTable(v.detail, tangle, r, Frozen)
      /\ v.detail.countsEveryCycle => Acyclic(tangle \ ListedEdges(v.detail.edges))
  BY <1>5, <1>7, <1>8 DEF JudgedOver
<1>10. IsNumbered(tangle)
  <2>1. IsNumbered(left)
    BY <1>6, ProjectIsCounted, ScopeIsNumbered DEF ReportedInv, JudgedInv
  <2>2. tangle \in SUBSET left
    BY <1>8 DEF Within
  <2> QED
    BY <2>1, <2>2, NumberedAreEdges
<1> QED
  BY <1>3, <1>6, <1>8, <1>9, <1>10, TangleHolds

LEMMA ReportHolds ==
  ASSUME ReportedInv
  PROVE  ReportIsTrue
<1> SUFFICES ASSUME Checked, NEW config, config = LoadConfig, NEW show \in BOOLEAN,
                    NEW text, text = Report(config, outcome, show)
             PROVE  /\ JudgmentIsTold(text)
                    /\ UntoldIsCounted(text)
                    /\ LinesAreTrue(text)
                    /\ \A v \in Told(text) : v.detail.is = "cluster" =>
                         \A rule \in Range(config.rules) :
                           v.rule = rule.name => TangleIsTrue(rule, v, ClusterLines(v))
                    /\ GroupsAreTrue(text.configuration)
  BY DEF ReportIsTrue
<1>1. IsReportOf(text, config, outcome, show)
  BY ProjectIsCounted, ConfigIsListed DEF IsReportOf, ReportedInv, JudgedInv
<1>2. JudgmentIsTold(text) /\ UntoldIsCounted(text) /\ LinesAreTrue(text)
  BY <1>1, JudgmentIsReported, RestIsCounted, LinesHold
<1>3. ASSUME NEW v \in Told(text), v.detail.is = "cluster",
             NEW rule \in Range(config.rules), v.rule = rule.name
      PROVE  TangleIsTrue(rule, v, ClusterLines(v))
  <2>1. v \in outcome.violations
    BY <1>1, ToldIs DEF ReportedOf
  <2> QED
    BY <1>3, <2>1, ToldTangleHolds
<1>4. GroupsAreTrue(text.configuration)
  <2>1. text.configuration = ConfigurationBlock(config, outcome.diagnostics)
    BY DEF Report
  <2>2. DOMAIN outcome.diagnostics = DiagnosticNames
    BY <1>1 DEF IsReportOf, IsTold
  <2> QED
    BY <2>1, <2>2, GroupsHold
<1> QED
  BY <1>2, <1>3, <1>4

(***************************************************************************)
(* The report can be trusted, whatever the code, the rules and the baseline *)
(* are: its errors are the exit code and the status lines, what it leaves   *)
(* out is silenced and counted, and what it says of a tangle, the order of  *)
(* its edges, their lying on every cycle, others that may stand, is so of   *)
(* the tangle in the code (format_violations, cluster_block,                *)
(* diagnostics_block).                                                      *)
(***************************************************************************)
THEOREM ReportIsTrueHolds == CommandSpec => []ReportIsTrue
<1>1. CommandInit => ReportedInv
  <2>1. CommandInit => ~Checked
    BY DEF CommandInit, CheckInit, Checked, NoOutcome
  <2> QED
    BY <2>1 DEF CommandInit, CheckInit, CodeIsOfProject, JudgedInv, ReportedInv
<1>2. ReportedInv /\ [CommandNext]_commandVars => ReportedInv'
  BY ReportStep DEF commandVars
<1>3. ReportedInv => ReportIsTrue
  BY ReportHolds
<1> QED
  BY <1>1, <1>2, <1>3, PTL DEF CommandSpec

=============================================================================

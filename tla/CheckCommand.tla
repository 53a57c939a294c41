----------------------------- MODULE CheckCommand -----------------------------
(***************************************************************************)
(* `cargo arc check` (run_check in src/src/cli.rs, check_all in             *)
(* rules/engine.rs, rules/diagnostics.rs, rules/format.rs): the rules file  *)
(* is loaded, its rules are checked, gaps in it are diagnosed, and          *)
(* --generate-baseline freezes what is reported. Between the commands the   *)
(* code and the files change, and a write of the baseline may break off.    *)
(***************************************************************************)
EXTENDS Rules

CONSTANT Projects   \* the versions that a project's code and files have

VARIABLES
  project,
  rulesFile, baselineFile,
  outcome,                   \* of the command that just ran
  frozenAt                   \* history: the code that a rule's entries were written for

checkVars == <<nodes, edges, options, project, rulesFile, baselineFile, outcome, frozenAt>>

IsProject(p) ==
  /\ p.options \subseteq [explicit : BOOLEAN, reexports : BOOLEAN]
  /\ \A c \in p.codes :
       /\ DOMAIN c = {"nodes", "edges"}
       /\ DOMAIN c.nodes \subseteq Nat /\ IsFiniteSet(DOMAIN c.nodes)
       /\ c.edges \in Seq(Range(c.edges))
       /\ \A e \in Range(c.edges) :
            /\ {e.src, e.dst} \subseteq DOMAIN c.nodes
            /\ IsFiniteSet(UNION {l.symbols : l \in e.locations})
            /\ e.weight = "ModuleDep" => {c.nodes[e.src].kind, c.nodes[e.dst].kind} \subseteq {"crate", "module"}
       /\ \A n \in DOMAIN c.nodes :
            c.nodes[n].kind = "module" => \E m \in DOMAIN c.nodes : c.nodes[m].kind = "crate"
  /\ \A f \in p.files :
       \/ f \in {Missing, Garbled}
       \/ /\ DOMAIN f = RawConfig /\ f.rules \in Seq(Range(f.rules))
          /\ \A r \in Range(f.rules) :
               /\ r.kind \in RuleKinds /\ DOMAIN r = RawRule \cup Params(r.kind)
               /\ r.kind = "Layers" => r.layers \in Seq(Range(r.layers)) /\ r.direction \in Directions
  /\ \A f \in p.baselines :
       f \in {Missing, Garbled} \/ \A e \in f.entries : DOMAIN e = BaselineEntry

\* A name stands for one node.
NamesDiffer ==
  \A p \in Projects : \A c \in p.codes :
    \A m, n \in DOMAIN c.nodes : c.nodes[m].path = c.nodes[n].path => m = n

ASSUME CheckAssumption == \A p \in Projects : IsProject(p)

NoOutcome == [command |-> "none"]
Failed(command, error) == [command |-> command, error |-> error, judgment |-> "failed"]

CheckInit ==
  /\ project \in Projects
  /\ \E code \in project.codes : nodes = code.nodes /\ edges = code.edges
  /\ options \in project.options
  /\ rulesFile \in project.files
  /\ baselineFile \in project.baselines
  /\ outcome = NoOutcome
  /\ frozenAt = [r \in {} |-> NoOutcome]

-----------------------------------------------------------------------------
\* Rules at Ignore are not checked and say nothing about the configuration.
Active(config) == {r \in Range(config.rules) : r.severity # "Ignore"}
IgnoredRules(config) == {r.name : r \in Range(config.rules) \ Active(config)}

-----------------------------------------------------------------------------
SpansCrates(p) == p.form = "all" \/ (p.form = "subtree" /\ Len(p.name) = 1)   \* no `::` in it

\* The nodes that an exhaustive rule claims, and of those without a layer the
\* topmost ones.
Claimed(rule) ==
  LET patterns == PatternsOf(rule)
      touched == {OwningCrate(n) : n \in ResolveAll({p \in patterns : ~SpansCrates(p)})}
  IN  (IF \E p \in patterns : SpansCrates(p) THEN CrateNodes ELSE {})
        \cup {n \in ModuleNodes : OwningCrate(n) \in touched}
Unsorted(rule, except) == Claimed(rule) \ (ResolveAll(PatternsOf(rule)) \cup ResolveAll(except))
Topmost(S) == {n \in S : ParentOf(n) \cap S = {}}

UnlayeredNodes(config) ==
  UNION {{<<r.name, n>> : n \in Topmost(Unsorted(r, config.diagnostics.except))} :
         r \in {q \in Active(config) : q.kind = "Layers" /\ q.exhaustive}}

Dead(patterns) == {p \in patterns : ResolvePattern(p) = {}}
PathOf(to) == IF to.form = "path" THEN {to.pattern} ELSE {}
PatternsOfAllow(rule) == UNION {{e.from} \cup PathOf(e.to) : e \in Range(rule.allow)}
DeadAllows(config) == UNION {{<<r.name, p>> : p \in Dead(PatternsOfAllow(r))} : r \in Active(config)}
UnmatchedPatterns(config) ==
  UNION {{<<r.name, p>> : p \in Dead(PatternsOf(r))} : r \in Active(config)}
DeadCatchAlls(config) ==
  {r.name : r \in {q \in Active(config) :
     q.kind = "Layers" /\ HasCatchAll(q.layers) /\ LayerRest(q.layers) = {}}}

\* The order that an entry declares: a pair that it covers both ways it leaves
\* unordered.
RankedPairs(entry) == {p \in Pairs(entry) : <<p[2], p[1]>> \notin Pairs(entry)}

\* From the smallest node along the smallest successors until one repeats.
ExampleCycle(R) ==
  LET way[k \in Nat \ {0}] ==
        IF k = 1 THEN <<Min({p[1] : p \in R})>>
        ELSE LET prev == way[k - 1]
             IN  IF \E i \in 1 .. Len(prev) - 1 : prev[i] = Last(prev) THEN prev
                 ELSE Append(prev, Min({p[2] : p \in {q \in R : q[1] = Last(prev)}}))
      closed == way[Cardinality(R) + 1]
  IN  SubSeq(closed, CHOOSE i \in DOMAIN closed : closed[i] = Last(closed), Len(closed))

ContradictoryAllows(config) ==
  LET order(rule) == UNION {RankedPairs(e) : e \in Range(rule.allow)}
      circle(rule, R) ==
        [rule |-> rule.name, cycle |-> ExampleCycle(R),
         entries |-> {i \in DOMAIN rule.allow : RankedPairs(rule.allow[i]) \cap R # {}}]
  IN  UNION {{circle(r, Within(order(r), scc)) : scc \in Sccs(order(r))} : r \in Active(config)}

\* What the configuration wants to hear of, by the name of its level.
CollectDiagnostics(config, baseline, hits) ==
  LET at == config.diagnostics
      heard(level, found) == IF level = "Allow" THEN {} ELSE found
  IN  [unlayered     |-> heard(at.unlayered, UnlayeredNodes(config)),
       excepts       |-> heard(at.unlayered, Dead(at.except)),
       baseline      |-> heard(at.baseline, {u \in Unmatched(baseline, hits) :
                                               u.entry.rule \notin IgnoredRules(config)}),
       allow         |-> heard(at.allow, DeadAllows(config)),
       contradictory |-> heard(at.contradictory, ContradictoryAllows(config)),
       pattern       |-> heard(at.pattern, UnmatchedPatterns(config)),
       catchAll      |-> heard(at.pattern, DeadCatchAlls(config))]

\* The level that each is set by.
LevelOf(config) ==
  [name \in {"unlayered", "excepts", "baseline", "allow", "contradictory", "pattern", "catchAll"} |->
     config.diagnostics[CASE name = "excepts" -> "unlayered" [] name = "catchAll" -> "pattern"
                          [] OTHER -> name]]
Heard(config, diagnostics, level) ==
  {name \in DOMAIN diagnostics : LevelOf(config)[name] = level /\ diagnostics[name] # {}}

-----------------------------------------------------------------------------
\* The rules of a run that no order of layers contradicts, and its diagnostics
\* once every rule has matched what it could of the baseline.
CheckAll(config, baseline) ==
  LET checked(result) ==
        [error |-> {}, result |-> result,
         diagnostics |-> CollectDiagnostics(config, baseline, result.hits)]
  IN  IF \E r \in Active(config) : r.kind = "Layers" /\ Overlaps(r.layers) # {}
      THEN [error |-> {"LayerOverlap"}]
      ELSE checked(AllOf({CheckRule(r, baseline) : r \in Active(config)}))

ReportedOf(violations) == {v \in violations : v.state = "Reported"}
HasErrors(violations) == \E v \in ReportedOf(violations) : v.severity = "Error"

Judgment(config, run) ==
  IF HasErrors(run.result.violations) \/ Heard(config, run.diagnostics, "Deny") # {}
  THEN "negative" ELSE "clean"

\* A default rules file that is missing stands for the implicit rule.
LoadConfig ==
  LET orImplicit(loaded) ==
        IF loaded.error = {"FileNotFound"} /\ ~options.explicit THEN Implicit ELSE loaded
  IN  orImplicit(Load(rulesFile))

\* The lines on stdout: a word for every rule checked, and one for the
\* configuration.
StatusWord(errors, warnings) ==
  CASE errors # {} -> "FAILED" [] errors = {} /\ warnings # {} -> "WARN" [] OTHER -> "ok"
Status(config, run) ==
  LET reported(name, severity) ==
        {v \in ReportedOf(run.result.violations) : v.rule = name /\ v.severity = severity}
  IN  [rules |-> [name \in {r.name : r \in Active(config)} |->
                    StatusWord(reported(name, "Error"), reported(name, "Warn"))],
       config |-> StatusWord(Heard(config, run.diagnostics, "Deny"), Heard(config, run.diagnostics, "Warn"))]

Outcome(config, run) ==
  [command |-> "check", error |-> {}, judgment |-> Judgment(config, run),
   violations |-> run.result.violations, diagnostics |-> run.diagnostics,
   status |-> Status(config, run)]

CheckOutcome(config, baseline) ==
  LET orFailed(run) ==
        IF run.error # {} THEN Failed("check", run.error) ELSE Outcome(config, run)
  IN  CASE config.error # {}   -> Failed("check", config.error)
        [] config.error = {} /\ baseline.error # {} -> Failed("check", baseline.error)
        [] OTHER -> orFailed(CheckAll(config, baseline.entries))

Command == UNCHANGED <<nodes, edges, options, project, rulesFile>>

Check ==
  /\ Command
  /\ outcome' = CheckOutcome(LoadConfig, LoadBaseline(baselineFile))
  /\ UNCHANGED <<baselineFile, frozenAt>>

\* Mutant: the entries of ignored rules are lost.
RegeneratedOfChecked(config, run) == Merged(run.result.entries)

\* What --generate-baseline writes: the entries of a run without a baseline,
\* and the old entries of ignored rules, unless the old file is unreadable.
Regenerated(config, run) ==
  Merged(run.result.entries
           \cup EntriesUnder(LoadBaseline(baselineFile).entries, IgnoredRules(config)))

Snapshot(rule) ==
  [nodes |-> nodes, edges |-> edges,
   rule |-> [key \in DOMAIN rule \ {"severity"} |-> rule[key]]]
FrozenNow(config) ==
  [name \in {r.name : r \in Active(config)} \cup (DOMAIN frozenAt \cap IgnoredRules(config)) |->
     IF name \in IgnoredRules(config) THEN frozenAt[name]
     ELSE Snapshot(CHOOSE r \in Active(config) : r.name = name)]

\* The file has its entries in an order; a write that breaks off leaves the
\* first of them, or a file that is not TOML.
Written(entries) == [is |-> "toml", version |-> FormatVersion, entries |-> entries]
Cut(entries) ==
  LET order == SetToSeq(entries)
  IN  {Garbled} \cup {Written({x \in entries : \E i \in 1 .. k : order[i] = x}) :
                       k \in 0 .. Cardinality(entries) - 1}

WriteBaseline(config, entries) ==
  \/ /\ outcome' = [command |-> "generate", error |-> {}, judgment |-> "clean"]
     /\ baselineFile' = Written(entries)
     /\ frozenAt' = FrozenNow(config)
  \/ /\ outcome' = Failed("generate", {"BaselineIo"})
     /\ baselineFile' \in Cut(entries)
     /\ frozenAt' = [name \in {} |-> NoOutcome]

Refused(error) == outcome' = Failed("generate", error) /\ UNCHANGED <<baselineFile, frozenAt>>

GenerateBaseline ==
  /\ Command
  /\ \E config \in {LoadConfig} :
       IF config.error # {} THEN Refused(config.error)
       ELSE IF DeadAllows(config) # {} THEN Refused({"DeadAllow"})
       ELSE \E run \in {CheckAll(config, {})} :
              IF run.error # {} THEN Refused(run.error)
              ELSE WriteBaseline(config, Regenerated(config, run))

-----------------------------------------------------------------------------
Change ==
  /\ outcome' = NoOutcome
  /\ UNCHANGED <<options, project, baselineFile, frozenAt>>

EditCode ==
  /\ Change
  /\ \E code \in project.codes : nodes' = code.nodes /\ edges' = code.edges
  /\ UNCHANGED rulesFile

EditRules ==
  /\ Change
  /\ rulesFile' \in project.files
  /\ UNCHANGED <<nodes, edges>>

-----------------------------------------------------------------------------
Checked == outcome.command = "check" /\ outcome.error = {}
CheckedRules(kind) == {r \in Active(LoadConfig) : r.kind = kind}
Frozen == LoadBaseline(baselineFile).entries
IsFrozen(rule, p) ==
  \E x \in Frozen : SameKey(x, EdgeEntry(rule, p)) /\ CoversSymbols(x.symbols, EdgeEntry(rule, p).symbols)

(***************************************************************************)
(* Wherever a dependency leads from one layered node to another against the *)
(* order, on whatever way, a violation is found on that way, and nothing    *)
(* else is (check_layers: a route stops at a layered node because the order *)
(* is transitive). Whether the baseline then silences it is not asked here: *)
(* FrozenStaysGreen and StaleEntriesAreDropped are about the entries.       *)
(***************************************************************************)
OrderIsChecked ==
  Checked =>
    LET leads == {<<e.src, e.dst>> : e \in ProductionEdges}
        reach == [n \in DOMAIN nodes |-> ReachedFrom({n}, leads)]
    IN  \A r \in CheckedRules("Layers") :
          LET index == LayerIndex(r.layers)
              found == {v.detail.edge : v \in {u \in outcome.violations : u.rule = r.name}}
          IN  /\ \A p \in found : Rejects(r, index, p[1], p[2]) /\ p[2] \in reach[p[1]]
              /\ \A a, b \in DOMAIN index : b \in reach[a] /\ Rejects(r, index, a, b) =>
                   \E p \in found : p[1] \in reach[a] /\ b \in reach[p[2]]

(***************************************************************************)
(* Every edge on a cycle within a rule's scope is judged: an allowed edge   *)
(* is listed as such, any other one that still is on a cycle lies in one    *)
(* tangle, and that is frozen if and only if the baseline covers everything *)
(* that its cycles carry. Without the listed edges a tangle that promises   *)
(* it is free of cycles (check_cycles, drop_allowed_edges,                  *)
(* freeze_cycle_edges).                                                     *)
(***************************************************************************)
CyclesAreJudged ==
  Checked => \A r \in CheckedRules("NoCycles") :
    LET on(R) == {p \in R : p[1] \in ReachedFrom({p[2]}, R)}
        scope == Scope(r)
        left == {p \in scope : CoveredBy(r.allow, p[1], p[2]) = {}}
        found == {v \in outcome.violations : v.rule = r.name}
        tangles == {v \in found : v.detail.is = "cluster"}
        around(p) == {q \in on(left) : q[1] \in ReachedFrom({p[1]}, left) /\ p[1] \in ReachedFrom({q[2]}, left)}
    IN  /\ {v.detail.edge : v \in {u \in found : u.state = "Allowed"}} = on(scope) \ left
        /\ \A p \in on(left) :
             /\ Cardinality({v \in tangles : {p[1], p[2]} \subseteq v.detail.nodes}) = 1
             /\ \A v \in tangles : {p[1], p[2]} \subseteq v.detail.nodes =>
                  (v.state = "Frozen" <=> \A q \in around(p) : IsFrozen(r, q))
        /\ \A v \in tangles : v.detail.countsEveryCycle =>
             on(Within(left, v.detail.nodes) \ {e.edge : e \in Range(v.detail.edges)}) = {}

(***************************************************************************)
(* Code that a baseline was generated for checks green, also when its rule  *)
(* was switched off since, the baseline generated again and the rule        *)
(* switched on: nothing of the rule is reported, its status is ok, and none *)
(* of its entries is stale (run_generate_baseline, entries_under).          *)
(***************************************************************************)
FrozenStaysGreen ==
  Checked => \A r \in Active(LoadConfig) :
    r.name \in DOMAIN frozenAt /\ frozenAt[r.name] = Snapshot(r) =>
      /\ \A v \in ReportedOf(outcome.violations) : v.rule # r.name
      /\ outcome.status.rules[r.name] = "ok"
      /\ \A u \in outcome.diagnostics.baseline : u.entry.rule # r.name

(***************************************************************************)
(* The entries that are diagnosed as stale are those that generating the    *)
(* baseline again would drop or narrow (Baseline::unmatched and             *)
(* Baseline::write see the same edges).                                     *)
(***************************************************************************)
StaleEntriesAreDropped ==
  Checked /\ LoadConfig.diagnostics.baseline # "Allow" =>
    {u.entry : u \in outcome.diagnostics.baseline} =
      {x \in Frozen : x.rule \notin IgnoredRules(LoadConfig) /\
         ~\E y \in Regenerated(LoadConfig, CheckAll(LoadConfig, {})) : SameKey(x, y) /\ CoversSymbols(y.symbols, x.symbols)}

(***************************************************************************)
(* After a baseline is generated, only what is added is reported            *)
(* (docs/RULES.md: "a check succeeds and reports only what is added after   *)
(* it").                                                                    *)
(***************************************************************************)
OnlyAdditionsReported ==
  Checked => \A r \in Active(LoadConfig) :
    (/\ r.name \in DOMAIN frozenAt
     /\ frozenAt[r.name].rule = Snapshot(r).rule /\ frozenAt[r.name].nodes = nodes
     /\ \A e \in EdgeSet : \E f \in Range(frozenAt[r.name].edges) :
          e.locations \subseteq f.locations /\ [e EXCEPT !.locations = f.locations] = f)
    => \A v \in ReportedOf(outcome.violations) : v.rule # r.name

=============================================================================

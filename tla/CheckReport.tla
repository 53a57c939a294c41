------------------------------ MODULE CheckReport ------------------------------
(***************************************************************************)
(* What `cargo arc check` tells its reader (src/src/rules/format.rs): a     *)
(* block for each rule with something to show, a count of what is silenced, *)
(* and a block for the gaps in the configuration. Words, columns and the    *)
(* line breaks of long lists are left out; what a line claims is not.       *)
(***************************************************************************)
EXTENDS CheckCommand

\* violation_body: the state behind the subject, nothing behind a reported one.
Mark(v) == IF v.state = "Reported" THEN <<>> ELSE <<v.state, v.by>>

\* What an entry tolerates that no longer covers the edge, and what it lacks.
Grown(v) ==
  {[frozenFor |-> t, alsoCarries |-> Surplus(EdgeSymbols(v.detail.locations), t)] : t \in v.detail.frozenFor}

EdgeLines(v) ==
  [edge |-> v.detail.edge, mark |-> Mark(v), grown |-> Grown(v), written |-> v.detail.via,
   at |-> v.detail.locations]

\* edge_table: an order is claimed only where the counts differ.
\* Mutant: it is claimed of every longer list.
EdgeTableOfSeveral(rows) == [mostCyclesFirst |-> Len(rows) > 1, rows |-> rows]
EdgeTable(rows) == [mostCyclesFirst |-> Cardinality({r.cycles : r \in Range(rows)}) > 1, rows |-> rows]

\* The sentence that closes a tangle of several cycles.
ClosingSentence(d) ==
  LET pairedOff == Len(d.edges) = d.cycles /\ \A r \in Range(d.edges) : r.cycles = 1
  IN  CASE d.members # <<>> -> "none"
        [] d.members = <<>> /\ d.countsEveryCycle -> IF pairedOff THEN "none" ELSE "on every cycle"
        [] OTHER -> "others may stand"

\* cluster_block.
ClusterLines(v) ==
  [place |-> v.detail.place, of |-> <<v.detail.position, v.detail.total>>, mark |-> Mark(v),
   modules |-> Cardinality(v.detail.nodes), cycles |-> v.detail.cycles, cycle |-> v.detail.members,
   table |-> EdgeTable(v.detail.edges), closing |-> ClosingSentence(v.detail)]

Lines(v) == IF v.detail.is = "cluster" THEN ClusterLines(v) ELSE EdgeLines(v)

\* The head of a rule's block.
\* Mutant: by its severity alone.
BlockHeadBySeverity(found) == IF \E v \in found : v.severity = "Error" THEN "error" ELSE "warning"
BlockHead(found) ==
  CASE ReportedOf(found) = {} -> "silenced"
    [] \E v \in ReportedOf(found) : v.severity = "Error" -> "error"
    [] OTHER -> "warning"

\* format_violations: the rules in their order, each with all that it found,
\* since a result holds the violations of a rule side by side and names differ.
OfRule(violations, rule) == {v \in violations : v.rule = rule.name}
Shown(violations, showSilenced, rule) ==
  IF showSilenced THEN OfRule(violations, rule) ELSE ReportedOf(OfRule(violations, rule))
Block(violations, showSilenced, rule) ==
  [head |-> BlockHead(OfRule(violations, rule)), kind |-> rule.kind, rule |-> rule.name,
   lines |-> [v \in Shown(violations, showSilenced, rule) |-> Lines(v)]]
Blocks(config, violations, showSilenced) ==
  LET heard == {i \in DOMAIN config.rules : Shown(violations, showSilenced, config.rules[i]) # {}}
      places == SortedBy({<<<<i>>, i>> : i \in heard})
  IN  [k \in DOMAIN places |-> Block(violations, showSilenced, config.rules[places[k]])]

InState(violations, state) == Cardinality({v \in violations : v.state = state})
SilencedCount(violations, showSilenced) ==
  LET counts == [allowed |-> InState(violations, "Allowed"), frozen |-> InState(violations, "Frozen")]
  IN  IF showSilenced \/ counts.allowed + counts.frozen = 0 THEN {} ELSE {counts}

(***************************************************************************)
(* diagnostics_block: one group for each name and explanation, wherever its *)
(* members stand, with what they are about.                                 *)
(***************************************************************************)
StaleEntries(d, wide) == {u \in d.baseline : (u.surplus # {}) = wide}

\* explanation: most name the rule, some nothing.
Explained(d) ==
  (UNION {{<<name, pair[1]>> : pair \in d[name]} : name \in {"unlayered", "allow", "pattern"}})
    \cup {<<"catchAll", rule>> : rule \in d.catchAll}
    \cup {<<"contradictory", <<c.rule, c.entries>>>> : c \in d.contradictory}
    \cup (IF d.excepts = {} THEN {} ELSE {<<"excepts", "">>})
    \cup {<<"baseline", wide>> : wide \in {b \in BOOLEAN : StaleEntries(d, b) # {}}}

Subjects(d, g) ==
  CASE g[1] = "catchAll" -> {CatchAll}
    [] g[1] = "contradictory" -> {c.cycle : c \in {e \in d.contradictory : <<e.rule, e.entries>> = g[2]}}
    [] g[1] = "excepts" -> d.excepts
    [] g[1] = "baseline" ->
         {[rule |-> u.entry.rule, edge |-> u.entry.edge, surplus |-> u.surplus] : u \in StaleEntries(d, g[2])}
    [] OTHER -> {pair[2] : pair \in {p \in d[g[1]] : p[1] = g[2]}}

ConfigurationBlock(config, d) ==
  [head |-> CASE \A name \in DOMAIN d : d[name] = {} -> "none"
              [] Heard(config, d, "Deny") # {} -> "error"
              [] OTHER -> "warning",
   groups |-> [g \in Explained(d) |-> Subjects(d, g)]]

Report(config, o, showSilenced) ==
  [blocks |-> Blocks(config, o.violations, showSilenced),
   silenced |-> SilencedCount(o.violations, showSilenced),
   configuration |-> ConfigurationBlock(config, o.diagnostics)]

-----------------------------------------------------------------------------
Told(text) == UNION {DOMAIN b.lines : b \in Range(text.blocks)}

\* An exit code of 1 has an error in the report and FAILED in a status line.
JudgmentIsTold(text) ==
  LET heads == {text.configuration.head} \cup {b.head : b \in Range(text.blocks)}
      words == {outcome.status.config} \cup Range(outcome.status.rules)
  IN  /\ ("error" \in heads) = (outcome.judgment = "negative")
      /\ ("error" \in heads) = ("FAILED" \in words)

\* What stands in no block is silenced and counted.
UntoldIsCounted(text) ==
  LET untold == outcome.violations \ Told(text)
  IN  /\ ReportedOf(untold) = {}
      /\ \/ untold = {} /\ text.silenced = {}
         \/ \E s \in text.silenced : Cardinality(untold) = s.allowed + s.frozen

LinesAreTrue(text) ==
  \A b \in Range(text.blocks) : \A v \in DOMAIN b.lines :
    /\ b.head = "silenced" => b.lines[v].mark # <<>>
    /\ v.detail.is = "edge" => \A g \in b.lines[v].grown : g.alsoCarries # NoSymbols

\* Allowed edges are not part of a tangle.
TangleOf(rule, v) == Within(Scope(rule) \ AllowedEdges(rule), v.detail.nodes)
Circular(R) == {p \in R : p[1] \in ReachedFrom({p[2]}, R)}

TangleIsTrue(rule, v, lines) ==
  LET tangle == TangleOf(rule, v)
      rows == lines.table.rows
      listed == {row.edge : row \in Range(rows)}
      breaksAll == Circular(tangle \ listed) = {}
  IN  /\ lines.table.mostCyclesFirst <=> \E r, s \in Range(rows) : r.cycles # s.cycles
      /\ lines.table.mostCyclesFirst =>
           \A i, j \in DOMAIN rows : i < j => rows[i].cycles >= rows[j].cycles
      /\ lines.closing = "on every cycle" => breaksAll
      /\ lines.closing = "others may stand" => \E p \in tangle : IsFrozen(rule, p)
      /\ lines.closing = "none" /\ lines.cycle = <<>> => breaksAll
      /\ lines.closing = "none" /\ lines.cycle # <<>> => listed \subseteq tangle /\ Circular(listed) = listed

GroupsAreTrue(configuration) ==
  /\ \A g \in DOMAIN configuration.groups : configuration.groups[g] # {}
  /\ (DOMAIN configuration.groups = {}) = (configuration.head = "none")

(***************************************************************************)
(* The report can be trusted. An exit code of 1 has an error in it, as the  *)
(* status lines have, and no other run has one. What stands in no block is  *)
(* silenced and counted. An entry that no longer covers its edge lacks      *)
(* something. Rows that promise an order have it; a list that is said to    *)
(* lie on every cycle does, with allowed edges taken out; and others are    *)
(* said to stand only in a tangle with something frozen (docs/RULES.md,     *)
(* "no-cycles" and the baseline; format_violations, cluster_block).         *)
(***************************************************************************)
ReportIsTrue ==
  Checked => \E config \in {LoadConfig} : \A showSilenced \in BOOLEAN :
    \E text \in {Report(config, outcome, showSilenced)} :
      /\ JudgmentIsTold(text)
      /\ UntoldIsCounted(text)
      /\ LinesAreTrue(text)
      /\ \A v \in Told(text) : v.detail.is = "cluster" =>
           \A rule \in Range(config.rules) :
             v.rule = rule.name => TangleIsTrue(rule, v, ClusterLines(v))
      /\ GroupsAreTrue(text.configuration)

=============================================================================

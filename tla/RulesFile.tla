------------------------------ MODULE RulesFile ------------------------------
(***************************************************************************)
(* arc-rules.toml (src/src/rules/config.rs): what is written becomes the    *)
(* configuration of a run, or the first reason why it cannot. `Missing` and *)
(* `Garbled` stand for a file that is not there and for one that is not     *)
(* TOML of this form.                                                       *)
(***************************************************************************)
EXTENDS Matching

CONSTANTS ImplicitRuleName,   \* "no cycles"
          FormatVersion,
          NoName              \* an entry that no named pattern brought in

Missing == [is |-> "missing"]
Garbled == [is |-> "garbled"]

Severities == {"Error", "Warn", "Ignore"}
Directions == {"TopDown", "BottomUp"}
RuleKinds == {"ForbiddenDependency", "NoCycles", "Layers"}
DiagnosticLevels == {"Allow", "Warn", "Deny"}

\* As written: a severity may be "Default", `retired` is a key that no longer
\* exists, an item of `allow` is an entry or a reference to a named pattern.
RawRule == {"name", "severity", "allow", "retired", "kind"}
Rule == {"name", "severity", "allow", "kind"}
Params(kind) ==
  CASE kind = "ForbiddenDependency" -> {"from", "to"}
    [] kind = "NoCycles"            -> {"scope"}
    [] kind = "Layers"              -> {"layers", "direction", "exhaustive"}

RawConfig == {"is", "version", "default", "rules", "diagnostics", "patterns"}

DefaultDiagnostics ==
  [unlayered |-> "Deny", except |-> {}, baseline |-> "Warn", allow |-> "Warn",
   pattern |-> "Deny", contradictory |-> "Deny"]

IsReference(item) == DOMAIN item = {"ref"}

\* The module patterns that a rule is written with.
PatternsOf(rule) ==
  CASE rule.kind = "ForbiddenDependency" -> {rule.from, rule.to}
    [] rule.kind = "NoCycles"            -> {rule.scope}
    [] rule.kind = "Layers"              -> UNION {rule.layers[i] : i \in Ordinary(rule.layers)}

-----------------------------------------------------------------------------
\* The entries of a rule, each with the name of the pattern it came from.
Expand(raw, allow) ==
  LET entry(e, name) == e @@ [pattern |-> name]
      named(name) == [i \in DOMAIN raw.patterns[name] |-> entry(raw.patterns[name][i], name)]
  IN  FlattenSeq([i \in DOMAIN allow |->
        IF IsReference(allow[i]) THEN named(allow[i].ref) ELSE <<entry(allow[i], NoName)>>])

RuleOf(raw, rule) ==
  [key \in DOMAIN rule \ {"retired"} |->
     CASE key = "severity" -> IF rule.severity = "Default" THEN raw.default ELSE rule.severity
       [] key = "allow"    -> Expand(raw, rule.allow)
       [] OTHER            -> rule[key]]

\* What from_toml refuses: a reference within a named pattern, then the first
\* rule with a retired key or a reference to nothing.
SyntaxErrors(raw) ==
  LET unknown(rule) == \E item \in Range(rule.allow) :
                         IsReference(item) /\ item.ref \notin DOMAIN raw.patterns
      bad == {i \in DOMAIN raw.rules : raw.rules[i].retired \/ unknown(raw.rules[i])}
  IN  CASE \E name \in DOMAIN raw.patterns :
             \E item \in Range(raw.patterns[name]) : IsReference(item) -> {"ReferenceInDependencyPattern"}
        [] OTHER -> IF bad = {} THEN {}
                    ELSE IF raw.rules[Min(bad)].retired THEN {"RetiredKey"}
                    ELSE {"UnknownDependencyPattern"}

\* What a layers rule is refused for, pass by pass.
NotAlone(layers) == \E i \in Ordinary(layers) : Star \in layers[i]
SeveralCatchAlls(layers) == Cardinality(DOMAIN layers \ Ordinary(layers)) > 1
EmptyPosition(layers) == \E i \in Ordinary(layers) : layers[i] = {}
TooFew(layers) == Len(layers) < 2

FirstError(found) ==
  LET bad == {i \in DOMAIN found : found[i] # {}}
  IN  IF bad = {} THEN {} ELSE found[Min(bad)]

LayersOf(rule) == IF rule.kind = "Layers" THEN {rule.layers} ELSE {}

CatchAllErrors(rules) ==
  FirstError([i \in DOMAIN rules |->
    IF \E l \in LayersOf(rules[i]) : NotAlone(l) THEN {"CatchAllNotAlone"}
    ELSE IF \E l \in LayersOf(rules[i]) : SeveralCatchAlls(l) THEN {"MultipleCatchAllPositions"}
    ELSE {}])
ArityErrors(rules) ==
  FirstError([i \in DOMAIN rules |->
    IF \E l \in LayersOf(rules[i]) : EmptyPosition(l) THEN {"EmptyPosition"}
    ELSE IF \E l \in LayersOf(rules[i]) : TooFew(l) THEN {"TooFewPositions"}
    ELSE {}])
ExhaustiveErrors(rules) ==
  FirstError([i \in DOMAIN rules |->
    IF \E l \in LayersOf(rules[i]) : rules[i].exhaustive /\ HasCatchAll(l)
    THEN {"ExhaustiveWithCatchAll"} ELSE {}])

NamesRepeat(rules) == \E i, j \in DOMAIN rules : i < j /\ rules[i].name = rules[j].name

ImplicitRule ==
  [name |-> ImplicitRuleName, severity |-> "Error", allow |-> <<>>, kind |-> "NoCycles",
   scope |-> [form |-> "all"]]
StatesCycles(rules) == \E r \in Range(rules) : r.kind = "NoCycles"
IsReserved(rules) ==
  ~StatesCycles(rules) /\ \E r \in Range(rules) : r.name = ImplicitRuleName

WithImplicitRule(rules) == IF StatesCycles(rules) THEN rules ELSE Append(rules, ImplicitRule)

Implicit == [error |-> {}, rules |-> <<ImplicitRule>>, diagnostics |-> DefaultDiagnostics]

\* The first of the passes that fails decides; `error` is a set of at most one.
\* A file that cannot be read ends the command as a garbled one does.
Load(file) ==
  LET failed(errors) == [error |-> errors]
      rules == [i \in DOMAIN file.rules |-> RuleOf(file, file.rules[i])]
      passes == <<IF file.version \subseteq {FormatVersion} THEN {} ELSE {"UnsupportedVersion"},
                  IF NamesRepeat(rules) THEN {"DuplicateRuleName"} ELSE {},
                  CatchAllErrors(rules), ArityErrors(rules), ExhaustiveErrors(rules),
                  IF IsReserved(rules) THEN {"ReservedRuleName"} ELSE {}>>
  IN  CASE file.is = "missing" -> failed({"FileNotFound"})
        [] file.is = "garbled" -> failed({"ParseError"})
        [] OTHER ->
             IF SyntaxErrors(file) # {} THEN failed(SyntaxErrors(file))
             ELSE IF FirstError(passes) # {} THEN failed(FirstError(passes))
             ELSE [error |-> {}, rules |-> WithImplicitRule(rules),
                   diagnostics |-> file.diagnostics @@ DefaultDiagnostics]

=============================================================================

----------------------------- MODULE CommandLine -----------------------------
(***************************************************************************)
(* The commands of `cargo arc` (src/src/cli.rs, main.rs, render/theme.rs):  *)
(* what each reads of the disk, in which order it gives up, what it writes, *)
(* and how it exits. `ui` keeps running beside the others, and takes up the *)
(* changes between them when it runs again.                                 *)
(*                                                                         *)
(* A drawing is known by the code it was made from and the cycles it marks; *)
(* the diagram itself is DiagramLayout's, the map HotspotMap's, and when a  *)
(* service runs again is Recompute's.                                       *)
(***************************************************************************)
EXTENDS CheckReport

VARIABLES
  disk,       \* besides code and rules: the manifest, git, and what -o names
  service     \* what a running `ui` serves

commandVars == <<checkVars, disk, service>>

-----------------------------------------------------------------------------
\* The themes, the default of each mode first; a mode's name stands for it.
Themes == <<[name |-> "latte", mode |-> "light"], [name |-> "mocha", mode |-> "dark"]>>
OfMode(mode) == SelectSeq(Themes, LAMBDA t : t.mode = mode)
DefaultFor(mode) == {OfMode(mode)[1]}
Named(name) ==
  IF name \in {"light", "dark"} THEN DefaultFor(name) ELSE {t \in Range(Themes) : t.name = name}

\* The name a file ends with decides what -o writes; none is stdout.
Outputs == {"stdout", "deps.svg", "deps.html"}

IsArcCommand(a) ==
  /\ a.command \in {"diagram", "volatility", "hotspots", "ui"}
  /\ a.output \in Outputs /\ a.mapOutput \in Outputs
  /\ a.noVolatility \in BOOLEAN
  /\ a.switches \subseteq {"externals", "tests"}
  /\ a.level \in Nat \cup {0 - 1}

\* CommonArgs: what the commands share, and where they are run.
IsSurrounding(s) ==
  /\ DOMAIN s = {"manifest", "unparsed", "git"}
  /\ {s.manifest, s.git} \subseteq BOOLEAN

ASSUME ArgumentsAssumption ==
  \A p \in Projects :
    (\A a \in p.arguments : IsArcCommand(a)) /\ (\A s \in p.surroundings : IsSurrounding(s))

NoDocument == [is |-> "none"]
NoService == [pages |-> NoDocument, error |-> {}]
Running == service.pages # NoDocument

DiskOf(s, files) == [manifest |-> s.manifest, unparsed |-> s.unparsed, git |-> s.git, files |-> files]

CommandInit ==
  /\ CheckInit
  /\ \E s \in project.surroundings : disk = DiskOf(s, [f \in Outputs \ {"stdout"} |-> NoDocument])
  /\ service = NoService

-----------------------------------------------------------------------------
\* Judgment::exit_code, and what main makes of an error.
ExitCode == CASE outcome.judgment = "clean" -> 0 [] outcome.judgment = "negative" -> 1 [] OTHER -> 2

\* Everything but the volatility report reads the manifest before anything else.
Unreadable == IF disk.manifest THEN {} ELSE {"Metadata"}

\* workspace_root_of: a workspace without crates has no root.
NoRoot == IF CrateNodes = {} THEN {"NoCrates"} ELSE {}

DocumentFor(output) == IF output = "deps.html" THEN "Page" ELSE "Svg"

\* enrich_volatility: git that does not answer costs the diagram its colours only.
Coloured(a) == ~a.noVolatility /\ disk.git

\* Mutant: the switch for re-exports does not reach the diagram.
MarkedWithoutReexports == UNION {CycleEdges(c) : c \in RepresentativeCycles(ProductionSubgraph(FALSE))}
\* The arcs that are marked as on a cycle.
Marked == UNION {CycleEdges(c) : c \in RepresentativeCycles(ProductionSubgraph(options.reexports))}

\* analyze_for_diagram, and the render of what it finds.
Diagram(a, form, switches) ==
  [is |-> "diagram", form |-> form, titled |-> form = "Page" /\ NoRoot = {},
   theme |-> Named(a.theme), level |-> a.level, switches |-> switches, coloured |-> Coloured(a),
   of |-> edges, marked |-> Marked, whole |-> disk.unparsed = {}]

HotspotDrawing(a, form) ==
  [is |-> "map", form |-> form, titled |-> form = "Page", theme |-> Named(a.theme), coloured |-> Coloured(a)]

VolatilityReport == [is |-> "report"]

-----------------------------------------------------------------------------
\* One command at a time; `ui` runs beside it.
Runs(a, command) ==
  /\ a.command = command
  /\ UNCHANGED <<nodes, edges, options, project, rulesFile, baselineFile, frozenAt>>

GivesUp(command, error) == outcome' = Failed(command, error) /\ UNCHANGED <<disk, service>>

\* write_output: the file is cut before it is written, and the write may fail;
\* that of standard output, which may fail as well, is taken to succeed.
WriteOutput(a, output, document) ==
  LET done(printed) ==
        [command |-> a.command, error |-> {}, judgment |-> "clean", printed |-> printed]
  IN  /\ UNCHANGED service
      /\ \/ output = "stdout" /\ outcome' = done(document) /\ UNCHANGED disk
         \/ /\ output # "stdout"
            /\ outcome' = done(NoDocument)
            /\ disk' = [disk EXCEPT !.files[output] = document]
         \/ /\ output # "stdout"
            /\ outcome' = Failed(a.command, {"OutputIo"})
            /\ disk' = [disk EXCEPT !.files[output] = NoDocument]

\* A theme that nobody knows is refused before the command starts.
Refuse(a) == Runs(a, a.command) /\ a.theme # "system" /\ Named(a.theme) = {} /\ GivesUp("arc", {"Usage"})
IsAccepted(a) == a.theme = "system" \/ Named(a.theme) # {}

Draw(a) ==
  /\ Runs(a, "diagram")
  /\ IsAccepted(a)
  /\ IF Unreadable # {} THEN GivesUp("diagram", Unreadable)
     ELSE WriteOutput(a, a.output, Diagram(a, DocumentFor(a.output), a.switches))

\* The report has nothing to tell without git, and asks for nothing else.
ReportVolatility(a) ==
  /\ Runs(a, "volatility")
  /\ IsAccepted(a)
  /\ IF disk.git THEN WriteOutput(a, a.output, VolatilityReport) ELSE GivesUp("volatility", {"Git"})

\* The map's own -o counts, not the one before the command's name.
DrawHotspots(a) ==
  /\ Runs(a, "hotspots")
  /\ IsAccepted(a)
  /\ IF Unreadable \cup NoRoot # {} THEN GivesUp("hotspots", IF disk.manifest THEN NoRoot ELSE Unreadable)
     ELSE WriteOutput(a, a.mapOutput, HotspotDrawing(a, DocumentFor(a.mapOutput)))

-----------------------------------------------------------------------------
\* run_ui's pages: both from one analysis.
Pages(a, switches) == [arc |-> Diagram(a, "Page", switches), hotspots |-> HotspotDrawing(a, "Svg"), args |-> a]
PagesError == IF Unreadable # {} THEN Unreadable ELSE NoRoot

\* The first run serves what it has; the port may be taken.
StartUi(a) ==
  /\ Runs(a, "ui")
  /\ IsAccepted(a)
  /\ ~Running
  /\ \/ PagesError # {} /\ GivesUp("ui", PagesError)
     \/ PagesError = {} /\ GivesUp("ui", {"Port"})
     \/ /\ PagesError = {}
        /\ service' = [pages |-> Pages(a, a.switches), error |-> {}]
        /\ outcome' = NoOutcome
        /\ UNCHANGED disk

\* Mutant: a run that read a broken file replaces the pages all the same.
RerunErrorOfPages == PagesError
\* unparsed_error: a run that could not read a file would drop what it holds.
RerunError == IF PagesError # {} THEN PagesError ELSE IF disk.unparsed # {} THEN {"Unparsed"} ELSE {}

\* A failed run leaves the pages as they are.
RerunUi ==
  /\ Running
  /\ \E switches \in SUBSET {"externals", "tests"} :
       service' = IF RerunError # {} THEN [service EXCEPT !.error = RerunError]
                  ELSE [pages |-> Pages(service.pages.args, switches), error |-> {}]
  /\ UNCHANGED <<checkVars, disk>>

StopUi ==
  /\ Running
  /\ service' = NoService
  /\ outcome' = [command |-> "ui", error |-> {}, judgment |-> "clean"]
  /\ UNCHANGED <<nodes, edges, options, project, rulesFile, baselineFile, frozenAt, disk>>

-----------------------------------------------------------------------------
\* `check` neither serves nor draws; a file that does not parse does not stop it.
RunCheck ==
  \/ disk.manifest /\ (Check \/ GenerateBaseline) /\ UNCHANGED <<disk, service>>
  \/ ~disk.manifest /\ Command /\ GivesUp("check", Unreadable) /\ UNCHANGED <<baselineFile, frozenAt>>

ChangeFiles ==
  /\ EditCode \/ EditRules
  /\ \E s \in project.surroundings : disk' = DiskOf(s, disk.files)
  /\ UNCHANGED service

CommandNext ==
  \/ RunCheck
  \/ \E a \in project.arguments :
       Refuse(a) \/ Draw(a) \/ ReportVolatility(a) \/ DrawHotspots(a) \/ StartUi(a)
  \/ RerunUi
  \/ StopUi
  \/ ChangeFiles

CommandSpec == CommandInit /\ [][CommandNext]_commandVars

-----------------------------------------------------------------------------
\* The diagrams of the code as it is.
Drawings == Range(disk.files) \cup (IF Running THEN {service.pages.arc} ELSE {})
CurrentDrawings == {d \in Drawings : d.is = "diagram" /\ d.of = edges}

Ends(R) == UNION {{p[1], p[2]} : p \in R}

JudgedAsDrawn ==
  Checked => \A d \in CurrentDrawings :
    /\ \A r \in CheckedRules("NoCycles") :
         LET tangles == {v \in outcome.violations : v.rule = r.name /\ v.detail.is = "cluster"}
         IN  r.scope.form = "all" /\ r.allow = <<>> =>
               UNION {v.detail.nodes : v \in tangles} = Ends(d.marked)
    /\ rulesFile = Missing /\ Frozen = {} =>
         (ExitCode = 1 <=> d.marked # {} \/ CrateNodes = {})

\* Told by its switches only: a lacking page with others than ui started with
\* comes of a rerun; one of a rerun with the first switches is not told apart.
LackingPageIsTheFirst ==
  Running /\ ~service.pages.arc.whole => service.pages.arc.switches = service.pages.args.switches

(***************************************************************************)
(* What a diagram of the code marks and what a check of the same code finds *)
(* agree, though each command analyses on its own: a rule against all       *)
(* cycles finds its tangles exactly where the diagram marks arcs, and       *)
(* without a rules file and a baseline the check exits with 1 if and only   *)
(* if an arc is marked (or there is no crate, and the implicit rule's `**`  *)
(* matches nothing). A page that lacks the modules of a broken file has the *)
(* switches `ui` started with: it replaces none of others (unparsed_error). *)
(***************************************************************************)
CommandsAgree == JudgedAsDrawn /\ LackingPageIsTheFirst

=============================================================================

------------------------------ MODULE Recompute ------------------------------
(***************************************************************************)
(* The recomputation of `cargo arc ui` (src/src/ui/server.rs, the Wanted   *)
(* monitor and its thread; src/src/ui/service.rs, the served page).        *)
(*                                                                         *)
(* Commands change `wanted` under its mutex and notify the condition       *)
(* variable. One thread waits there, takes what is wanted, runs the        *)
(* analysis without a lock, swaps the page in and reports the run to the   *)
(* pages and to the editor. Each critical section is one action, and the   *)
(* thread's local state is `pc`, `seen` and `run`.                         *)
(*                                                                         *)
(* A page is abstracted to the switches it was computed with and the       *)
(* version of the sources it was computed from: the version of the oldest  *)
(* file the run read. `disk` and `announced` are not the program's:        *)
(* the editor's files, and the version a rerun was last asked for at.      *)
(***************************************************************************)
EXTENDS Naturals

CONSTANTS
  Switch,        \* the names of the analysis switches
  NoRun,         \* the refinement's value for "no run in progress"
  MaxCommands,   \* bound: the switch and rerun commands of a behaviour
  MaxEdits       \* bound: the changes of the sources of a behaviour

ASSUME RecomputeAssumption ==
  /\ MaxCommands \in Nat
  /\ MaxEdits \in Nat
  /\ NoRun \notin [Switch -> BOOLEAN]

Switches == [Switch -> BOOLEAN]

\* What one run reports, to the pages as an event and to the editor as a line.
Analysis(switches) == [kind |-> "analysis", switches |-> switches]
AnalysisError == [kind |-> "analysis-error"]
Report == {Analysis(switches) : switches \in Switches} \cup {AnalysisError}

VARIABLES
  wanted,      \* the record behind the `wanted` mutex
  pc,          \* where the recomputation thread is
  seen,        \* its count of the commands it has looked at
  run,         \* what it took for the run it is at, and what came of it
  current,     \* the served page: its switches and its source version
  event,       \* the last report broadcast to the pages
  line,        \* the last report written to the editor
  loop,        \* the request loop's thread, as far as it ends the others
  disk,        \* the version of the sources on disk
  announced    \* the version a rerun was last asked for at

threadVars == <<pc, seen, run, event, line>>
recomputeVars ==
  <<wanted, pc, seen, run, current, event, line, loop, disk, announced>>

\* `run` between two passes of the thread's loop: its locals are gone.
OutOfScope == [switches |-> [switch \in Switch |-> FALSE], rerun |-> FALSE,
               version |-> 0, ok |-> TRUE]

Wanted == [switches: Switches, commands: Nat, rerun: BOOLEAN, stopped: BOOLEAN]
PC == {"check", "parked", "compare", "analyse", "swap", "broadcast", "report",
       "done"}
Loop == {"serving", "ended", "stopped", "notified"}

-----------------------------------------------------------------------------
(***************************************************************************)
(* Server::bind and JumpService::new: the first page is computed before    *)
(* the service starts, and serve announces it to the editor.               *)
(***************************************************************************)
RecomputeInit ==
  \E switches \in Switches :
    /\ wanted = [switches |-> switches, commands |-> 0,
                 rerun |-> FALSE, stopped |-> FALSE]
    /\ pc = "check"
    /\ seen = 0
    /\ run = OutOfScope
    /\ current = [switches |-> switches, version |-> 0]
    /\ event = Analysis(switches)
    /\ line = Analysis(switches)
    /\ loop = "serving"
    /\ disk = 0
    /\ announced = 0

\* Condvar::notify_all: the waiting thread looks at its condition again.
NotifyAll == pc' = IF pc = "parked" THEN "check" ELSE pc

-----------------------------------------------------------------------------
(***************************************************************************)
(* The commands that change `wanted` (execute and request_rerun), from     *)
(* the stdin thread or the request loop.                                   *)
(***************************************************************************)
\* Mutant: a switch command wakes nobody.
SwitchCommandSilent(switch, on) ==
  /\ wanted.commands < MaxCommands
  /\ wanted' = [wanted EXCEPT !.switches[switch] = on, !.commands = @ + 1]
  /\ UNCHANGED <<pc, seen, run, current, event, line, loop, disk, announced>>

SwitchCommand(switch, on) ==
  /\ wanted.commands < MaxCommands
  /\ wanted' = [wanted EXCEPT !.switches[switch] = on, !.commands = @ + 1]
  /\ NotifyAll
  /\ UNCHANGED <<seen, run, current, event, line, loop, disk, announced>>

\* Mutant: a rerun request that does not count itself.
RequestRerunUncounted ==
  /\ wanted.commands < MaxCommands
  /\ wanted' = [wanted EXCEPT !.rerun = TRUE]
  /\ NotifyAll
  /\ announced' = disk
  /\ UNCHANGED <<seen, run, current, event, line, loop, disk>>

RequestRerun ==
  /\ wanted.commands < MaxCommands
  /\ wanted' = [wanted EXCEPT !.rerun = TRUE, !.commands = @ + 1]
  /\ NotifyAll
  /\ announced' = disk
  /\ UNCHANGED <<seen, run, current, event, line, loop, disk>>

\* The editor, a formatter or a checkout changes the sources.
Edit ==
  /\ disk < MaxEdits
  /\ disk' = disk + 1
  /\ UNCHANGED <<wanted, threadVars, current, loop, announced>>

-----------------------------------------------------------------------------
(***************************************************************************)
(* recompute_on_demand, one action per lock it takes.                      *)
(***************************************************************************)
\* wait_while finds its condition true and sleeps, releasing the mutex.
Park ==
  /\ pc = "check"
  /\ ~wanted.stopped
  /\ wanted.commands = seen
  /\ pc' = "parked"
  /\ UNCHANGED <<wanted, seen, run, current, event, line, loop, disk, announced>>

\* A condition variable may wake without a notification.
SpuriousWake ==
  /\ pc = "parked"
  /\ pc' = "check"
  /\ UNCHANGED <<wanted, seen, run, current, event, line, loop, disk, announced>>

Return ==
  /\ pc = "check"
  /\ wanted.stopped
  /\ pc' = "done"
  /\ UNCHANGED <<wanted, seen, run, current, event, line, loop, disk, announced>>

\* Mutant: the take leaves the rerun flag set.
TakeKeepingRerun ==
  /\ pc = "check"
  /\ ~wanted.stopped
  /\ wanted.commands # seen
  /\ seen' = wanted.commands
  /\ run' = [run EXCEPT !.switches = wanted.switches, !.rerun = wanted.rerun]
  /\ pc' = "compare"
  /\ UNCHANGED <<wanted, current, event, line, loop, disk, announced>>

\* Every command that arrived so far is answered by this round.
Take ==
  /\ pc = "check"
  /\ ~wanted.stopped
  /\ wanted.commands # seen
  /\ seen' = wanted.commands
  /\ run' = [run EXCEPT !.switches = wanted.switches, !.rerun = wanted.rerun]
  /\ wanted' = [wanted EXCEPT !.rerun = FALSE]
  /\ pc' = "compare"
  /\ UNCHANGED <<current, event, line, loop, disk, announced>>

NeedsRun == run.rerun \/ run.switches # current.switches

\* `continue`: the served page already is what the commands ask for.
Skip ==
  /\ pc = "compare"
  /\ ~NeedsRun
  /\ pc' = "check"
  /\ run' = OutOfScope
  /\ UNCHANGED <<wanted, seen, current, event, line, loop, disk, announced>>

StartAnalysis ==
  /\ pc = "compare"
  /\ NeedsRun
  /\ pc' = "analyse"
  /\ UNCHANGED <<wanted, seen, run, current, event, line, loop, disk, announced>>

\* The closure of run_ui succeeds. It reads the sources in the course of the
\* run, so the version is the disk's at some moment of it.
Analyse ==
  /\ pc = "analyse"
  /\ run' = [run EXCEPT !.version = disk, !.ok = TRUE]
  /\ pc' = "swap"
  /\ UNCHANGED <<wanted, seen, current, event, line, loop, disk, announced>>

\* It fails: cargo metadata, an unparsed source file, an empty workspace.
AnalyseFails ==
  /\ pc = "analyse"
  /\ run' = [run EXCEPT !.ok = FALSE]
  /\ pc' = "broadcast"
  /\ UNCHANGED <<wanted, seen, current, event, line, loop, disk, announced>>

\* Mutant: the swap labels the page with the switches wanted by now.
SwapAsWanted ==
  /\ pc = "swap"
  /\ current' = [switches |-> wanted.switches, version |-> run.version]
  /\ pc' = "broadcast"
  /\ UNCHANGED <<wanted, seen, run, event, line, loop, disk, announced>>

\* JumpService::recompute takes the write lock for the swap only.
Swap ==
  /\ pc = "swap"
  /\ current' = [switches |-> run.switches, version |-> run.version]
  /\ pc' = "broadcast"
  /\ UNCHANGED <<wanted, seen, run, event, line, loop, disk, announced>>

Outcome == IF run.ok THEN Analysis(run.switches) ELSE AnalysisError

Broadcast ==
  /\ pc = "broadcast"
  /\ event' = Outcome
  /\ pc' = "report"
  /\ UNCHANGED <<wanted, seen, run, current, line, loop, disk, announced>>

\* write_line. A closed stdout is logged and the thread goes on.
WriteReport ==
  /\ pc = "report"
  /\ line' = Outcome
  /\ pc' = "check"
  /\ run' = OutOfScope
  /\ UNCHANGED <<wanted, seen, current, event, loop, disk, announced>>

-----------------------------------------------------------------------------
(***************************************************************************)
(* The end of Server::run: the request loop has ended, `stopped` is set    *)
(* under the mutex and the notification follows without it.                *)
(***************************************************************************)
EndLoop ==
  /\ loop = "serving"
  /\ loop' = "ended"
  /\ UNCHANGED <<wanted, threadVars, current, disk, announced>>

SetStopped ==
  /\ loop = "ended"
  /\ wanted' = [wanted EXCEPT !.stopped = TRUE]
  /\ loop' = "stopped"
  /\ UNCHANGED <<threadVars, current, disk, announced>>

NotifyStopped ==
  /\ loop = "stopped"
  /\ NotifyAll
  /\ loop' = "notified"
  /\ UNCHANGED <<wanted, seen, run, current, event, line, disk, announced>>

-----------------------------------------------------------------------------
RecomputeThread ==
  \/ Park
  \/ Return
  \/ Take
  \/ Skip
  \/ StartAnalysis
  \/ Analyse
  \/ AnalyseFails
  \/ Swap
  \/ Broadcast
  \/ WriteReport

RecomputeNext ==
  \/ \E switch \in Switch, on \in BOOLEAN : SwitchCommand(switch, on)
  \/ RequestRerun
  \/ Edit
  \/ RecomputeThread
  \/ SpuriousWake
  \/ EndLoop
  \/ SetStopped
  \/ NotifyStopped

(***************************************************************************)
(* The thread is scheduled and an analysis terminates; the end of run is   *)
(* straight-line code. Commands, edits, the end of the request loop and    *)
(* spurious wakes are never owed.                                          *)
(***************************************************************************)
RecomputeFairness ==
  /\ WF_recomputeVars(RecomputeThread)
  /\ WF_recomputeVars(SetStopped \/ NotifyStopped)

RecomputeSafety == RecomputeInit /\ [][RecomputeNext]_recomputeVars
RecomputeSpec == RecomputeSafety /\ RecomputeFairness

-----------------------------------------------------------------------------
(***************************************************************************)
(* Properties.                                                             *)
(***************************************************************************)
\* The thread has looked at every command and is at no run.
Settled == pc \in {"check", "parked"} /\ seen = wanted.commands

RunRecord == [switches: Switches, rerun: BOOLEAN, version: 0 .. disk, ok: BOOLEAN]

\* What the program's state is made of; the thread never counts past the
\* commands, and no page is newer than the disk.
TypeOK ==
  /\ wanted \in Wanted
  /\ pc \in PC
  /\ seen \in 0 .. wanted.commands
  /\ run \in RunRecord
  /\ current \in [switches: Switches, version: 0 .. disk]
  /\ event \in Report
  /\ line \in Report
  /\ loop \in Loop
  /\ disk \in Nat
  /\ announced \in 0 .. disk

(***************************************************************************)
(* Once the thread is quiet and its last run did not fail, the last        *)
(* command has won: the served page has the switches wanted last, is at    *)
(* least as new as the sources of the last save or recompute command, and  *)
(* the pages and the editor have heard of it (recompute_on_demand; a       *)
(* command that is lost or answered by an older run breaks it).            *)
(***************************************************************************)
LastCommandWins ==
  Settled /\ event # AnalysisError =>
    /\ current.switches = wanted.switches
    /\ current.version >= announced
    /\ event = Analysis(current.switches)
    /\ line = event

(***************************************************************************)
(* A report is never ahead of the page: whoever reloads or reads the       *)
(* switches on hearing `analysis` finds that run's page, since the swap    *)
(* comes before the broadcast and the broadcast before the line.           *)
(***************************************************************************)
ReportedPageIsServed ==
  \A report \in {event, line} :
    report # AnalysisError /\ pc \notin {"broadcast", "report"}
      => report = Analysis(current.switches)

(***************************************************************************)
(* The inductive invariant behind the two, in named parts: what a run in   *)
(* progress answers, what it has reported, and what is served between two  *)
(* runs.                                                                   *)
(***************************************************************************)
Between == {"check", "parked"}
Reporting == {"broadcast", "report"}
Fresh(version) == wanted.rerun \/ announced <= version

\* Without a command since the take, the run works for what is wanted.
RunAnswersCommands ==
  pc \in {"compare", "analyse", "swap"} \cup Reporting /\ seen = wanted.commands
    => run.switches = wanted.switches /\ ~wanted.rerun

\* A page about to be swapped in is at least as new as the last rerun that
\* was taken and as the page it replaces.
SwappedPageIsFresh ==
  pc = "swap" => run.ok /\ Fresh(run.version) /\ current.version <= run.version

\* After the swap the page is the run's.
ReportedRunIsServed ==
  pc \in Reporting /\ run.ok
    => current.switches = run.switches /\ Fresh(current.version)

\* The pages hear first, then the editor.
ReportsAgree ==
  /\ pc = "report" => event = Outcome
  /\ pc # "report" => line = event

\* Between the reports the last one speaks of the served page.
EventIsServed ==
  event # AnalysisError /\ pc \notin Reporting => event = Analysis(current.switches)

\* No taken rerun is outstanding between two runs.
ServedPageIsFresh ==
  event # AnalysisError =>
    /\ pc \in Between => Fresh(current.version)
    /\ pc = "compare" => run.rerun \/ Fresh(current.version)

SettledPageIsWanted ==
  pc \in Between /\ event # AnalysisError /\ seen = wanted.commands
    => current.switches = wanted.switches /\ ~wanted.rerun

RecomputeInv ==
  /\ TypeOK
  /\ RunAnswersCommands
  /\ SwappedPageIsFresh
  /\ ReportedRunIsServed
  /\ ReportsAgree
  /\ EventIsServed
  /\ ServedPageIsFresh
  /\ SettledPageIsWanted

(***************************************************************************)
(* Commands that have stopped coming leave the thread quiet for good: each *)
(* is looked at, and none costs runs without end (the lost wakeup and the  *)
(* endless rerun).                                                         *)
(***************************************************************************)
CommandsSettle == <>[](Settled \/ wanted.stopped)

(***************************************************************************)
(* The thread implements RunOnDemand: a take is the start of a run or the  *)
(* dismissal of the requests, the swap is its end.                         *)
(***************************************************************************)
AtRun ==
  \/ pc = "compare" /\ NeedsRun
  \/ pc \in {"analyse", "swap"}

Abstract == INSTANCE RunOnDemand WITH
  asked <- wanted.switches,
  served <- current,
  pending <- wanted.commands # seen,
  force <- wanted.rerun,
  running <- IF AtRun THEN run.switches ELSE NoRun,
  halted <- wanted.stopped

\* The promises of RunOnDemand, among them: one further run at most answers
\* the commands of a run, and the last one wins.
ImplementsRunOnDemand == Abstract!Spec

=============================================================================

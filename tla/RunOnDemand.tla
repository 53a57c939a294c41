----------------------------- MODULE RunOnDemand -----------------------------
(***************************************************************************)
(* What `cargo arc ui` promises about recomputing, without its threads,    *)
(* counters and locks: switches can be asked for at any time, a run works  *)
(* for the switches asked for when it started, requests that arrive during *)
(* a run are answered by one further run at most, and the last one wins.   *)
(* Recompute.tla is the code's implementation of it.                       *)
(***************************************************************************)
EXTENDS Naturals

CONSTANTS
  Switch,    \* the names of the analysis switches
  NoRun      \* the absence of a run in progress

Switches == [Switch -> BOOLEAN]

VARIABLES
  asked,     \* the switches the last request asked for
  served,    \* the switches and the source version of the served page
  pending,   \* a request has arrived that no run was started for
  force,     \* a pending request wants a run even for the served switches
  running,   \* the switches the run in progress works for, or NoRun
  disk,      \* the version of the sources on disk
  halted     \* the service is ending: no run is started any more

vars == <<asked, served, pending, force, running, disk, halted>>

Init ==
  /\ asked \in Switches
  /\ served = [switches |-> asked, version |-> 0]
  /\ pending = FALSE
  /\ force = FALSE
  /\ running = NoRun
  /\ disk = 0
  /\ halted = FALSE

Edit ==
  /\ disk' = disk + 1
  /\ UNCHANGED <<asked, served, pending, force, running, halted>>

\* A request for other switches.
Ask(switches) ==
  /\ asked' = switches
  /\ pending' = TRUE
  /\ UNCHANGED <<served, force, running, disk, halted>>

\* A request for a run over changed sources.
AskRerun ==
  /\ pending' = TRUE
  /\ force' = TRUE
  /\ UNCHANGED <<asked, served, running, disk, halted>>

\* One run answers every request that arrived before it.
Start ==
  /\ ~halted /\ pending /\ running = NoRun
  /\ force \/ asked # served.switches
  /\ running' = asked
  /\ pending' = FALSE
  /\ force' = FALSE
  /\ UNCHANGED <<asked, served, disk, halted>>

\* The served page already is what the pending requests ask for.
Dismiss ==
  /\ ~halted /\ pending /\ running = NoRun
  /\ ~force /\ asked = served.switches
  /\ pending' = FALSE
  /\ UNCHANGED <<asked, served, force, running, disk, halted>>

\* The run's page replaces the served one as a whole. Its sources are at
\* most as old as the served page's and at most as new as the disk.
Finish ==
  /\ running # NoRun
  /\ \E version \in served.version .. disk :
       served' = [switches |-> running, version |-> version]
  /\ running' = NoRun
  /\ UNCHANGED <<asked, pending, force, disk, halted>>

\* A failed run changes nothing.
Fail ==
  /\ running # NoRun
  /\ running' = NoRun
  /\ UNCHANGED <<asked, served, pending, force, disk, halted>>

Halt ==
  /\ halted' = TRUE
  /\ UNCHANGED <<asked, served, pending, force, running, disk>>

Next ==
  \/ Edit
  \/ \E switches \in Switches : Ask(switches)
  \/ AskRerun
  \/ Start
  \/ Dismiss
  \/ Finish
  \/ Fail
  \/ Halt

Fairness == WF_vars(Start \/ Dismiss) /\ WF_vars(Finish \/ Fail)

Safety == Init /\ [][Next]_vars
Spec == Safety /\ Fairness

=============================================================================

---------------------------- MODULE ServiceProcess ----------------------------
(***************************************************************************)
(* The child process `cargo arc ui` as an editor's plugin sees it: it is   *)
(* spawned, writes its ready line, and exits by itself or on a signal. The *)
(* operating system and the editor's process API are external.             *)
(*                                                                         *)
(* Processes are numbered in the order they are spawned. A port is named   *)
(* after the first process that served on it.                              *)
(***************************************************************************)
EXTENDS Naturals

CONSTANT
  MaxProcesses   \* bound: the processes of a behaviour

Process == 1 .. MaxProcesses
None == 0        \* no process, no port

VARIABLE
  proc           \* the processes and what of them is not yet collected

ProcessState ==
  [life: {"unborn", "starting", "serving", "exited", "failed", "collected"},
   signalled: BOOLEAN, unread: BOOLEAN]

ProcessInit ==
  proc = [i \in Process |-> [life |-> "unborn", signalled |-> FALSE, unread |-> FALSE]]

Alive(i) == proc[i].life \in {"starting", "serving"}
IsNext(i) ==
  /\ proc[i].life = "unborn"
  /\ \A j \in 1 .. (i - 1) : proc[j].life # "unborn"

\* The processes after the spawn of i, and after a failed one.
Spawned(i) == [proc EXCEPT ![i].life = "starting"]
SpawnFailed(i) == [proc EXCEPT ![i].life = "failed"]

\* The processes after a signal to i, which reaches it while it lives.
Signalled(i) == [proc EXCEPT ![i].signalled = @ \/ Alive(i)]

\* serve has bound its port and writes the ready line.
Announce(i) ==
  /\ proc[i].life = "starting"
  /\ proc' = [proc EXCEPT ![i].life = "serving", ![i].unread = TRUE]

\* The signal, a port that is taken, a failed first analysis, a closed stdout.
Exit(i) ==
  /\ Alive(i)
  /\ proc' = [proc EXCEPT ![i].life = "exited"]

\* Nothing a plugin has not already asked to end is left running.
AllEnding == \A i \in Process : Alive(i) => proc[i].signalled

=============================================================================

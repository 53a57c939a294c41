----------------------------- MODULE VscodePlugin -----------------------------
(***************************************************************************)
(* The VS Code extension's service and panel (src/editors/vscode/          *)
(* extension.js). Everything runs on the extension host's loop. A process  *)
(* that cannot be spawned has its `error` event only. The `exit` event may *)
(* come before the last line of stdout, whose pipes are read in the order  *)
(* of the writes; asExternalUri answers in the order of its calls.         *)
(***************************************************************************)
EXTENDS ServiceProcess, Sequences

CONSTANT
  MaxAsks        \* bound: the user's commands of a behaviour

VARIABLES
  service,       \* the running service's process
  started,       \* the fields of the record each startService makes
  panel,         \* the webview panel, and the port its iframe shows
  frames,        \* the ports of the showFrame calls that await their address
  asked,         \* the user's last command
  asks,          \* how many there were
  left           \* the extension was deactivated

vscodeVars == <<proc, service, started, panel, frames, asked, asks, left>>

Fields(replaces) ==
  [replaces |-> replaces, port |-> None, stopping |-> FALSE, restart |-> FALSE]

NoPanel == [open |-> FALSE, shows |-> None]
EmptyPanel == [open |-> TRUE, shows |-> None]

Init ==
  /\ ProcessInit
  /\ service = None
  /\ started = [i \in Process |-> Fields(None)]
  /\ panel = NoPanel
  /\ frames = <<>>
  /\ asked = "none"
  /\ asks = 0
  /\ left = FALSE

Asks(command) ==
  /\ ~left
  /\ asks < MaxAsks
  /\ asked' = command
  /\ asks' = asks + 1

-----------------------------------------------------------------------------
\* startService: spawn returns a process either way, a failure is an event.
\* A panel that is open says that the service is starting.
StartService(replaces) ==
  \E i \in Process :
    /\ IsNext(i)
    /\ proc' \in {Spawned(i), SpawnFailed(i)}
    /\ service' = i
    /\ started' = [started EXCEPT ![i] = Fields(replaces)]

Blank(shown) == IF shown.open THEN EmptyPanel ELSE shown

\* open: the panel, and the service unless there is one.
ShowPanel ==
  /\ panel' = CASE ~panel.open      -> EmptyPanel
                [] service = None   -> Blank(panel)
                [] OTHER            -> panel
  /\ frames' = IF ~panel.open /\ service # None /\ started[service].port # None
               THEN Append(frames, started[service].port) ELSE frames
  /\ \/ service = None /\ StartService(None)
     \/ service # None /\ UNCHANGED <<proc, service, started>>

Open ==
  /\ Asks("open")
  /\ ShowPanel
  /\ UNCHANGED left

\* openInBrowser. The browser's page is nothing the extension keeps.
OpenInBrowser ==
  /\ Asks("open")
  /\ \/ service = None /\ StartService(None) /\ panel' = Blank(panel)
     \/ service # None /\ UNCHANGED <<proc, service, started, panel>>
  /\ UNCHANGED <<frames, left>>

\* restart: a stop whose exit event starts the next service.
Restart ==
  /\ Asks("restart")
  /\ \/ service = None /\ ShowPanel
     \/ /\ service # None
        /\ started' = [started EXCEPT ![service].restart = TRUE,
                                      ![service].stopping = TRUE]
        /\ proc' = Signalled(service)
        /\ UNCHANGED <<service, panel, frames>>
  /\ UNCHANGED left

\* Mutant: a stop leaves a pending restart alone.
EndServiceKeepingRestart ==
  \/ /\ service # None
     /\ started' = [started EXCEPT ![service].stopping = TRUE]
     /\ proc' = Signalled(service)
  \/ /\ service = None
     /\ UNCHANGED <<started, proc>>

\* endService: no new service, even if a restart was pending.
EndService ==
  \/ /\ service # None
     /\ started' = [started EXCEPT ![service].restart = FALSE,
                                   ![service].stopping = TRUE]
     /\ proc' = Signalled(service)
  \/ /\ service = None
     /\ UNCHANGED <<started, proc>>

Stop ==
  /\ Asks("stop")
  /\ EndService
  /\ UNCHANGED <<service, panel, frames, left>>

\* The panel's onDidDispose.
ClosePanel ==
  /\ panel.open
  /\ Asks("stop")
  /\ panel' = NoPanel
  /\ EndService
  /\ UNCHANGED <<service, frames, left>>

\* deactivate, when the window closes.
Deactivate ==
  /\ ~left
  /\ left' = TRUE
  /\ asked' = "stop"
  /\ EndService
  /\ UNCHANGED <<service, panel, frames, asks>>

-----------------------------------------------------------------------------
ErrorEvent(i) ==
  /\ ~left
  /\ proc[i].life = "failed"
  /\ proc' = [proc EXCEPT ![i].life = "collected"]
  /\ service' = IF service = i THEN None ELSE service
  /\ UNCHANGED <<started, panel, frames, asked, asks, left>>

Collected(i) == [proc EXCEPT ![i].life = "collected"]

\* Mutant: the exit of a service leaves it the running one.
ExitEventKeepingService(i) ==
  /\ ~left
  /\ proc[i].life = "exited"
  /\ \/ /\ started[i].restart
        /\ \E j \in Process :
             /\ IsNext(j)
             /\ proc' = [Spawned(j) EXCEPT ![i].life = "collected"]
             /\ started' = [started EXCEPT ![j] = Fields(started[i].port)]
        /\ panel' = Blank(panel)
     \/ /\ ~started[i].restart
        /\ proc' = Collected(i)
        /\ UNCHANGED <<started, panel>>
  /\ UNCHANGED <<service, frames, asked, asks, left>>

\* The exit event: the service is gone, and a restart starts the next.
ExitEvent(i) ==
  /\ ~left
  /\ proc[i].life = "exited"
  /\ \/ /\ started[i].restart
        /\ \E j \in Process :
             /\ IsNext(j)
             /\ proc' \in {[Spawned(j) EXCEPT ![i].life = "collected"],
                           [SpawnFailed(j) EXCEPT ![i].life = "collected"]}
             /\ service' = j
             /\ started' = [started EXCEPT ![j] = Fields(started[i].port)]
        /\ panel' = Blank(panel)
     \/ /\ ~started[i].restart
        /\ proc' = Collected(i)
        /\ service' = IF service = i THEN None ELSE service
        /\ UNCHANGED <<started, panel>>
  /\ UNCHANGED <<frames, asked, asks, left>>

Port(i) == IF started[i].replaces # None THEN started[i].replaces ELSE i

\* handleLine: the ready line of i's stdout.
ReadyLine(i) ==
  /\ ~left
  /\ proc[i].unread
  /\ \A j \in 1 .. (i - 1) : ~proc[j].unread
  /\ proc' = [proc EXCEPT ![i].unread = FALSE]
  /\ started' = [started EXCEPT ![i].port = Port(i)]
  /\ frames' = Append(frames, Port(i))
  /\ UNCHANGED <<service, panel, asked, asks, left>>

\* Mutant: the first frame of a panel stays.
FrameOnce ==
  /\ ~left
  /\ frames # <<>>
  /\ panel' = IF panel.open /\ panel.shows = None
              THEN [panel EXCEPT !.shows = Head(frames)] ELSE panel
  /\ frames' = Tail(frames)
  /\ UNCHANGED <<proc, service, started, asked, asks, left>>

\* showFrame, after its await.
Frame ==
  /\ ~left
  /\ frames # <<>>
  /\ panel' = IF panel.open THEN [panel EXCEPT !.shows = Head(frames)] ELSE panel
  /\ frames' = Tail(frames)
  /\ UNCHANGED <<proc, service, started, asked, asks, left>>

-----------------------------------------------------------------------------
VscodeProcess(i) ==
  /\ Announce(i) \/ Exit(i)
  /\ UNCHANGED <<service, started, panel, frames, asked, asks, left>>

VscodeNext ==
  \/ Open
  \/ OpenInBrowser
  \/ Restart
  \/ Stop
  \/ ClosePanel
  \/ Deactivate
  \/ Frame
  \/ \E i \in Process : ErrorEvent(i) \/ ExitEvent(i) \/ ReadyLine(i) \/ VscodeProcess(i)

VscodeSpec == Init /\ [][VscodeNext]_vscodeVars

-----------------------------------------------------------------------------
(***************************************************************************)
(* One service at most, and it is the one the commands reach (the guards   *)
(* of open and openInBrowser, and the exit and error events, which clear   *)
(* `service` of their own process only).                                   *)
(***************************************************************************)
OneService == \A i \in Process : Alive(i) => service = i

(***************************************************************************)
(* README.md: the service ends when the panel closes, when it is stopped,  *)
(* or with the window; endService: even if a restart was pending. After    *)
(* any of these no process is left running, until the next open.           *)
(***************************************************************************)
StopEndsService == asked = "stop" => AllEnding

(***************************************************************************)
(* README.md, "Restart Service": the panel shows the service that has      *)
(* announced itself, whatever late lines and frames of older ones were     *)
(* still to come.                                                          *)
(***************************************************************************)
PanelShowsService ==
  panel.open /\ service # None /\ started[service].port # None /\ frames = <<>>
    => panel.shows = started[service].port

=============================================================================

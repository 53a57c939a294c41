------------------------------ MODULE NvimPlugin ------------------------------
(***************************************************************************)
(* The Neovim plugin's service (src/editors/nvim/lua/cargo-arc/init.lua).  *)
(* Everything runs on the editor's loop: user commands as they come, and   *)
(* the callbacks of the process, which are scheduled in order: the exit    *)
(* callback comes after the lines the process wrote.                       *)
(***************************************************************************)
EXTENDS ServiceProcess, Sequences

CONSTANT
  MaxAsks        \* bound: the user's commands of a behaviour

VARIABLES
  service,       \* the running service's process
  started,       \* the fields of the record each start makes
  queue,         \* the scheduled callbacks
  opened,        \* the ports whose page was opened in the browser
  asked,         \* the user's last command
  asks,          \* how many there were
  left           \* Neovim has run VimLeavePre

nvimVars == <<proc, service, started, queue, opened, asked, asks, left>>

Fields(replaces) ==
  [replaces |-> replaces, port |-> None, stopping |-> FALSE, restart |-> FALSE]

Init ==
  /\ ProcessInit
  /\ service = None
  /\ started = [i \in Process |-> Fields(None)]
  /\ queue = <<>>
  /\ opened = {}
  /\ asked = "none"
  /\ asks = 0
  /\ left = FALSE

Asks(command) ==
  /\ ~left
  /\ asks < MaxAsks
  /\ asked' = command
  /\ asks' = asks + 1

-----------------------------------------------------------------------------
\* start: vim.system runs the service, or fails and leaves the field as it is,
\* which at both calls is empty.
Start(replaces) ==
  \/ \E i \in Process :
       /\ IsNext(i)
       /\ proc' = Spawned(i)
       /\ service' = i
       /\ started' = [started EXCEPT ![i] = Fields(replaces)]
  \/ /\ service' = None
     /\ UNCHANGED <<proc, started>>

OpenService ==
  \/ /\ service = None
     /\ Start(None)
     /\ UNCHANGED opened
  \/ /\ service # None
     /\ opened' = opened \cup ({started[service].port} \ {None})
     /\ UNCHANGED <<proc, service, started>>

Open ==
  /\ Asks("open")
  /\ OpenService
  /\ UNCHANGED <<queue, left>>

\* Mutant: the service is marked and gets no signal.
StopUnsignalled(restart) ==
  /\ started' = [started EXCEPT ![service].stopping = TRUE,
                                ![service].restart = @ \/ restart]
  /\ UNCHANGED proc

\* M.stop of a running service; M.restart sets `restart` before it.
StopService(restart) ==
  /\ started' = [started EXCEPT ![service].stopping = TRUE,
                                ![service].restart = @ \/ restart]
  /\ proc' = Signalled(service)

Stop ==
  /\ Asks("stop")
  /\ \/ service # None /\ StopService(FALSE)
     \/ service = None /\ UNCHANGED <<proc, started>>
  /\ UNCHANGED <<service, queue, opened, left>>

Restart ==
  /\ Asks("restart")
  /\ \/ service # None /\ StopService(TRUE) /\ UNCHANGED <<service, opened>>
     \/ service = None /\ OpenService
  /\ UNCHANGED <<queue, left>>

\* VimLeavePre. Neovim runs none of the scheduled callbacks after it.
Leave ==
  /\ ~left
  /\ left' = TRUE
  /\ \/ service # None /\ StopService(FALSE)
     \/ service = None /\ UNCHANGED <<proc, started>>
  /\ UNCHANGED <<service, queue, opened, asked, asks>>

-----------------------------------------------------------------------------
\* line_splitter schedules the handling of the ready line.
Line(i) ==
  /\ ~left
  /\ proc[i].unread
  /\ proc' = [proc EXCEPT ![i].unread = FALSE]
  /\ queue' = Append(queue, [on |-> "ready", of |-> i])
  /\ UNCHANGED <<service, started, opened, asked, asks, left>>

\* vim.system calls back once the process has exited and its pipes are read.
Exited(i) ==
  /\ ~left
  /\ proc[i].life = "exited" /\ ~proc[i].unread
  /\ proc' = [proc EXCEPT ![i].life = "collected"]
  /\ queue' = Append(queue, [on |-> "exit", of |-> i])
  /\ UNCHANGED <<service, started, opened, asked, asks, left>>

Port(i) == IF started[i].replaces # None THEN started[i].replaces ELSE i

\* handle_line. The page of a service that replaces another is already open.
Ready ==
  /\ ~left
  /\ queue # <<>> /\ Head(queue).on = "ready"
  /\ LET port == Port(Head(queue).of) IN
       /\ started' = IF service # None
                     THEN [started EXCEPT ![service].port = port] ELSE started
       /\ opened' = IF service # None /\ started[service].replaces # None
                    THEN opened ELSE opened \cup {port}
  /\ queue' = Tail(queue)
  /\ UNCHANGED <<proc, service, asked, asks, left>>

\* Mutant: the new service replaces one that never announced a port.
ExitCallbackOwnPort ==
  /\ ~left
  /\ queue # <<>> /\ Head(queue).on = "exit"
  /\ LET i == Head(queue).of IN
       IF started[i].restart THEN Start(Port(i))
       ELSE service' = None /\ UNCHANGED <<proc, started>>
  /\ queue' = Tail(queue)
  /\ UNCHANGED <<opened, asked, asks, left>>

\* Mutant: the callback clears the service after it has started the next.
ExitCallbackClearsLast ==
  /\ ~left
  /\ queue # <<>> /\ Head(queue).on = "exit"
  /\ LET i == Head(queue).of IN
       /\ service' = None
       /\ IF started[i].restart
          THEN \E j \in Process : IsNext(j) /\ proc' = Spawned(j)
          ELSE UNCHANGED proc
  /\ queue' = Tail(queue)
  /\ UNCHANGED <<started, opened, asked, asks, left>>

\* The exit callback: no service any more, and a restart starts the next.
ExitCallback ==
  /\ ~left
  /\ queue # <<>> /\ Head(queue).on = "exit"
  /\ LET i == Head(queue).of IN
       IF started[i].restart THEN Start(started[i].port)
       ELSE service' = None /\ UNCHANGED <<proc, started>>
  /\ queue' = Tail(queue)
  /\ UNCHANGED <<opened, asked, asks, left>>

-----------------------------------------------------------------------------
NvimProcess(i) ==
  /\ Announce(i) \/ Exit(i)
  /\ UNCHANGED <<service, started, queue, opened, asked, asks, left>>

NvimNext ==
  \/ Open
  \/ Stop
  \/ Restart
  \/ Leave
  \/ \E i \in Process : Line(i) \/ Exited(i) \/ NvimProcess(i)
  \/ Ready
  \/ ExitCallback

NvimSpec == Init /\ [][NvimNext]_nvimVars

-----------------------------------------------------------------------------
(***************************************************************************)
(* The plugin owns one service at most, and it is the one its commands     *)
(* reach: no start leaves an older process behind (start, M.open and the   *)
(* exit callback, which clears `service` whichever process has exited).    *)
(***************************************************************************)
OneService == \A i \in Process : Alive(i) => service = i

\* "The service is a child of this Neovim session and ends with it": after
\* VimLeavePre, with a restart under way or not, no process is left running.
EndsWithSession == left => AllEnding

\* An announced service's page is open, the reload of a restarted one being
\* the user's: the tab still has the port.
AnnouncedPageIsOpen ==
  \A i \in Process :
    service = i /\ started[i].port # None => started[i].port \in opened

(***************************************************************************)
(* README.md, "Commands": `:Arc stop` ends the service. After it, and      *)
(* until the next open or restart, no process is left running.             *)
(***************************************************************************)
StopEndsService == asked = "stop" => AllEnding

=============================================================================

--------------------------- MODULE RustRoverPlugin ---------------------------
(***************************************************************************)
(* The RustRover plugin's service (src/editors/rustrover/.../ArcService).  *)
(* Actions run on the platform's UI thread, which is thread 0 here; each   *)
(* process i has an exit watcher, thread i, and a reader. Each block under *)
(* `lock` is one action, and start is two steps: the process is spawned    *)
(* without the lock and stored under it. The page that is shown and the    *)
(* lines to stdin are left out.                                            *)
(*                                                                         *)
(* `crossed` is not the program's: it records that something was decided   *)
(* while a start or restart was under way on another thread.               *)
(***************************************************************************)
EXTENDS ServiceProcess

CONSTANT
  MaxAsks        \* bound: the user's actions of a behaviour

VARIABLES
  process,           \* the field `process`, which is never a failed one
  port,              \* the announced port
  stopRequested,
  restartRequested,
  thread,            \* where the UI thread and the exit watchers are
  asked,             \* the user's last action
  asks,              \* how many there were
  disposed,          \* the project is closed
  crossed

roverVars == <<proc, process, port, stopRequested, restartRequested, thread,
               asked, asks, disposed, crossed>>

UI == 0
Thread == {UI} \cup Process

\* `child` is the process a start has spawned and not yet stored.
At(place, child) == [at |-> place, child |-> child]
Idle == At("idle", None)
Unstarted == At("none", None)

Init ==
  /\ ProcessInit
  /\ process = None
  /\ port = None
  /\ stopRequested = FALSE
  /\ restartRequested = FALSE
  /\ thread = [t \in Thread |-> IF t = UI THEN Idle ELSE Unstarted]
  /\ asked = "none"
  /\ asks = 0
  /\ disposed = FALSE
  /\ crossed = FALSE

Goes(t, to) == thread' = [thread EXCEPT ![t] = to]

Running == process # None /\ Alive(process)

\* A start or a restart that another decision could cross: a thread between
\* its decision and the store, or a watcher that will read a restart request
\* no decision can take back. A restart whose spawn failed leaves the request
\* to the watchers of older processes that still run.
Starting == \E t \in Thread : thread[t].at \in {"start", "store"}
RestartPending ==
  restartRequested
    /\ \E i \in Process : thread[i].at = "wait" /\ (Alive(i) => ~Running)
Cross == crossed' = (crossed \/ Starting \/ RestartPending)

Asks(action) ==
  /\ ~disposed
  /\ thread[UI] = Idle
  /\ asks < MaxAsks
  /\ asked' = action
  /\ asks' = asks + 1
  /\ Cross
  /\ UNCHANGED disposed

-----------------------------------------------------------------------------
Open ==
  /\ Asks("open")
  /\ IF Running THEN UNCHANGED thread ELSE Goes(UI, At("start", None))
  /\ UNCHANGED <<proc, process, port, stopRequested, restartRequested>>

\* The process is destroyed after the lock, which no other step can tell
\* from its taking longer to exit.
Restart ==
  /\ Asks("restart")
  /\ \/ /\ Running
        /\ restartRequested' = TRUE
        /\ stopRequested' = TRUE
        /\ proc' = Signalled(process)
        /\ UNCHANGED thread
     \/ /\ ~Running
        /\ Goes(UI, At("start", None))
        /\ UNCHANGED <<proc, stopRequested, restartRequested>>
  /\ UNCHANGED <<process, port>>

\* Mutant: a stop leaves the restart request.
StopKeepingRestart ==
  /\ Asks("stop")
  /\ \/ /\ Running
        /\ stopRequested' = TRUE
        /\ proc' = Signalled(process)
     \/ ~Running /\ UNCHANGED <<proc, stopRequested>>
  /\ UNCHANGED <<process, port, restartRequested, thread>>

Stop ==
  /\ Asks("stop")
  /\ \/ /\ Running
        /\ stopRequested' = TRUE
        /\ restartRequested' = FALSE
        /\ proc' = Signalled(process)
     \/ ~Running /\ UNCHANGED <<proc, stopRequested, restartRequested>>
  /\ UNCHANGED <<process, port, thread>>

\* The project closes.
Dispose ==
  /\ ~disposed
  /\ thread[UI] = Idle
  /\ disposed' = TRUE
  /\ asked' = "stop"
  /\ stopRequested' = TRUE
  /\ restartRequested' = FALSE
  /\ proc' = IF process # None THEN Signalled(process) ELSE proc
  /\ Cross
  /\ UNCHANGED <<process, port, thread, asks>>

-----------------------------------------------------------------------------
\* start, before its lock. A process that cannot be started is reported.
Spawn(t) ==
  /\ thread[t].at = "start"
  /\ \/ \E i \in Process :
          /\ IsNext(i)
          /\ proc' = Spawned(i)
          /\ Goes(t, At("store", i))
     \/ /\ Goes(t, Idle)
        /\ UNCHANGED proc
  /\ UNCHANGED <<process, port, stopRequested, restartRequested, asked, asks,
                 disposed, crossed>>

\* start, under its lock; then the readers and the exit watcher are started.
Store(t) ==
  /\ thread[t].at = "store"
  /\ process' = thread[t].child
  /\ port' = None
  /\ stopRequested' = FALSE
  /\ restartRequested' = FALSE
  /\ thread' = [thread EXCEPT ![t] = Idle, ![thread[t].child] = At("wait", None)]
  /\ UNCHANGED <<proc, asked, asks, disposed, crossed>>

\* onReady, on i's reader.
Ready(i) ==
  /\ proc[i].unread
  /\ thread[i] # Unstarted
  /\ proc' = [proc EXCEPT ![i].unread = FALSE]
  /\ port' = i
  /\ UNCHANGED <<process, stopRequested, restartRequested, thread, asked, asks,
                 disposed, crossed>>

\* awaitExit, once waitFor has returned: the flags are those of the moment,
\* whichever process they were set for.
Watcher(i) ==
  /\ thread[i].at = "wait"
  /\ proc[i].life = "exited"
  /\ process' = IF process = i THEN None ELSE process
  /\ Goes(i, IF restartRequested THEN At("start", None) ELSE Idle)
  /\ crossed' = (crossed \/ (restartRequested /\ Starting))
  /\ UNCHANGED <<proc, port, stopRequested, restartRequested, asked, asks, disposed>>

-----------------------------------------------------------------------------
RoverProcess(i) ==
  /\ Announce(i) \/ Exit(i)
  /\ UNCHANGED <<process, port, stopRequested, restartRequested, thread, asked,
                 asks, disposed, crossed>>

RoverNext ==
  \/ Open
  \/ Restart
  \/ Stop
  \/ Dispose
  \/ \E t \in Thread : Spawn(t) \/ Store(t)
  \/ \E i \in Process : Ready(i) \/ Watcher(i) \/ RoverProcess(i)

RoverSpec == Init /\ [][RoverNext]_roverVars

-----------------------------------------------------------------------------
(***************************************************************************)
(* As long as no action falls between a restart's or start's decision and  *)
(* its store, the field `process` is the one service left running, and a   *)
(* stop or the project's end leaves none, whatever the exit watchers of    *)
(* older processes read of the flags of newer ones.                        *)
(***************************************************************************)
OwnsItsService ==
  ~crossed /\ ~Starting =>
    /\ \A i \in Process : Alive(i) /\ ~proc[i].signalled => process = i
    /\ asked = "stop" => AllEnding

=============================================================================

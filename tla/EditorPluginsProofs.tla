------------------------- MODULE EditorPluginsProofs -------------------------
(***************************************************************************)
(* Proofs about module MCEditorPlugins, for any number of processes and of *)
(* the user's commands: each plugin owns the one service that runs, and    *)
(* what ends the service leaves none running.                              *)
(***************************************************************************)
EXTENDS MCEditorPlugins, SequenceTheorems, TLAPS

Known(lives) == lives \in {"starting", "serving", "exited"}

-----------------------------------------------------------------------------
(***************************************************************************)
(* Neovim. While anything of a process is still to come (its exit, its     *)
(* line, one of its callbacks) it is the service, and its exit callback    *)
(* comes after all the others: when that one clears `service` or starts    *)
(* the next process, nothing of the old one is left. A service's ports are *)
(* those of pages that were opened, unless it has none yet.                *)
(***************************************************************************)
NvimPort == Nvim!Process \cup {Nvim!None}
NvimTypeOK ==
  /\ proc \in [Nvim!Process -> Nvim!ProcessState]
  /\ service \in NvimPort
  /\ started \in [Nvim!Process ->
       [replaces: NvimPort, port: NvimPort, stopping: BOOLEAN, restart: BOOLEAN]]
  /\ queue \in Seq([on: {"ready", "exit"}, of: Nvim!Process])
  /\ opened \subseteq Nvim!Process
  /\ left \in BOOLEAN

Pends(i) ==
  \/ Known(proc[i].life)
  \/ proc[i].unread
  \/ \E k \in 1 .. Len(queue) : queue[k].of = i

OnlyServicePends == \A i \in Nvim!Process : Pends(i) => service = i

ExitComesLast ==
  \A k \in 1 .. Len(queue) :
    queue[k].on = "exit" =>
      /\ k = Len(queue)
      /\ ~Known(proc[queue[k].of].life) /\ ~proc[queue[k].of].unread

PortsAreOpen ==
  \A i \in Nvim!Process :
    service = i => /\ started[i].port \in opened \cup {Nvim!None}
                   /\ started[i].replaces \in opened \cup {Nvim!None}

NvimInv ==
  /\ NvimTypeOK
  /\ OnlyServicePends
  /\ ExitComesLast
  /\ PortsAreOpen
  /\ Nvim!EndsWithSession

\* What the steps do to the queue.
LEMMA CallAppended ==
  ASSUME NEW calls, NEW e, queue \in Seq(calls), e \in calls,
         queue' = Append(queue, e)
  PROVE  /\ queue' \in Seq(calls)
         /\ Len(queue) \in Nat /\ Len(queue') = Len(queue) + 1
         /\ \A k \in 1 .. Len(queue) : queue'[k] = queue[k]
         /\ queue'[Len(queue')] = e
BY AppendProperties, LenProperties

\* What taking the first one leaves of it.
LEMMA CallTaken ==
  ASSUME NEW calls, queue \in Seq(calls), queue # <<>>, queue' = Tail(queue)
  PROVE  /\ queue' \in Seq(calls)
         /\ Len(queue) \in Nat /\ Len(queue') = Len(queue) - 1
         /\ \A k \in 1 .. Len(queue') : queue'[k] = queue[k + 1]
         /\ 1 \in 1 .. Len(queue) /\ Head(queue) = queue[1]
BY EmptySeq, HeadTailProperties

\* Each scheduled callback is of a process.
LEMMA CallsAreOfProcesses ==
  ASSUME NvimTypeOK
  PROVE  /\ Len(queue) \in Nat
         /\ \A k \in 1 .. Len(queue) :
              queue[k].of \in Nvim!Process /\ queue[k].on \in {"ready", "exit"}
<1>1. \A k \in 1 .. Len(queue) : queue[k] \in [on: {"ready", "exit"}, of: Nvim!Process]
  BY ElementOfSeq DEF NvimTypeOK
<1>2. Len(queue) \in Nat
  BY LenProperties DEF NvimTypeOK
<1> QED
  BY <1>1, <1>2

\* The process ids are positive, so that none of them is None.
LEMMA NvimIds == Nvim!Process \subseteq Nat /\ Nvim!None \notin Nvim!Process
BY DEF Nvim!Process, Nvim!None

\* A start, when nothing of an older process is to come.
LEMMA NvimStarts ==
  ASSUME NvimTypeOK, NEW replaces \in opened \cup {Nvim!None}, Nvim!Start(replaces),
         ~left, UNCHANGED <<opened, left>>, queue' = <<>>,
         \A i \in Nvim!Process : ~Known(proc[i].life) /\ ~proc[i].unread
  PROVE  NvimInv'
<1> USE DEF NvimTypeOK
<1>1. CASE service' = Nvim!None /\ UNCHANGED <<proc, started>>
  <2>1. \A i \in Nvim!Process : ~Pends(i)' /\ service' # i
    BY <1>1, NvimIds DEF Pends
  <2> QED
    BY <1>1, <2>1
       DEF NvimInv, OnlyServicePends, ExitComesLast, PortsAreOpen, NvimPort,
           Nvim!EndsWithSession
<1>2. ASSUME NEW j \in Nvim!Process, proc' = Nvim!Spawned(j), service' = j,
             started' = [started EXCEPT ![j] = Nvim!Fields(replaces)]
      PROVE  NvimInv'
  <2>1. proc' = [proc EXCEPT ![j] = [proc[j] EXCEPT !.life = "starting"]]
    BY <1>2 DEF Nvim!Spawned
  <2>2. proc'[j] \in Nvim!ProcessState
    BY <2>1 DEF Nvim!ProcessState
  <2>3. NvimTypeOK'
    BY <1>2, <2>1, <2>2 DEF NvimPort, Nvim!Fields
  <2>4. \A i \in Nvim!Process \ {j} : ~Pends(i)'
    BY <2>1 DEF Pends
  <2>5. started'[j].port = Nvim!None /\ started'[j].replaces = replaces
    BY <1>2 DEF Nvim!Fields
  <2> QED
    BY <1>2, <2>3, <2>4, <2>5
       DEF NvimInv, OnlyServicePends, ExitComesLast, PortsAreOpen, Nvim!EndsWithSession
<1> QED
  BY <1>1, <1>2 DEF Nvim!Start

\* A stop or restart marks the service and leaves no process unasked.
LEMMA NvimStops ==
  ASSUME NvimInv, service # Nvim!None, NEW restart \in BOOLEAN,
         Nvim!StopService(restart), UNCHANGED <<service, queue, opened>>,
         left' \in BOOLEAN
  PROVE  NvimInv' /\ Nvim!AllEnding'
<1> USE DEF NvimInv, NvimTypeOK
<1>1. service \in Nvim!Process
  BY DEF NvimPort
<1>2. proc' = [proc EXCEPT ![service] =
                 [proc[service] EXCEPT !.signalled = @ \/ Nvim!Alive(service)]]
  BY DEF Nvim!StopService, Nvim!Signalled
<1>3. /\ proc'[service] \in Nvim!ProcessState
      /\ proc'[service].life = proc[service].life
      /\ proc'[service].unread = proc[service].unread
      /\ Nvim!Alive(service) => proc'[service].signalled
  BY <1>1, <1>2 DEF Nvim!ProcessState, Nvim!Alive
<1> DEFINE marked == [started[service] EXCEPT !.stopping = TRUE,
                                             !.restart = @ \/ restart]
<1>4. started' = [started EXCEPT ![service] = marked]
  BY <1>1 DEF Nvim!StopService
<1>5. /\ marked.port = started[service].port
      /\ marked.replaces = started[service].replaces
      /\ marked \in [replaces: NvimPort, port: NvimPort, stopping: BOOLEAN,
                     restart: BOOLEAN]
  BY <1>1
<1> HIDE DEF marked
<1>6. NvimTypeOK'
  BY <1>1, <1>2, <1>3, <1>4, <1>5
<1>7. \A i \in Nvim!Process :
        /\ proc'[i].life = proc[i].life /\ proc'[i].unread = proc[i].unread
        /\ started'[i].port = started[i].port
        /\ started'[i].replaces = started[i].replaces
  BY <1>1, <1>2, <1>3, <1>4, <1>5
<1>8. OnlyServicePends' /\ PortsAreOpen'
  BY <1>7 DEF OnlyServicePends, PortsAreOpen, Pends
<1>9. ExitComesLast'
  <2>1. \A k \in 1 .. Len(queue) : queue[k].of \in Nvim!Process
    BY CallsAreOfProcesses
  <2> QED
    BY <1>7, <2>1 DEF ExitComesLast
<1>10. Nvim!AllEnding'
  <2> SUFFICES ASSUME NEW i \in Nvim!Process, Nvim!Alive(i)'
               PROVE  proc'[i].signalled
    BY DEF Nvim!AllEnding
  <2>1. Nvim!Alive(i)
    BY <1>7 DEF Nvim!Alive
  <2>2. service = i
    BY <2>1 DEF OnlyServicePends, Pends, Known, Nvim!Alive
  <2> QED
    BY <1>3, <2>1, <2>2
<1> QED
  BY <1>6, <1>8, <1>9, <1>10 DEF Nvim!EndsWithSession

\* Without a service no process runs and no callback is scheduled.
LEMMA NoServiceNoRest ==
  ASSUME NvimInv, service = Nvim!None
  PROVE  /\ queue = <<>>
         /\ \A i \in Nvim!Process : ~Known(proc[i].life) /\ ~proc[i].unread
<1>1. \A i \in Nvim!Process : ~Pends(i)
  BY NvimIds DEF NvimInv, OnlyServicePends
<1>2. Len(queue) \in Nat /\ \A k \in 1 .. Len(queue) : queue[k].of \in Nvim!Process
  BY CallsAreOfProcesses DEF NvimInv
<1>3. Len(queue) = 0
  BY <1>1, <1>2 DEF Pends
<1> QED
  BY <1>1, <1>3, EmptySeq DEF Pends, NvimInv, NvimTypeOK

\* Open and restart: a start without a service, else its page or its mark.
LEMMA OpenStep == ASSUME NvimInv, Nvim!Open \/ Nvim!Restart PROVE NvimInv'
<1>1. CASE service = Nvim!None
  BY <1>1, NoServiceNoRest, NvimStarts
     DEF Nvim!Open, Nvim!Restart, Nvim!OpenService, Nvim!Asks, NvimInv, NvimTypeOK
<1>2. CASE service # Nvim!None /\ Nvim!Open
  <2>1. /\ UNCHANGED <<proc, service, started, queue, left>>
        /\ opened' = opened \cup ({started[service].port} \ {Nvim!None})
    BY <1>2 DEF Nvim!Open, Nvim!OpenService
  <2>2. service \in Nvim!Process /\ started[service].port \in NvimPort
    BY <1>2 DEF NvimInv, NvimTypeOK, NvimPort
  <2> QED
    BY <2>1, <2>2
       DEF NvimInv, NvimTypeOK, NvimPort, OnlyServicePends, Pends, ExitComesLast,
           PortsAreOpen, Nvim!EndsWithSession, Nvim!AllEnding, Nvim!Alive
<1>3. CASE service # Nvim!None /\ Nvim!Restart
  BY <1>3, NvimStops DEF Nvim!Restart, NvimInv, NvimTypeOK
<1> QED
  BY <1>1, <1>2, <1>3

\* Stop and the session's end mark the service.
LEMMA StopStep == ASSUME NvimInv, Nvim!Stop \/ Nvim!Leave PROVE NvimInv'
<1>1. CASE service # Nvim!None
  BY <1>1, NvimStops DEF Nvim!Stop, Nvim!Leave, NvimInv, NvimTypeOK
<1>2. CASE service = Nvim!None
  <2>1. UNCHANGED <<proc, service, started, queue, opened>> /\ left' \in BOOLEAN
    BY <1>2 DEF Nvim!Stop, Nvim!Leave, NvimInv, NvimTypeOK
  <2>2. Nvim!AllEnding
    BY <1>2, NoServiceNoRest DEF Nvim!AllEnding, Nvim!Alive, Known
  <2> QED
    BY <2>1, <2>2
       DEF NvimInv, NvimTypeOK, OnlyServicePends, Pends, ExitComesLast, PortsAreOpen,
           Nvim!EndsWithSession, Nvim!AllEnding, Nvim!Alive
<1> QED
  BY <1>1, <1>2

\* The process writes its line or exits: it was, and stays, the service.
LEMMA ProcessStep ==
  ASSUME NvimInv, NEW i \in Nvim!Process, Nvim!NvimProcess(i)
  PROVE  NvimInv'
<1> USE DEF NvimInv, NvimTypeOK
<1>1. UNCHANGED <<service, started, queue, opened, left>>
  BY DEF Nvim!NvimProcess
<1>2. /\ proc'[i] \in Nvim!ProcessState
      /\ proc' = [proc EXCEPT ![i] = proc'[i]]
      /\ Known(proc[i].life) /\ Nvim!Alive(i)
      /\ proc'[i].signalled = proc[i].signalled
  BY DEF Nvim!NvimProcess, Nvim!Announce, Nvim!Exit, Nvim!Alive, Nvim!ProcessState, Known
<1>3. NvimTypeOK'
  BY <1>1, <1>2
<1>4. OnlyServicePends' /\ PortsAreOpen'
  BY <1>1, <1>2 DEF OnlyServicePends, Pends, PortsAreOpen
<1>5. ExitComesLast'
  BY <1>1, <1>2, CallsAreOfProcesses DEF ExitComesLast
<1>6. Nvim!EndsWithSession'
  BY <1>1, <1>2 DEF Nvim!EndsWithSession, Nvim!AllEnding, Nvim!Alive, Known
<1> QED
  BY <1>3, <1>4, <1>5, <1>6

\* The line or the exit of a process is scheduled, after which nothing comes
\* but what was scheduled.
LEMMA ScheduleStep ==
  ASSUME NvimInv, NEW i \in Nvim!Process, Nvim!Line(i) \/ Nvim!Exited(i)
  PROVE  NvimInv'
<1> USE DEF NvimInv, NvimTypeOK
<1> DEFINE Calls == [on: {"ready", "exit"}, of: Nvim!Process]
           call == [on |-> IF proc[i].unread THEN "ready" ELSE "exit", of |-> i]
<1>1. UNCHANGED <<service, started, opened, left>> /\ ~left /\ queue' = Append(queue, call)
  BY DEF Nvim!Line, Nvim!Exited
<1>2. /\ proc'[i] \in Nvim!ProcessState
      /\ proc' = [proc EXCEPT ![i] = proc'[i]]
      /\ ~proc'[i].unread
      /\ ~proc[i].unread => ~Known(proc'[i].life)
      /\ Known(proc[i].life) \/ proc[i].unread
  <2>1. CASE Nvim!Line(i)
    BY <2>1 DEF Nvim!Line, Nvim!ProcessState
  <2>2. CASE Nvim!Exited(i)
    BY <2>2 DEF Nvim!Exited, Nvim!ProcessState, Known
  <2> QED
    BY <2>1, <2>2
<1>3. /\ queue' \in Seq(Calls)
      /\ Len(queue) \in Nat /\ Len(queue') = Len(queue) + 1
      /\ \A k \in 1 .. Len(queue) : queue'[k] = queue[k]
      /\ queue'[Len(queue')] = call
  BY <1>1, CallAppended
<1>4. NvimTypeOK'
  BY <1>1, <1>2, <1>3
<1>5. service = i
  BY <1>2 DEF OnlyServicePends, Pends
<1>6. OnlyServicePends' /\ PortsAreOpen'
  BY <1>1, <1>2, <1>3, <1>5 DEF OnlyServicePends, Pends, PortsAreOpen
<1>7. \A k \in 1 .. Len(queue) : queue[k].on # "exit"
  BY <1>2, <1>5, CallsAreOfProcesses DEF OnlyServicePends, Pends, ExitComesLast
<1>8. ExitComesLast'
  BY <1>1, <1>2, <1>3, <1>7 DEF ExitComesLast
<1> QED
  BY <1>1, <1>4, <1>6, <1>8 DEF Nvim!EndsWithSession

\* The ready line is the service's own, and its port's page is open then.
LEMMA ReadyStep == ASSUME NvimInv, Nvim!Ready PROVE NvimInv'
<1> USE DEF NvimInv, NvimTypeOK
<1> DEFINE Calls == [on: {"ready", "exit"}, of: Nvim!Process]
<1>1. UNCHANGED <<proc, service, left>> /\ ~left /\ queue # <<>> /\ queue' = Tail(queue)
  BY DEF Nvim!Ready
<1>2. /\ queue' \in Seq(Calls)
      /\ Len(queue) \in Nat /\ Len(queue') = Len(queue) - 1
      /\ \A k \in 1 .. Len(queue') : queue'[k] = queue[k + 1]
      /\ 1 \in 1 .. Len(queue) /\ Head(queue) = queue[1]
  BY <1>1, CallTaken
<1>3. Head(queue).of = service /\ service \in Nvim!Process /\ service # Nvim!None
  <2>1. queue[1].of \in Nvim!Process /\ Pends(queue[1].of)
    BY <1>2, CallsAreOfProcesses DEF Pends
  <2> QED
    BY <1>2, <2>1, NvimIds DEF OnlyServicePends
<1> DEFINE answered == Nvim!Port(service)
<1>4. /\ started' = [started EXCEPT ![service] = [started[service] EXCEPT !.port = answered]]
      /\ opened' = IF started[service].replaces # Nvim!None
                   THEN opened ELSE opened \cup {answered}
  BY <1>3 DEF Nvim!Ready
<1>5. answered \in opened' /\ opened \subseteq opened' /\ answered \in Nvim!Process
  BY <1>3, <1>4 DEF Nvim!Port, PortsAreOpen
<1> HIDE DEF answered
<1>6. NvimTypeOK'
  BY <1>1, <1>2, <1>3, <1>4, <1>5 DEF NvimPort
<1>7. OnlyServicePends'
  BY <1>1, <1>2 DEF OnlyServicePends, Pends
<1>8. ExitComesLast'
  <2> SUFFICES ASSUME NEW k \in 1 .. Len(queue'), queue'[k].on = "exit"
               PROVE  /\ k = Len(queue')
                      /\ ~Known(proc[queue'[k].of].life) /\ ~proc[queue'[k].of].unread
    BY <1>1 DEF ExitComesLast
  <2>1. k + 1 \in 1 .. Len(queue) /\ queue'[k] = queue[k + 1]
    BY <1>2
  <2> QED
    BY <1>2, <2>1 DEF ExitComesLast
<1>9. PortsAreOpen'
  BY <1>1, <1>3, <1>4, <1>5 DEF PortsAreOpen
<1> QED
  BY <1>1, <1>6, <1>7, <1>8, <1>9 DEF Nvim!EndsWithSession

\* The exit callback is the last thing that comes of its process, which was
\* the service: nothing runs and nothing is scheduled when it clears the field.
LEMMA ExitCallbackStep == ASSUME NvimInv, Nvim!ExitCallback PROVE NvimInv'
<1> USE DEF NvimInv, NvimTypeOK
<1> DEFINE i == Head(queue).of
<1>1. /\ UNCHANGED <<opened, left>> /\ ~left /\ queue # <<>> /\ queue' = Tail(queue)
      /\ Head(queue).on = "exit"
  BY DEF Nvim!ExitCallback
<1>2. /\ queue' \in Seq([on: {"ready", "exit"}, of: Nvim!Process])
      /\ Len(queue) \in Nat /\ Len(queue') = Len(queue) - 1
      /\ 1 \in 1 .. Len(queue) /\ Head(queue) = queue[1]
  BY <1>1, CallTaken
<1>3. i \in Nvim!Process /\ service = i /\ ~Known(proc[i].life) /\ ~proc[i].unread
  BY <1>1, <1>2, CallsAreOfProcesses DEF OnlyServicePends, Pends, ExitComesLast
<1>4. queue' = <<>>
  <2>1. queue[1].on = "exit"
    BY <1>1, <1>2
  <2>2. 1 = Len(queue)
    BY <1>2, <2>1 DEF ExitComesLast
  <2>3. Len(queue') = 0
    BY <1>2, <2>2
  <2> QED
    BY <1>2, <2>3, EmptySeq
<1>5. \A j \in Nvim!Process : ~Known(proc[j].life) /\ ~proc[j].unread
  BY <1>3 DEF OnlyServicePends, Pends
<1>6. CASE started[i].restart
  <2>1. Nvim!Start(started[i].port)
    BY <1>6 DEF Nvim!ExitCallback
  <2>2. started[i].port \in opened \cup {Nvim!None}
    BY <1>3 DEF PortsAreOpen
  <2> QED
    BY <1>1, <1>4, <1>5, <2>1, <2>2, NvimStarts
<1>7. CASE ~started[i].restart
  <2>1. service' = Nvim!None /\ UNCHANGED <<proc, started>>
    BY <1>7 DEF Nvim!ExitCallback
  <2>2. Nvim!Start(Nvim!None)
    BY <2>1 DEF Nvim!Start
  <2> QED
    BY <1>1, <1>4, <1>5, <2>2, NvimStarts
<1> QED
  BY <1>6, <1>7

\* No process is born at the start.
LEMMA NvimStartsEmpty == Nvim!Init => NvimInv
<1> SUFFICES ASSUME Nvim!Init
             PROVE  NvimInv
  OBVIOUS
<1> USE DEF Nvim!Init, Nvim!ProcessInit
<1>1. NvimTypeOK
  <2>1. queue \in Seq([on: {"ready", "exit"}, of: Nvim!Process])
    OBVIOUS
  <2> QED
    BY <2>1 DEF NvimTypeOK, NvimPort, Nvim!Fields, Nvim!ProcessState
<1>2. Len(queue) = 0
  OBVIOUS
<1> QED
  BY <1>1, <1>2, NvimIds
     DEF NvimInv, OnlyServicePends, Pends, Known, ExitComesLast, PortsAreOpen,
         Nvim!EndsWithSession

\* Every step of the Neovim plugin keeps its invariant.
LEMMA NvimStepKeeps == NvimInv /\ [Nvim!NvimNext]_(Nvim!nvimVars) => NvimInv'
<1> SUFFICES ASSUME NvimInv, Nvim!NvimNext \/ UNCHANGED Nvim!nvimVars
             PROVE  NvimInv'
  OBVIOUS
<1>1. CASE UNCHANGED Nvim!nvimVars
  BY <1>1 DEF Nvim!nvimVars, NvimInv, NvimTypeOK, OnlyServicePends, Pends, ExitComesLast,
              PortsAreOpen, Nvim!EndsWithSession, Nvim!AllEnding, Nvim!Alive
<1> QED
  BY <1>1, OpenStep, StopStep, ProcessStep, ScheduleStep, ReadyStep, ExitCallbackStep
     DEF Nvim!NvimNext

-----------------------------------------------------------------------------
(***************************************************************************)
(* VS Code. What runs or has an event to come is the service, which is the *)
(* process born last. Once the service is announced no line is unread, as  *)
(* the pipes are read in order: the last frame asked for, or the panel if  *)
(* there is none, is the service's. After a stop no restart is pending.    *)
(***************************************************************************)
VscodePort == Vscode!Process \cup {Vscode!None}
VscodeFields ==
  [replaces: VscodePort, port: VscodePort, stopping: BOOLEAN, restart: BOOLEAN]
VscodeTypeOK ==
  /\ proc \in [Vscode!Process -> Vscode!ProcessState]
  /\ service \in VscodePort
  /\ started \in [Vscode!Process -> VscodeFields]
  /\ panel \in [open: BOOLEAN, shows: VscodePort]
  /\ frames \in Seq(Vscode!Process)

OnlyServiceRuns ==
  \A i \in Vscode!Process :
    Known(proc[i].life) \/ proc[i].life = "failed" => service = i

BornInOrder ==
  \A i \in Vscode!Process :
    /\ proc[i].life # "unborn" =>
         \A j \in Vscode!Process : j < i => proc[j].life # "unborn"
    /\ proc[i].unread => proc[i].life \notin {"unborn", "starting", "failed"}

ServiceIsLast ==
  \A i \in Vscode!Process :
    service = i =>
      /\ proc[i].life # "unborn"
      /\ \A j \in Vscode!Process : i < j => proc[j].life = "unborn"

\* The service has announced itself, and its page is somewhere.
Announced == service # Vscode!None /\ started[service].port # Vscode!None

AnnouncedLast ==
  Announced =>
    /\ proc[service].life # "starting"
    /\ \A i \in Vscode!Process : ~proc[i].unread

FrameOfService ==
  Announced /\ panel.open =>
    /\ frames = <<>> => panel.shows = started[service].port
    /\ frames # <<>> => frames[Len(frames)] = started[service].port

StopIsFinal ==
  asked = "stop" =>
    \A i \in Vscode!Process :
      service = i => ~started[i].restart /\ (Vscode!Alive(i) => proc[i].signalled)

VscodeInv ==
  /\ VscodeTypeOK
  /\ OnlyServiceRuns
  /\ BornInOrder
  /\ ServiceIsLast
  /\ AnnouncedLast
  /\ FrameOfService
  /\ StopIsFinal

\* The process ids are positive, so that none of them is None.
LEMMA VscodeIds == Vscode!Process \subseteq Nat /\ Vscode!None \notin Vscode!Process
BY DEF Vscode!Process, Vscode!None

\* The next process becomes the service when nothing of an older one runs.
LEMMA VscodeStarts ==
  ASSUME VscodeInv, NEW j \in Vscode!Process, NEW replaces \in VscodePort,
         Vscode!IsNext(j), service' = j,
         started' = [started EXCEPT ![j] = Vscode!Fields(replaces)],
         proc' \in [Vscode!Process -> Vscode!ProcessState],
         proc'[j].life # "unborn", proc'[j].unread = proc[j].unread,
         \A i \in Vscode!Process \ {j} :
           /\ ~Known(proc'[i].life) /\ proc'[i].life # "failed"
           /\ proc'[i].unread = proc[i].unread
           /\ proc'[i].life = "unborn" <=> proc[i].life = "unborn",
         panel' \in [open: BOOLEAN, shows: VscodePort],
         frames' \in Seq(Vscode!Process), asked' # "stop"
  PROVE  VscodeInv'
<1> USE DEF VscodeInv, VscodeTypeOK
<1>1. /\ started'[j].port = Vscode!None
      /\ Vscode!Fields(replaces) \in VscodeFields
  BY DEF Vscode!Fields, VscodePort, VscodeFields
<1>2. VscodeTypeOK'
  BY <1>1 DEF VscodePort
<1>3. OnlyServiceRuns'
  BY DEF OnlyServiceRuns
<1>4. ~Announced'
  BY <1>1 DEF Announced
<1>5. AnnouncedLast' /\ FrameOfService' /\ StopIsFinal'
  BY <1>4 DEF AnnouncedLast, FrameOfService, StopIsFinal
<1>6. /\ proc[j].life = "unborn" /\ ~proc[j].unread
      /\ \A i \in Vscode!Process : i < j => proc[i].life # "unborn"
  BY VscodeIds DEF Vscode!IsNext, BornInOrder, Vscode!Process
<1>7. \A i \in Vscode!Process : j < i => proc[i].life = "unborn"
  BY <1>6 DEF BornInOrder
<1>8. BornInOrder'
  <2> SUFFICES ASSUME NEW i \in Vscode!Process
               PROVE  /\ proc'[i].life # "unborn" =>
                           \A k \in Vscode!Process : k < i => proc'[k].life # "unborn"
                      /\ proc'[i].unread => proc'[i].life \notin
                                              {"unborn", "starting", "failed"}
    BY DEF BornInOrder
  <2>1. CASE i = j
    BY <1>6, <2>1, VscodeIds
  <2>2. CASE i # j
    BY <1>6, <2>2 DEF BornInOrder, Known
  <2> QED
    BY <2>1, <2>2
<1>9. ServiceIsLast'
  BY <1>7, VscodeIds DEF ServiceIsLast
<1> QED
  BY <1>2, <1>3, <1>5, <1>8, <1>9

\* startService, with no service before it.
LEMMA StartServiceStep ==
  ASSUME VscodeInv, service = Vscode!None, Vscode!StartService(Vscode!None),
         panel' \in [open: BOOLEAN, shows: VscodePort],
         frames' = frames, asked' # "stop"
  PROVE  VscodeInv'
<1> USE DEF VscodeInv, VscodeTypeOK
<1>1. PICK j \in Vscode!Process :
        /\ Vscode!IsNext(j)
        /\ proc' \in {Vscode!Spawned(j), Vscode!SpawnFailed(j)}
        /\ service' = j
        /\ started' = [started EXCEPT ![j] = Vscode!Fields(Vscode!None)]
  BY DEF Vscode!StartService
<1>2. PICK life \in {"starting", "failed"} :
        proc' = [proc EXCEPT ![j] = [proc[j] EXCEPT !.life = life]]
  BY <1>1 DEF Vscode!Spawned, Vscode!SpawnFailed
<1>3. /\ proc'[j] \in Vscode!ProcessState
      /\ proc'[j].life # "unborn" /\ proc'[j].unread = proc[j].unread
  BY <1>2 DEF Vscode!ProcessState
<1>4. proc' \in [Vscode!Process -> Vscode!ProcessState]
  BY <1>2, <1>3
<1>5. \A i \in Vscode!Process \ {j} :
        /\ proc'[i] = proc[i]
        /\ ~Known(proc[i].life) /\ proc[i].life # "failed"
  BY <1>2, VscodeIds DEF OnlyServiceRuns
<1> QED
  BY <1>1, <1>3, <1>4, <1>5, VscodeStarts DEF VscodePort

\* A stop marks the service and takes a pending restart back, a restart marks
\* it as well; neither moves its page.
LEMMA VscodeStops ==
  ASSUME VscodeInv, service # Vscode!None, NEW restart \in BOOLEAN,
         started' = [started EXCEPT ![service].restart = restart,
                                    ![service].stopping = TRUE],
         proc' = Vscode!Signalled(service), UNCHANGED <<service, frames>>,
         panel' \in [open: BOOLEAN, shows: VscodePort],
         panel'.open => panel' = panel,
         asked' = "stop" => ~restart
  PROVE  VscodeInv'
<1>1. /\ service \in Vscode!Process
      /\ proc \in [Vscode!Process -> Vscode!ProcessState]
      /\ started \in [Vscode!Process -> VscodeFields]
  BY DEF VscodeInv, VscodeTypeOK, VscodePort
<1> DEFINE told == proc[service].signalled \/ Vscode!Alive(service)
<1>2. proc' = [proc EXCEPT ![service] = [proc[service] EXCEPT !.signalled = told]]
  BY DEF Vscode!Signalled
<1>3. /\ proc'[service] \in Vscode!ProcessState
      /\ proc'[service].life = proc[service].life
      /\ proc'[service].unread = proc[service].unread
      /\ Vscode!Alive(service) => proc'[service].signalled
  <2>1. told \in BOOLEAN /\ (Vscode!Alive(service) => told)
    BY <1>1 DEF Vscode!ProcessState, Vscode!Alive
  <2> HIDE DEF told
  <2>2. proc'[service] = [proc[service] EXCEPT !.signalled = told]
    BY <1>1, <1>2
  <2> QED
    BY <1>1, <2>1, <2>2 DEF Vscode!ProcessState
<1> DEFINE marked == [started[service] EXCEPT !.restart = restart, !.stopping = TRUE]
<1>4. started' = [started EXCEPT ![service] = marked]
  BY <1>1
<1>5. /\ marked.port = started[service].port
      /\ marked.restart = restart
      /\ marked \in VscodeFields
  BY <1>1 DEF VscodeFields
<1> HIDE DEF marked
<1>6. VscodeTypeOK'
  <2>1. proc' \in [Vscode!Process -> Vscode!ProcessState]
    BY <1>1, <1>2, <1>3
  <2>2. started' \in [Vscode!Process -> VscodeFields]
    BY <1>1, <1>4, <1>5
  <2> QED
    BY <2>1, <2>2 DEF VscodeInv, VscodeTypeOK
<1>7. \A i \in Vscode!Process :
        /\ proc'[i].life = proc[i].life /\ proc'[i].unread = proc[i].unread
        /\ started'[i].port = started[i].port
  BY <1>1, <1>2, <1>3, <1>4, <1>5
<1>8. OnlyServiceRuns' /\ BornInOrder' /\ ServiceIsLast'
  BY <1>7 DEF VscodeInv, OnlyServiceRuns, BornInOrder, ServiceIsLast
<1>9. AnnouncedLast' /\ FrameOfService'
  BY <1>1, <1>7 DEF VscodeInv, AnnouncedLast, FrameOfService, Announced
<1>10. StopIsFinal'
  BY <1>1, <1>3, <1>4, <1>5, <1>7 DEF StopIsFinal, Vscode!Alive
<1> QED
  BY <1>6, <1>8, <1>9, <1>10 DEF VscodeInv

\* Without a service a stop changes nothing and leaves nothing running.
LEMMA EndServiceStep ==
  ASSUME VscodeInv, Vscode!EndService, UNCHANGED <<service, frames>>,
         panel' \in [open: BOOLEAN, shows: VscodePort],
         panel'.open => panel' = panel
  PROVE  VscodeInv'
<1>1. CASE service # Vscode!None
  BY <1>1, VscodeStops DEF Vscode!EndService
<1>2. CASE service = Vscode!None
  <2>1. UNCHANGED <<proc, started, service, frames>>
    BY <1>2 DEF Vscode!EndService
  <2> QED
    BY <1>2, <2>1, VscodeIds
       DEF VscodeInv, VscodeTypeOK, OnlyServiceRuns, BornInOrder, ServiceIsLast,
           AnnouncedLast, FrameOfService, Announced, StopIsFinal, Vscode!Alive
<1> QED
  BY <1>1, <1>2

\* The commands that show the service or start one.
LEMMA ShowStep ==
  ASSUME VscodeInv, \/ Vscode!Open \/ Vscode!OpenInBrowser
                    \/ service = Vscode!None /\ Vscode!Restart
  PROVE  VscodeInv'
<1> USE DEF VscodeInv, VscodeTypeOK
<1>1. asked' # "stop"
  BY DEF Vscode!Open, Vscode!OpenInBrowser, Vscode!Restart, Vscode!Asks
<1>2. panel' \in [open: BOOLEAN, shows: VscodePort]
  <2>1. panel' \in {panel, Vscode!EmptyPanel}
    <3>1. CASE Vscode!ShowPanel
      BY <3>1 DEF Vscode!ShowPanel, Vscode!Blank
    <3>2. CASE Vscode!OpenInBrowser
      BY <3>2 DEF Vscode!OpenInBrowser, Vscode!Blank
    <3> QED
      BY <3>1, <3>2, VscodeIds DEF Vscode!Open, Vscode!Restart
  <2>2. Vscode!EmptyPanel \in [open: BOOLEAN, shows: VscodePort]
    BY DEF Vscode!EmptyPanel, VscodePort
  <2> QED
    BY <2>1, <2>2
<1>3. CASE service = Vscode!None
  BY <1>1, <1>2, <1>3, StartServiceStep
     DEF Vscode!Open, Vscode!OpenInBrowser, Vscode!Restart, Vscode!ShowPanel
<1>4. CASE service # Vscode!None /\ Vscode!OpenInBrowser
  <2>1. UNCHANGED <<proc, started, service, panel, frames>>
    BY <1>4 DEF Vscode!OpenInBrowser
  <2> QED
    BY <1>1, <2>1
       DEF OnlyServiceRuns, BornInOrder, ServiceIsLast, AnnouncedLast, FrameOfService,
           Announced, StopIsFinal
<1>5. CASE service # Vscode!None /\ Vscode!Open
  <2>1. UNCHANGED <<proc, started, service>>
    BY <1>5 DEF Vscode!Open, Vscode!ShowPanel
  <2>2. OnlyServiceRuns' /\ BornInOrder' /\ ServiceIsLast' /\ AnnouncedLast' /\ StopIsFinal'
    BY <1>1, <2>1
       DEF OnlyServiceRuns, BornInOrder, ServiceIsLast, AnnouncedLast, Announced,
           StopIsFinal
  <2>3. CASE panel.open \/ started[service].port = Vscode!None
    <3>1. frames' = frames /\ (panel.open => panel' = panel)
      BY <1>5, <2>3 DEF Vscode!Open, Vscode!ShowPanel
    <3> QED
      BY <1>2, <2>1, <2>2, <2>3, <3>1 DEF FrameOfService, Announced
  <2>4. CASE ~panel.open /\ started[service].port # Vscode!None
    <3>1. frames' = Append(frames, started[service].port)
      BY <1>5, <2>4 DEF Vscode!Open, Vscode!ShowPanel
    <3>2. started[service].port \in Vscode!Process
      BY <1>5, <2>4 DEF VscodeFields, VscodePort
    <3>3. /\ frames' \in Seq(Vscode!Process) /\ frames' # <<>>
          /\ frames'[Len(frames')] = started[service].port
      BY <3>1, <3>2, AppendProperties, LenProperties
    <3> QED
      BY <1>2, <2>1, <2>2, <3>3 DEF FrameOfService, Announced
  <2> QED
    BY <2>3, <2>4
<1> QED
  BY <1>3, <1>4, <1>5

\* The commands that mark the service.
LEMMA MarkStep ==
  ASSUME VscodeInv, \/ Vscode!Stop \/ Vscode!ClosePanel \/ Vscode!Deactivate
                    \/ service # Vscode!None /\ Vscode!Restart
  PROVE  VscodeInv'
<1>1. panel \in [open: BOOLEAN, shows: VscodePort]
  BY DEF VscodeInv, VscodeTypeOK
<1>2. CASE Vscode!Stop \/ Vscode!Deactivate
  BY <1>1, <1>2, EndServiceStep DEF Vscode!Stop, Vscode!Deactivate
<1>3. CASE Vscode!ClosePanel
  <2>1. panel' \in [open: BOOLEAN, shows: VscodePort] /\ ~panel'.open
    BY <1>3 DEF Vscode!ClosePanel, Vscode!NoPanel, VscodePort
  <2> QED
    BY <1>3, <2>1, EndServiceStep DEF Vscode!ClosePanel
<1>4. CASE service # Vscode!None /\ Vscode!Restart
  <2>1. asked' # "stop"
    BY <1>4 DEF Vscode!Restart, Vscode!Asks
  <2>2. UNCHANGED <<service, panel, frames>> /\ proc' = Vscode!Signalled(service)
    BY <1>4 DEF Vscode!Restart
  <2>3. started' = [started EXCEPT ![service].restart = TRUE,
                                   ![service].stopping = TRUE]
    BY <1>4 DEF Vscode!Restart
  <2> QED
    BY <1>1, <1>4, <2>1, <2>2, <2>3, VscodeStops
<1> QED
  BY <1>2, <1>3, <1>4

\* A process announces itself or exits.
LEMMA LivesStep ==
  ASSUME VscodeInv, NEW i \in Vscode!Process, Vscode!VscodeProcess(i)
  PROVE  VscodeInv'
<1> USE DEF VscodeInv, VscodeTypeOK
<1>1. UNCHANGED <<service, started, panel, frames, asked>>
  BY DEF Vscode!VscodeProcess
<1>2. /\ proc' = [proc EXCEPT ![i] = proc'[i]]
      /\ proc'[i] \in Vscode!ProcessState
      /\ proc'[i].signalled = proc[i].signalled
      /\ proc[i].life \in {"starting", "serving"}
      /\ proc'[i].life \in {"serving", "exited"}
      /\ proc'[i].unread => proc[i].unread \/ proc[i].life = "starting"
      /\ proc'[i].life = "serving" => proc[i].life = "starting"
  <2>1. CASE Vscode!Announce(i)
    BY <2>1 DEF Vscode!Announce, Vscode!ProcessState
  <2>2. CASE Vscode!Exit(i)
    BY <2>2 DEF Vscode!Exit, Vscode!Alive, Vscode!ProcessState
  <2> QED
    BY <2>1, <2>2 DEF Vscode!VscodeProcess
<1>3. VscodeTypeOK'
  BY <1>1, <1>2
<1>4. service = i
  BY <1>2 DEF OnlyServiceRuns, Known
<1>5. OnlyServiceRuns' /\ BornInOrder' /\ ServiceIsLast'
  BY <1>1, <1>2, <1>4 DEF OnlyServiceRuns, BornInOrder, ServiceIsLast
<1>6. AnnouncedLast' /\ FrameOfService'
  BY <1>1, <1>2, <1>4 DEF AnnouncedLast, FrameOfService, Announced
<1>7. StopIsFinal'
  BY <1>1, <1>2 DEF StopIsFinal, Vscode!Alive
<1> QED
  BY <1>3, <1>5, <1>6, <1>7

\* The process of an event was the service; a restart starts the next.
LEMMA EventStep ==
  ASSUME VscodeInv, NEW i \in Vscode!Process, Vscode!ErrorEvent(i) \/ Vscode!ExitEvent(i)
  PROVE  VscodeInv'
<1> USE DEF VscodeInv, VscodeTypeOK
<1>1. UNCHANGED <<frames, asked>> /\ proc[i].life \in {"failed", "exited"}
  BY DEF Vscode!ErrorEvent, Vscode!ExitEvent
<1>2. service = i
  BY <1>1 DEF OnlyServiceRuns, Known
<1>3. CASE UNCHANGED <<started, panel>> /\ service' = Vscode!None
             /\ proc' = [proc EXCEPT ![i].life = "collected"]
  <2>1. /\ proc' = [proc EXCEPT ![i] = proc'[i]]
        /\ proc'[i] \in Vscode!ProcessState
        /\ proc'[i].life = "collected" /\ proc'[i].unread = proc[i].unread
    BY <1>3 DEF Vscode!ProcessState
  <2>2. VscodeTypeOK'
    BY <1>1, <1>3, <2>1 DEF VscodePort
  <2>3. OnlyServiceRuns' /\ BornInOrder' /\ ServiceIsLast'
    BY <1>1, <1>2, <1>3, <2>1, VscodeIds DEF OnlyServiceRuns, BornInOrder, ServiceIsLast, Known
  <2>4. AnnouncedLast' /\ FrameOfService' /\ StopIsFinal'
    BY <1>3, VscodeIds DEF AnnouncedLast, FrameOfService, Announced, StopIsFinal
  <2> QED
    BY <2>2, <2>3, <2>4
<1>4. ASSUME NEW j \in Vscode!Process, Vscode!IsNext(j), started[i].restart,
             proc' \in {[Vscode!Spawned(j) EXCEPT ![i].life = "collected"],
                        [Vscode!SpawnFailed(j) EXCEPT ![i].life = "collected"]},
             service' = j,
             started' = [started EXCEPT ![j] = Vscode!Fields(started[i].port)],
             panel' = Vscode!Blank(panel)
      PROVE  VscodeInv'
  <2>1. i # j /\ asked' # "stop"
    BY <1>1, <1>2, <1>4 DEF Vscode!IsNext, StopIsFinal
  <2>2. PICK life \in {"starting", "failed"} :
          proc' = [proc EXCEPT ![j] = [proc[j] EXCEPT !.life = life],
                               ![i] = [proc[i] EXCEPT !.life = "collected"]]
    BY <1>4, <2>1 DEF Vscode!Spawned, Vscode!SpawnFailed
  <2>3. /\ proc'[j] \in Vscode!ProcessState
        /\ proc'[j].life # "unborn" /\ proc'[j].unread = proc[j].unread
        /\ proc'[i] \in Vscode!ProcessState
        /\ proc'[i].life = "collected" /\ proc'[i].unread = proc[i].unread
    BY <2>1, <2>2 DEF Vscode!ProcessState
  <2>4. proc' \in [Vscode!Process -> Vscode!ProcessState]
    BY <2>2, <2>3
  <2>5. \A k \in Vscode!Process \ {j} :
          /\ ~Known(proc'[k].life) /\ proc'[k].life # "failed"
          /\ proc'[k].unread = proc[k].unread
          /\ proc'[k].life = "unborn" <=> proc[k].life = "unborn"
    BY <1>1, <1>2, <2>2, <2>3 DEF OnlyServiceRuns, Known
  <2>6. panel' \in [open: BOOLEAN, shows: VscodePort]
    BY <1>4 DEF Vscode!Blank, Vscode!EmptyPanel, VscodePort
  <2>7. started[i].port \in VscodePort
    BY DEF VscodeFields
  <2> QED
    BY <1>1, <1>4, <2>1, <2>3, <2>4, <2>5, <2>6, <2>7, VscodeStarts
<1>5. CASE Vscode!ErrorEvent(i)
  BY <1>2, <1>3, <1>5 DEF Vscode!ErrorEvent
<1>6. CASE Vscode!ExitEvent(i)
  BY <1>2, <1>3, <1>4, <1>6 DEF Vscode!ExitEvent, Vscode!Collected
<1> QED
  BY <1>5, <1>6

\* The line of a process, read after those of all older ones.
LEMMA LineStep ==
  ASSUME VscodeInv, NEW i \in Vscode!Process, Vscode!ReadyLine(i)
  PROVE  VscodeInv'
<1> USE DEF VscodeInv, VscodeTypeOK
<1> DEFINE answered == Vscode!Port(i)
<1>1. /\ UNCHANGED <<service, panel, asked>>
      /\ proc[i].unread
      /\ \A j \in Vscode!Process : j < i => ~proc[j].unread
      /\ proc' = [proc EXCEPT ![i] = [proc[i] EXCEPT !.unread = FALSE]]
      /\ started' = [started EXCEPT ![i] = [started[i] EXCEPT !.port = answered]]
      /\ frames' = Append(frames, answered)
  BY VscodeIds DEF Vscode!ReadyLine, Vscode!Process
<1>2. answered \in Vscode!Process /\ answered # Vscode!None
  BY VscodeIds DEF Vscode!Port, VscodePort, VscodeFields
<1> HIDE DEF answered
<1>3. /\ proc'[i] \in Vscode!ProcessState /\ ~proc'[i].unread
      /\ proc'[i].life = proc[i].life /\ proc'[i].signalled = proc[i].signalled
      /\ \A j \in Vscode!Process \ {i} : proc'[j] = proc[j]
      /\ \A j \in Vscode!Process : proc'[j].life = proc[j].life
  BY <1>1 DEF Vscode!ProcessState
<1>4. /\ started'[i] \in VscodeFields
      /\ started'[i].port = answered /\ started'[i].restart = started[i].restart
      /\ \A j \in Vscode!Process \ {i} : started'[j] = started[j]
  BY <1>1, <1>2 DEF VscodeFields, VscodePort
<1>5. /\ frames' \in Seq(Vscode!Process) /\ frames' # <<>>
      /\ frames'[Len(frames')] = answered
  BY <1>1, <1>2, AppendProperties, LenProperties
<1>6. VscodeTypeOK'
  BY <1>1, <1>3, <1>4, <1>5
<1>7. OnlyServiceRuns' /\ BornInOrder' /\ ServiceIsLast'
  BY <1>1, <1>3 DEF OnlyServiceRuns, BornInOrder, ServiceIsLast
<1>8. StopIsFinal'
  BY <1>1, <1>3, <1>4 DEF StopIsFinal, Vscode!Alive
<1>9. ASSUME Announced'
      PROVE  service = i /\ \A j \in Vscode!Process : ~proc'[j].unread
  <2>1. service = i
    BY <1>1, <1>4, <1>9 DEF Announced, AnnouncedLast, VscodePort
  <2>2. \A j \in Vscode!Process : i < j => ~proc[j].unread
    BY <2>1 DEF ServiceIsLast, BornInOrder
  <2>3. \A j \in Vscode!Process : j = i \/ j < i \/ i < j
    BY VscodeIds
  <2> QED
    BY <1>1, <1>3, <2>1, <2>2, <2>3
<1>10. AnnouncedLast'
  BY <1>1, <1>3, <1>9 DEF AnnouncedLast, BornInOrder
<1>11. FrameOfService'
  BY <1>1, <1>4, <1>5, <1>9 DEF FrameOfService
<1> QED
  BY <1>6, <1>7, <1>8, <1>10, <1>11

\* A frame is shown; the service's, if it is the last one.
LEMMA FrameStep == ASSUME VscodeInv, Vscode!Frame PROVE VscodeInv'
<1> USE DEF VscodeInv, VscodeTypeOK
<1>1. /\ UNCHANGED <<proc, service, started, asked>>
      /\ frames # <<>> /\ frames' = Tail(frames)
      /\ panel' = IF panel.open THEN [panel EXCEPT !.shows = Head(frames)] ELSE panel
  BY DEF Vscode!Frame
<1>2. /\ frames' \in Seq(Vscode!Process)
      /\ Len(frames) \in Nat \ {0} /\ Len(frames') = Len(frames) - 1
      /\ \A k \in 1 .. Len(frames') : frames'[k] = frames[k + 1]
      /\ Head(frames) = frames[1] /\ Head(frames) \in Vscode!Process
      /\ frames' # <<>> => Len(frames') \in Nat \ {0}
      /\ frames' = <<>> => Len(frames') = 0
  <2>1. Len(frames) \in Nat \ {0} /\ frames' \in Seq(Vscode!Process)
    BY <1>1, EmptySeq, HeadTailProperties
  <2>2. /\ Len(frames') = Len(frames) - 1
        /\ \A k \in 1 .. Len(frames') : frames'[k] = frames[k + 1]
        /\ Head(frames) = frames[1] /\ Head(frames) \in Vscode!Process
    BY <1>1, HeadTailProperties
  <2>3. /\ frames' # <<>> => Len(frames') \in Nat \ {0}
        /\ frames' = <<>> => Len(frames') = 0
    BY <2>1, EmptySeq
  <2> QED
    BY <2>1, <2>2, <2>3
<1>3. /\ panel' \in [open: BOOLEAN, shows: VscodePort] /\ panel'.open = panel.open
      /\ panel.open => panel'.shows = Head(frames)
  BY <1>1, <1>2 DEF VscodePort
<1>4. VscodeTypeOK'
  BY <1>1, <1>2, <1>3
<1>5. OnlyServiceRuns' /\ BornInOrder' /\ ServiceIsLast' /\ AnnouncedLast' /\ StopIsFinal'
  BY <1>1
     DEF OnlyServiceRuns, BornInOrder, ServiceIsLast, AnnouncedLast, Announced,
         StopIsFinal, Vscode!Alive
<1>6. FrameOfService'
  <2> SUFFICES ASSUME Announced, panel.open
               PROVE  /\ frames' = <<>> => panel'.shows = started[service].port
                      /\ frames' # <<>> => frames'[Len(frames')] = started[service].port
    <3>1. Announced' => Announced /\ panel'.open = panel.open /\ started' = started
      BY <1>1, <1>3 DEF Announced
    <3> QED
      BY <1>1, <3>1 DEF FrameOfService
  <2>1. frames[Len(frames)] = started[service].port
    BY <1>1 DEF FrameOfService
  <2>2. CASE frames' = <<>>
    <3>1. Len(frames) = 1
      BY <1>2, <2>2
    <3>2. Head(frames) = started[service].port
      BY <1>2, <2>1, <3>1
    <3> QED
      BY <1>3, <2>2, <3>2
  <2>3. CASE frames' # <<>>
    BY <1>2, <2>1, <2>3
  <2> QED
    BY <2>2, <2>3
<1> QED
  BY <1>4, <1>5, <1>6

\* No process is born at the start.
LEMMA VscodeStartsEmpty == Vscode!Init => VscodeInv
<1> SUFFICES ASSUME Vscode!Init
             PROVE  VscodeInv
  OBVIOUS
<1> USE DEF Vscode!Init, Vscode!ProcessInit
<1>1. VscodeTypeOK
  <2>1. frames \in Seq(Vscode!Process)
    OBVIOUS
  <2>2. panel \in [open: BOOLEAN, shows: VscodePort]
    BY DEF Vscode!NoPanel, VscodePort
  <2> QED
    BY <2>1, <2>2
       DEF VscodeTypeOK, VscodePort, VscodeFields, Vscode!Fields, Vscode!ProcessState
<1> QED
  BY <1>1, VscodeIds
     DEF VscodeInv, OnlyServiceRuns, Known, BornInOrder, ServiceIsLast, AnnouncedLast,
         FrameOfService, Announced, StopIsFinal

\* Every step of the VS Code extension keeps its invariant.
LEMMA VscodeStepKeeps == VscodeInv /\ [Vscode!VscodeNext]_(Vscode!vscodeVars) => VscodeInv'
<1> SUFFICES ASSUME VscodeInv, Vscode!VscodeNext \/ UNCHANGED Vscode!vscodeVars
             PROVE  VscodeInv'
  OBVIOUS
<1>1. CASE UNCHANGED Vscode!vscodeVars
  BY <1>1
     DEF Vscode!vscodeVars, VscodeInv, VscodeTypeOK, OnlyServiceRuns, BornInOrder,
         ServiceIsLast, AnnouncedLast, FrameOfService, Announced, StopIsFinal,
         Vscode!Alive
<1> QED
  BY <1>1, ShowStep, MarkStep, LivesStep, EventStep, LineStep, FrameStep
     DEF Vscode!VscodeNext

-----------------------------------------------------------------------------
(***************************************************************************)
(* RustRover. Before anything is decided under a start or restart, one     *)
(* thread at most starts a process, and every other process has been asked *)
(* to end. A restart request is read by a watcher only after a decision    *)
(* that was no stop.                                                       *)
(***************************************************************************)
Place == [at: {"none", "idle", "wait", "start", "store"},
          child: Rover!Process \cup {Rover!None}]
RoverTypeOK ==
  /\ proc \in [Rover!Process -> Rover!ProcessState]
  /\ process \in Rover!Process \cup {Rover!None}
  /\ restartRequested \in BOOLEAN
  /\ crossed \in BOOLEAN
  /\ thread \in [Rover!Thread -> Place]
  /\ \A t \in Rover!Thread : thread[t].at = "store" => thread[t].child \in Rover!Process

Starts(t) == thread[t].at \in {"start", "store"}
Unasked(i) == Rover!Alive(i) /\ ~proc[i].signalled

OneStarts == \A t, u \in Rover!Thread : Starts(t) /\ Starts(u) => t = u

StarterIsAlone ==
  \A t \in Rover!Thread :
    Starts(t) =>
      /\ asked # "stop"
      /\ \A i \in Rover!Process :
           Unasked(i) => thread[t].at = "store" /\ thread[t].child = i

ProcessIsKept ==
  (\A t \in Rover!Thread : ~Starts(t)) =>
    /\ \A i \in Rover!Process :
         Unasked(i) => process = i /\ ~restartRequested /\ asked # "stop"
    /\ restartRequested /\ asked = "stop" =>
         \A i \in Rover!Process : thread[i].at # "wait"

RoverInv ==
  /\ RoverTypeOK
  /\ ~crossed => OneStarts /\ StarterIsAlone /\ ProcessIsKept

\* The ids of processes and threads.
LEMMA RoverIds ==
  /\ Rover!None \notin Rover!Process
  /\ Rover!Process \subseteq Rover!Thread /\ Rover!UI \in Rover!Thread
  /\ Rover!UI \notin Rover!Process
BY DEF Rover!Process, Rover!None, Rover!Thread, Rover!UI

\* A user's action that leaves the crossing unset finds no start under way and
\* no restart it could not take back.
LEMMA AskedUncrossed ==
  ASSUME Rover!Cross, ~crossed'
  PROVE  /\ ~crossed
         /\ \A t \in Rover!Thread : ~Starts(t)
         /\ restartRequested /\ ~Rover!Running =>
              \A i \in Rover!Process : thread[i].at # "wait"
BY DEF Rover!Cross, Rover!Starting, Starts, Rover!RestartPending

\* The signal to the process of the field.
LEMMA RoverSignals ==
  ASSUME RoverInv, process # Rover!None, proc' = Rover!Signalled(process)
  PROVE  /\ proc' \in [Rover!Process -> Rover!ProcessState]
         /\ \A i \in Rover!Process :
              Rover!Alive(i)' /\ ~proc'[i].signalled => Unasked(i) /\ i # process
<1>1. /\ process \in Rover!Process
      /\ proc \in [Rover!Process -> Rover!ProcessState]
  BY DEF RoverInv, RoverTypeOK
<1> DEFINE told == proc[process].signalled \/ Rover!Alive(process)
<1>2. proc' = [proc EXCEPT ![process] = [proc[process] EXCEPT !.signalled = told]]
  BY DEF Rover!Signalled
<1>3. told \in BOOLEAN /\ (Rover!Alive(process) => told)
  BY <1>1 DEF Rover!ProcessState, Rover!Alive
<1> HIDE DEF told
<1>4. /\ proc'[process] \in Rover!ProcessState
      /\ proc'[process].life = proc[process].life
      /\ proc'[process].signalled = told
  BY <1>1, <1>2, <1>3 DEF Rover!ProcessState
<1>5. \A i \in Rover!Process : i # process => proc'[i] = proc[i]
  BY <1>1, <1>2
<1> QED
  BY <1>1, <1>2, <1>3, <1>4, <1>5 DEF Rover!Alive, Unasked

\* An action that ends the service, or leaves it, and starts nothing itself.
LEMMA EndStep ==
  ASSUME RoverInv, Rover!Stop \/ Rover!Dispose \/ (Rover!Restart /\ Rover!Running)
  PROVE  RoverInv'
<1> USE DEF RoverInv
<1>1. UNCHANGED <<process, thread>> /\ Rover!Cross
  BY DEF Rover!Stop, Rover!Dispose, Rover!Restart, Rover!Asks
<1>2. process \in Rover!Process \cup {Rover!None} /\ Rover!Running => process # Rover!None
  BY DEF RoverTypeOK, Rover!Running
<1>3. CASE proc' = Rover!Signalled(process) /\ process # Rover!None
           /\ (restartRequested' => asked' # "stop") /\ restartRequested' \in BOOLEAN
  <2>1. RoverTypeOK'
    BY <1>1, <1>3, RoverSignals DEF RoverTypeOK, Rover!Cross
  <2>2. ASSUME ~crossed'
        PROVE  OneStarts' /\ StarterIsAlone' /\ ProcessIsKept'
    <3>1. ~crossed /\ \A t \in Rover!Thread : ~Starts(t)
      BY <1>1, <2>2, AskedUncrossed
    <3>2. \A i \in Rover!Process : ~Unasked(i)'
      BY <1>3, <3>1, RoverSignals DEF ProcessIsKept, Unasked
    <3> QED
      BY <1>1, <1>3, <3>1, <3>2
         DEF OneStarts, StarterIsAlone, ProcessIsKept, Starts
  <2> QED
    BY <2>1, <2>2
<1>4. CASE UNCHANGED proc /\ ~Rover!Running
           /\ (UNCHANGED restartRequested \/ ~restartRequested')
           /\ restartRequested' \in BOOLEAN
  <2>1. RoverTypeOK'
    BY <1>1, <1>4 DEF RoverTypeOK, Rover!Cross
  <2>2. ASSUME ~crossed'
        PROVE  OneStarts' /\ StarterIsAlone' /\ ProcessIsKept'
    <3>1. /\ ~crossed /\ \A t \in Rover!Thread : ~Starts(t)
          /\ restartRequested => \A i \in Rover!Process : thread[i].at # "wait"
      BY <1>1, <1>4, <2>2, AskedUncrossed
    <3>2. \A i \in Rover!Process : ~Unasked(i)'
      BY <1>4, <3>1, RoverIds
         DEF ProcessIsKept, Unasked, Rover!Running, Rover!Alive
    <3> QED
      BY <1>1, <1>4, <3>1, <3>2
         DEF OneStarts, StarterIsAlone, ProcessIsKept, Starts
  <2> QED
    BY <2>1, <2>2
<1> QED
  BY <1>2, <1>3, <1>4
     DEF Rover!Stop, Rover!Dispose, Rover!Restart, Rover!Asks, RoverTypeOK, Rover!Running

\* The user opens the page: a start, unless the service runs.
LEMMA BeginStep ==
  ASSUME RoverInv, Rover!Open \/ (Rover!Restart /\ ~Rover!Running)
  PROVE  RoverInv'
<1> USE DEF RoverInv
<1>1. /\ UNCHANGED <<proc, process, restartRequested>> /\ Rover!Cross
      /\ asked' # "stop" /\ thread[Rover!UI] = Rover!Idle
  BY DEF Rover!Open, Rover!Restart, Rover!Asks
<1>2. CASE Rover!Running /\ UNCHANGED thread
  <2>1. RoverTypeOK'
    BY <1>1, <1>2 DEF RoverTypeOK, Rover!Cross
  <2>2. ASSUME ~crossed'
        PROVE  OneStarts' /\ StarterIsAlone' /\ ProcessIsKept'
    <3>1. ~crossed /\ \A t \in Rover!Thread : ~Starts(t)
      BY <1>1, <2>2, AskedUncrossed
    <3> QED
      BY <1>1, <1>2, <3>1
         DEF OneStarts, StarterIsAlone, ProcessIsKept, Starts, Unasked, Rover!Alive
  <2> QED
    BY <2>1, <2>2
<1>3. CASE ~Rover!Running /\ thread' = [thread EXCEPT ![Rover!UI] = Rover!At("start", Rover!None)]
  <2>1. Rover!At("start", Rover!None).at = "start" /\ Rover!At("start", Rover!None) \in Place
    BY DEF Rover!At, Place
  <2>2. RoverTypeOK'
    BY <1>1, <1>3, <2>1, RoverIds DEF RoverTypeOK, Rover!Cross
  <2>3. ASSUME ~crossed'
        PROVE  OneStarts' /\ StarterIsAlone' /\ ProcessIsKept'
    <3>1. ~crossed /\ \A t \in Rover!Thread : ~Starts(t)
      BY <1>1, <2>3, AskedUncrossed
    <3>2. \A i \in Rover!Process : ~Unasked(i)'
      BY <1>1, <1>3, <3>1, RoverIds
         DEF ProcessIsKept, Unasked, Rover!Running, Rover!Alive
    <3>3. \A t \in Rover!Thread : Starts(t)' <=> t = Rover!UI
      BY <1>3, <2>1, <3>1, RoverIds DEF Starts, RoverTypeOK
    <3> QED
      BY <1>1, <3>2, <3>3, RoverIds DEF OneStarts, StarterIsAlone, ProcessIsKept
  <2> QED
    BY <2>2, <2>3
<1> QED
  BY <1>2, <1>3 DEF Rover!Open, Rover!Restart, Rover!Goes

\* Where a thread goes.
LEMMA PlaceFields ==
  ASSUME NEW at \in {"none", "idle", "wait", "start", "store"},
         NEW child \in Rover!Process \cup {Rover!None}
  PROVE  /\ Rover!At(at, child) \in Place
         /\ Rover!At(at, child).at = at /\ Rover!At(at, child).child = child
BY DEF Rover!At, Place

\* A thread at rest.
LEMMA IdleFields == Rover!Idle \in Place /\ Rover!Idle.at = "idle"
BY PlaceFields DEF Rover!Idle

\* A spawn gives its thread a child to store, a failed one sets it free.
LEMMA SpawnStep ==
  ASSUME RoverInv, NEW t \in Rover!Thread, Rover!Spawn(t)
  PROVE  RoverInv'
<1> USE DEF RoverInv
<1>1. /\ UNCHANGED <<process, restartRequested, asked, crossed>>
      /\ thread[t].at = "start" /\ Starts(t)
  BY DEF Rover!Spawn, Starts
<1>2. CASE proc' = proc /\ thread' = [thread EXCEPT ![t] = Rover!Idle]
  <2>1. RoverTypeOK'
    BY <1>1, <1>2, IdleFields DEF RoverTypeOK
  <2>2. ASSUME ~crossed
        PROVE  OneStarts' /\ StarterIsAlone' /\ ProcessIsKept'
    <3>1. asked # "stop" /\ \A i \in Rover!Process : ~Unasked(i)
      BY <1>1, <2>2 DEF StarterIsAlone
    <3>2. \A u \in Rover!Thread : ~Starts(u)'
      BY <1>1, <1>2, <2>2, IdleFields DEF OneStarts, Starts, RoverTypeOK
    <3> QED
      BY <1>1, <1>2, <3>1, <3>2
         DEF OneStarts, StarterIsAlone, ProcessIsKept, Unasked, Rover!Alive
  <2> QED
    BY <1>1, <2>1, <2>2
<1>3. ASSUME NEW j \in Rover!Process, proc' = Rover!Spawned(j),
             thread' = [thread EXCEPT ![t] = Rover!At("store", j)]
      PROVE  RoverInv'
  <2>1. /\ proc' = [proc EXCEPT ![j] = [proc[j] EXCEPT !.life = "starting"]]
        /\ [proc[j] EXCEPT !.life = "starting"] \in Rover!ProcessState
    BY <1>3 DEF Rover!Spawned, RoverTypeOK, Rover!ProcessState
  <2>2. /\ Rover!At("store", j) \in Place
        /\ Rover!At("store", j).at = "store" /\ Rover!At("store", j).child = j
    BY PlaceFields
  <2>3. RoverTypeOK'
    BY <1>1, <1>3, <2>1, <2>2 DEF RoverTypeOK
  <2>4. ASSUME ~crossed
        PROVE  OneStarts' /\ StarterIsAlone' /\ ProcessIsKept'
    <3>1. asked # "stop" /\ \A i \in Rover!Process : ~Unasked(i)
      BY <1>1, <2>4 DEF StarterIsAlone
    <3>2. \A i \in Rover!Process : Unasked(i)' => i = j
      BY <2>1, <3>1 DEF Unasked, Rover!Alive
    <3>3. \A u \in Rover!Thread : Starts(u)' <=> u = t
      BY <1>1, <1>3, <2>2, <2>4 DEF OneStarts, Starts, RoverTypeOK
    <3>4. thread'[t].at = "store" /\ thread'[t].child = j
      BY <1>3, <2>2 DEF RoverTypeOK
    <3> QED
      BY <1>1, <3>1, <3>2, <3>3, <3>4 DEF OneStarts, StarterIsAlone, ProcessIsKept
  <2> QED
    BY <1>1, <2>3, <2>4
<1> QED
  BY <1>2, <1>3 DEF Rover!Spawn, Rover!Goes

\* A start has stored its process: nothing it could cross is left.
LEMMA StoreStep ==
  ASSUME RoverInv, NEW t \in Rover!Thread, Rover!Store(t)
  PROVE  RoverInv'
<1> USE DEF RoverInv
<1> DEFINE child == thread[t].child
<1>1. /\ UNCHANGED <<proc, asked, crossed>> /\ process' = child /\ ~restartRequested'
      /\ thread[t].at = "store" /\ Starts(t)
      /\ thread' = [thread EXCEPT ![t] = Rover!Idle,
                                  ![child] = Rover!At("wait", Rover!None)]
      /\ restartRequested' \in BOOLEAN
  BY DEF Rover!Store, Starts
<1>2. child \in Rover!Process /\ child \in Rover!Thread
  BY <1>1, RoverIds DEF RoverTypeOK
<1>3. /\ Rover!At("wait", Rover!None) \in Place
      /\ Rover!At("wait", Rover!None).at = "wait"
  BY PlaceFields
<1> HIDE DEF child
<1>4. RoverTypeOK'
  <2>1. \A u \in Rover!Thread :
          thread'[u] \in Place /\ (thread'[u].at = "store" => thread'[u] = thread[u])
    BY <1>1, <1>2, <1>3, IdleFields DEF RoverTypeOK
  <2> QED
    BY <1>1, <1>2, <2>1 DEF RoverTypeOK
<1>5. ASSUME ~crossed
      PROVE  OneStarts' /\ StarterIsAlone' /\ ProcessIsKept'
  <2>1. /\ asked # "stop"
        /\ \A i \in Rover!Process : Unasked(i) => i = child
    BY <1>1, <1>5 DEF StarterIsAlone, child
  <2>2. \A u \in Rover!Thread : u # t => ~Starts(u)
    BY <1>1, <1>5 DEF OneStarts
  <2>3. \A u \in Rover!Thread : ~Starts(u)'
    BY <1>1, <1>2, <1>3, <2>2, IdleFields DEF Starts, RoverTypeOK
  <2> QED
    BY <1>1, <2>1, <2>3
       DEF OneStarts, StarterIsAlone, ProcessIsKept, Unasked, Rover!Alive
<1> QED
  BY <1>1, <1>4, <1>5

\* A process announces itself or exits, and its reader takes the line.
LEMMA RoverProcessStep ==
  ASSUME RoverInv, NEW i \in Rover!Process, Rover!RoverProcess(i) \/ Rover!Ready(i)
  PROVE  RoverInv'
<1> USE DEF RoverInv
<1>1. UNCHANGED <<process, restartRequested, thread, asked, crossed>>
  BY DEF Rover!RoverProcess, Rover!Ready
<1>2. /\ proc' = [proc EXCEPT ![i] = proc'[i]]
      /\ proc'[i] \in Rover!ProcessState
      /\ Unasked(i)' => Unasked(i)
  <2>1. CASE Rover!Announce(i)
    BY <2>1 DEF Rover!Announce, RoverTypeOK, Rover!ProcessState, Unasked, Rover!Alive
  <2>2. CASE Rover!Exit(i)
    BY <2>2 DEF Rover!Exit, RoverTypeOK, Rover!ProcessState, Unasked, Rover!Alive
  <2>3. CASE Rover!Ready(i)
    BY <2>3 DEF Rover!Ready, RoverTypeOK, Rover!ProcessState, Unasked, Rover!Alive
  <2> QED
    BY <2>1, <2>2, <2>3 DEF Rover!RoverProcess
<1>3. RoverTypeOK'
  BY <1>1, <1>2 DEF RoverTypeOK
<1>4. ASSUME NEW j \in Rover!Process, Unasked(j)'
      PROVE  Unasked(j)
  <2>1. j # i => proc'[j] = proc[j]
    BY <1>2 DEF RoverTypeOK
  <2> QED
    BY <1>2, <1>4, <2>1 DEF Unasked, Rover!Alive
<1> QED
  BY <1>1, <1>3, <1>4 DEF OneStarts, StarterIsAlone, ProcessIsKept, Starts

\* A watcher starts the process a restart has asked for, or is done.
LEMMA WatcherStep ==
  ASSUME RoverInv, NEW i \in Rover!Process, Rover!Watcher(i)
  PROVE  RoverInv'
<1> USE DEF RoverInv
<1> DEFINE place == IF restartRequested THEN Rover!At("start", Rover!None) ELSE Rover!Idle
<1>1. /\ UNCHANGED <<proc, restartRequested, asked>>
      /\ thread[i].at = "wait" /\ proc[i].life = "exited"
      /\ process' = IF process = i THEN Rover!None ELSE process
      /\ thread' = [thread EXCEPT ![i] = place]
      /\ crossed' = (crossed \/ (restartRequested /\ Rover!Starting))
  BY DEF Rover!Watcher, Rover!Goes
<1>2. /\ place \in Place
      /\ restartRequested => place.at = "start"
      /\ ~restartRequested => place.at = "idle"
  BY PlaceFields, IdleFields
<1> HIDE DEF place
<1>3. i \in Rover!Thread /\ \A j \in Rover!Process : Unasked(j)' <=> Unasked(j)
  BY <1>1, RoverIds DEF Unasked, Rover!Alive
<1>4. RoverTypeOK'
  BY <1>1, <1>2, <1>3 DEF RoverTypeOK
<1>5. ASSUME ~crossed', restartRequested
      PROVE  OneStarts' /\ StarterIsAlone' /\ ProcessIsKept'
  <2>1. ~crossed /\ \A t \in Rover!Thread : ~Starts(t)
    BY <1>1, <1>5 DEF Rover!Starting, Starts
  <2>2. asked # "stop" /\ \A j \in Rover!Process : ~Unasked(j)
    BY <1>1, <1>5, <2>1 DEF ProcessIsKept
  <2>3. \A t \in Rover!Thread : Starts(t)' <=> t = i
    BY <1>1, <1>2, <1>3, <1>5, <2>1 DEF Starts, RoverTypeOK
  <2> QED
    BY <1>1, <1>3, <2>2, <2>3 DEF OneStarts, StarterIsAlone, ProcessIsKept
<1>6. ASSUME ~crossed', ~restartRequested
      PROVE  OneStarts' /\ StarterIsAlone' /\ ProcessIsKept'
  <2>1. ~crossed
    BY <1>1, <1>6
  <2>2. \A t \in Rover!Thread :
          /\ Starts(t)' <=> Starts(t)
          /\ Starts(t) => thread'[t] = thread[t]
    BY <1>1, <1>2, <1>3, <1>6 DEF Starts, RoverTypeOK
  <2>3. ~Unasked(i)
    BY <1>1 DEF Unasked, Rover!Alive
  <2>4. ProcessIsKept'
    BY <1>1, <1>3, <1>6, <2>1, <2>2, <2>3 DEF ProcessIsKept
  <2> QED
    BY <1>1, <1>3, <2>1, <2>2, <2>4 DEF OneStarts, StarterIsAlone
<1> QED
  BY <1>4, <1>5, <1>6

\* Nothing runs at the start.
LEMMA RoverStartsEmpty == Rover!Init => RoverInv
<1> SUFFICES ASSUME Rover!Init
             PROVE  RoverInv
  OBVIOUS
<1> USE DEF Rover!Init, Rover!ProcessInit
<1>1. Rover!Unstarted \in Place /\ Rover!Unstarted.at = "none"
  BY PlaceFields DEF Rover!Unstarted
<1>2. \A t \in Rover!Thread :
        thread[t] \in Place /\ thread[t].at # "store" /\ ~Starts(t)
  BY <1>1, IdleFields DEF Starts
<1>3. RoverTypeOK
  BY <1>2 DEF RoverTypeOK, Rover!ProcessState
<1> QED
  BY <1>2, <1>3 DEF RoverInv, OneStarts, StarterIsAlone, ProcessIsKept, Unasked, Rover!Alive

\* Every step of the RustRover plugin keeps its invariant.
LEMMA RoverStepKeeps == RoverInv /\ [Rover!RoverNext]_(Rover!roverVars) => RoverInv'
<1> SUFFICES ASSUME RoverInv, Rover!RoverNext \/ UNCHANGED Rover!roverVars
             PROVE  RoverInv'
  OBVIOUS
<1>1. CASE UNCHANGED Rover!roverVars
  BY <1>1
     DEF Rover!roverVars, RoverInv, RoverTypeOK, OneStarts, StarterIsAlone,
         ProcessIsKept, Starts, Unasked, Rover!Alive
<1> QED
  BY <1>1, EndStep, BeginStep, SpawnStep, StoreStep, RoverProcessStep, WatcherStep
     DEF Rover!RoverNext

-----------------------------------------------------------------------------
\* The invariant of the plugin the behaviour is of.
PluginInv ==
  /\ editor = "nvim" => NvimInv
  /\ editor = "vscode" => VscodeInv
  /\ editor = "rustrover" => RoverInv

\* Each plugin's invariant holds in all of its behaviours.
LEMMA PluginInvHolds == Spec => []PluginInv
<1>1. Init => PluginInv
  BY NvimStartsEmpty, VscodeStartsEmpty, RoverStartsEmpty DEF Init, PluginInv
<1>2. PluginInv /\ [Next]_vars => PluginInv'
  <2> SUFFICES ASSUME PluginInv, Next \/ UNCHANGED vars
               PROVE  PluginInv'
    OBVIOUS
  <2>1. CASE NvimStep
    BY <2>1, NvimStepKeeps DEF NvimStep, PluginInv
  <2>2. CASE VscodeStep
    BY <2>2, VscodeStepKeeps DEF VscodeStep, PluginInv
  <2>3. CASE RoverStep
    BY <2>3, RoverStepKeeps DEF RoverStep, PluginInv
  <2>4. CASE UNCHANGED vars
    <3>1. /\ editor' = editor /\ UNCHANGED Nvim!nvimVars
          /\ UNCHANGED Vscode!vscodeVars /\ UNCHANGED Rover!roverVars
      BY <2>4 DEF vars, Nvim!nvimVars, Vscode!vscodeVars, Rover!roverVars
    <3> QED
      BY <3>1, NvimStepKeeps, VscodeStepKeeps, RoverStepKeeps DEF PluginInv
  <2> QED
    BY <2>1, <2>2, <2>3, <2>4 DEF Next
<1> QED
  BY <1>1, <1>2, PTL DEF Spec

(***************************************************************************)
(* The plugins on an event loop own one service at most, the one their     *)
(* commands reach, however many were started and restarted before it.      *)
(***************************************************************************)
THEOREM OneServiceHolds == Spec => []OneService
<1>1. PluginInv => OneService
  BY DEF PluginInv, NvimInv, OnlyServicePends, Pends, VscodeInv, OnlyServiceRuns, Known,
         OneService, Nvim!OneService, Nvim!Alive, Vscode!OneService, Vscode!Alive
<1> QED
  BY <1>1, PluginInvHolds, PTL

(***************************************************************************)
(* The Neovim session's end and every stop of VS Code's leave no process   *)
(* running that was not asked to end, a restart under way included.        *)
(***************************************************************************)
THEOREM ServiceEndsHolds == Spec => []ServiceEnds
<1>1. PluginInv => ServiceEnds
  BY DEF PluginInv, NvimInv, VscodeInv, OnlyServiceRuns, Known, StopIsFinal, ServiceEnds,
         Vscode!StopEndsService, Vscode!AllEnding, Vscode!Alive
<1> QED
  BY <1>1, PluginInvHolds, PTL

(***************************************************************************)
(* An announced service's page is open in the browser, and the panel ends  *)
(* at the announced service, whatever older processes still had to say.    *)
(***************************************************************************)
THEOREM PageShowsServiceHolds == Spec => []PageShowsService
<1>1. PluginInv => PageShowsService
  <2>1. NvimInv => Nvim!AnnouncedPageIsOpen
    BY DEF NvimInv, PortsAreOpen, Nvim!AnnouncedPageIsOpen
  <2>2. VscodeInv => Vscode!PanelShowsService
    BY DEF VscodeInv, FrameOfService, Announced, Vscode!PanelShowsService
  <2> QED
    BY <2>1, <2>2 DEF PluginInv, PageShowsService
<1> QED
  BY <1>1, PluginInvHolds, PTL

(***************************************************************************)
(* RustRover's field `process` is the one service left running while no    *)
(* action crosses a start or restart, and a stop leaves none.              *)
(***************************************************************************)
THEOREM OwnsItsServiceHolds == Spec => []OwnsItsService
<1>1. RoverInv => Rover!OwnsItsService
  BY DEF RoverInv, ProcessIsKept, Starts, Unasked, Rover!OwnsItsService, Rover!Starting,
         Rover!AllEnding
<1>2. PluginInv => OwnsItsService
  BY <1>1 DEF PluginInv, OwnsItsService
<1> QED
  BY <1>2, PluginInvHolds, PTL
=============================================================================

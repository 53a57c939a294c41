----------------------------- MODULE JumpService -----------------------------
(***************************************************************************)
(* The jump service of `cargo arc ui` (src/src/ui/server.rs and            *)
(* service.rs): the recomputation of module Recompute, the two threads     *)
(* that execute commands (the stdin reader and the request loop), the      *)
(* state those commands keep for later pages, the requests, and one event  *)
(* stream per connected page.                                              *)
(*                                                                         *)
(* A command that changes a state and then tells the pages, or reads one   *)
(* and then asks for a run, does so under two locks: `exec` holds what its *)
(* thread still has to do, and any other thread may run in between.        *)
(***************************************************************************)
EXTENDS Recompute, Sequences

CONSTANTS
  Stream,        \* the connections to /events over a behaviour
  Mode,          \* the editor's colour modes
  NoMode,        \* no mode was sent yet
  NoFile,        \* no jump line was written yet
  TableOf(_),    \* the files behind the jump ids of a served page
  MaxExecs       \* bound: the commands a behaviour executes

ASSUME JumpServiceAssumption ==
  /\ MaxExecs \in 0 .. MaxCommands   \* each asks for one run at most
  /\ NoMode \notin Mode

VARIABLES
  exec,          \* what each command thread still has to do
  onSave,        \* whether a save starts a run
  editorMode,    \* the last mode the editor sent
  subscribers,   \* the streams that hold a sender
  chan,          \* the events sent to a stream and not yet written
  stream,        \* the stream's thread and connection
  cleared,       \* run has dropped every sender
  editor,        \* whether the editor's ends of stdin and stdout are open
  opened,        \* the file of the last jump line
  execs          \* the commands executed so far

streamVars == <<subscribers, chan, stream>>
stateVars == <<onSave, editorMode, cleared, editor, opened>>
serviceVars == <<recomputeVars, exec, streamVars, stateVars, execs>>

Thread == {"stdin", "request"}

OnSaveEvent(on) == [kind |-> "on-save", on |-> on]
ThemeEvent(mode) == [kind |-> "theme", mode |-> mode]
FollowEvent(on) == [kind |-> "follow", on |-> on]
FocusEvent(layout) == [kind |-> "focus", layout |-> layout]

Idle == [op |-> "idle"]
Closed == [op |-> "closed"]
Rerun == [op |-> "rerun"]
Tell(report) == [op |-> "tell", report |-> report]
Render(mode) == [op |-> "render", mode |-> mode]

-----------------------------------------------------------------------------
ServiceInit ==
  /\ RecomputeInit
  /\ exec = [t \in Thread |-> Idle]
  /\ onSave = TRUE
  /\ editorMode = NoMode
  /\ subscribers = {}
  /\ chan = [s \in Stream |-> <<>>]
  /\ stream = [s \in Stream |-> "none"]
  /\ cleared = FALSE
  /\ editor = "attached"
  /\ opened = NoFile
  /\ execs = 0

\* Mutant: a sender that cannot take the event at once counts as gone.
SendAllAtOnce(report) ==
  LET live == {s \in subscribers : stream[s] # "ended" /\ chan[s] = <<>>} IN
  /\ subscribers' = live
  /\ chan' = [s \in Stream |->
                IF s \in live THEN Append(chan[s], report) ELSE chan[s]]

\* broadcast: a sender whose receiver is gone is dropped.
SendAll(report) ==
  LET live == {s \in subscribers : stream[s] # "ended"} IN
  /\ subscribers' = live
  /\ chan' = [s \in Stream |->
                IF s \in live THEN Append(chan[s], report) ELSE chan[s]]

-----------------------------------------------------------------------------
(***************************************************************************)
(* execute, by the thread t.                                               *)
(***************************************************************************)
Executes(t) ==
  /\ exec[t] = Idle
  /\ t = "request" => loop = "serving"
  /\ t = "stdin" => editor = "attached"
  /\ execs < MaxExecs
  /\ execs' = execs + 1

Then(t, step) == exec' = [exec EXCEPT ![t] = step]

\* The node and the ids come from the table served now. A file without a
\* node is dropped.
FocusCommand(t) ==
  /\ Executes(t)
  /\ Then(t, Tell(FocusEvent(current)))
  /\ UNCHANGED <<recomputeVars, streamVars, stateVars>>

FollowCommand(t, on) ==
  /\ Executes(t)
  /\ SendAll(FollowEvent(on))
  /\ UNCHANGED <<recomputeVars, exec, stream, stateVars>>

\* Mutant: the comparison with the last mode turned round.
ThemeCommandRepeats(t, mode) ==
  /\ Executes(t)
  /\ editorMode' = mode
  /\ Then(t, IF editorMode = mode THEN Tell(ThemeEvent(mode)) ELSE Idle)
  /\ UNCHANGED <<recomputeVars, streamVars, onSave, cleared, editor, opened>>

\* A repeat of the editor's mode is dropped.
ThemeCommand(t, mode) ==
  /\ Executes(t)
  /\ editorMode' = mode
  /\ Then(t, IF editorMode # mode THEN Tell(ThemeEvent(mode)) ELSE Idle)
  /\ UNCHANGED <<recomputeVars, streamVars, onSave, cleared, editor, opened>>

SetSwitch(t, switch, on) ==
  /\ Executes(t)
  /\ SwitchCommand(switch, on)
  /\ UNCHANGED <<exec, streamVars, stateVars>>

\* A save of a file the analysis reads; any other file is dropped.
SavedCommand(t) ==
  /\ Executes(t)
  /\ onSave
  /\ Then(t, Rerun)
  /\ UNCHANGED <<recomputeVars, streamVars, stateVars>>

RecomputeCommand(t) ==
  /\ Executes(t)
  /\ RequestRerun
  /\ UNCHANGED <<exec, streamVars, stateVars>>

OnSaveCommand(t, on) ==
  /\ Executes(t)
  /\ onSave' = on
  /\ Then(t, Tell(OnSaveEvent(on)))
  /\ UNCHANGED <<recomputeVars, streamVars, editorMode, cleared, editor, opened>>

\* The second lock of a command: its broadcast, or request_rerun.
FinishCommand(t) ==
  /\ \/ /\ exec[t].op = "tell"
        /\ SendAll(exec[t].report)
        /\ UNCHANGED recomputeVars
     \/ /\ exec[t] = Rerun
        /\ RequestRerun
        /\ UNCHANGED <<subscribers, chan>>
  /\ Then(t, Idle)
  /\ UNCHANGED <<stream, stateVars, execs>>

\* stdin is at its end and forward_stdin returns.
StdinEnds ==
  /\ editor = "gone"
  /\ exec["stdin"] = Idle
  /\ Then("stdin", Closed)
  /\ UNCHANGED <<recomputeVars, streamVars, stateVars, execs>>

\* The editor exits or closes both pipes.
EditorLeaves ==
  /\ editor = "attached"
  /\ editor' = "gone"
  /\ UNCHANGED <<recomputeVars, exec, streamVars, onSave, editorMode, cleared,
                 opened, execs>>

-----------------------------------------------------------------------------
(***************************************************************************)
(* handle: one request at a time on the request loop's thread. POST        *)
(* /command is execute by the thread "request"; a request that names       *)
(* nothing is answered 404 or 400 and changes no state.                    *)
(***************************************************************************)
Serving == loop = "serving" /\ exec["request"] = Idle

\* GET / and GET /hotspots: page reads the mode, then the served page.
PageMode ==
  /\ Serving
  /\ Then("request", Render(editorMode))
  /\ UNCHANGED <<recomputeVars, streamVars, stateVars, execs>>

PageServed ==
  /\ exec["request"].op = "render"
  /\ Then("request", Idle)
  /\ UNCHANGED <<recomputeVars, streamVars, stateVars, execs>>

\* Mutant: the first event reports the state the service starts with.
EventsInitialState(s) ==
  /\ Serving
  /\ stream[s] = "none"
  /\ stream' = [stream EXCEPT ![s] = "open"]
  /\ chan' = [chan EXCEPT ![s] = <<OnSaveEvent(TRUE)>>]
  /\ subscribers' = subscribers \cup {s}
  /\ UNCHANGED <<recomputeVars, exec, stateVars, execs>>

\* GET /events: under the subscribers' lock the on-save state becomes the
\* first event and the sender is added; the stream's thread starts.
Events(s) ==
  /\ Serving
  /\ stream[s] = "none"
  /\ stream' = [stream EXCEPT ![s] = "open"]
  /\ chan' = [chan EXCEPT ![s] = <<OnSaveEvent(onSave)>>]
  /\ subscribers' = subscribers \cup {s}
  /\ UNCHANGED <<recomputeVars, exec, stateVars, execs>>

\* GET /jump with an id of the served table: the location goes to the
\* editor. An id past the table's end is answered 404.
Jump(id) ==
  /\ Serving
  /\ id \in 1 .. Len(TableOf(current))
  /\ editor = "attached"
  /\ opened' = TableOf(current)[id]
  /\ UNCHANGED <<recomputeVars, exec, streamVars, onSave, editorMode, cleared,
                 editor, execs>>

\* The jump line cannot be written: the request loop ends.
JumpFails(id) ==
  /\ Serving
  /\ id \in 1 .. Len(TableOf(current))
  /\ editor = "gone"
  /\ EndLoop
  /\ UNCHANGED <<exec, streamVars, stateVars, execs>>

-----------------------------------------------------------------------------
(***************************************************************************)
(* stream_events: the thread behind one connection.                        *)
(***************************************************************************)
StreamWrite(s) ==
  /\ stream[s] \in {"open", "gone"}
  /\ chan[s] # <<>>
  /\ chan' = [chan EXCEPT ![s] = Tail(@)]
  /\ UNCHANGED <<recomputeVars, exec, subscribers, stream, stateVars, execs>>

\* A write error: the page is gone.
StreamFails(s) ==
  /\ stream[s] = "gone"
  /\ chan[s] # <<>>
  /\ chan' = [chan EXCEPT ![s] = <<>>]
  /\ stream' = [stream EXCEPT ![s] = "ended"]
  /\ UNCHANGED <<recomputeVars, exec, subscribers, stateVars, execs>>

\* Every sender is dropped and every event written.
StreamEnds(s) ==
  /\ stream[s] \in {"open", "gone"}
  /\ chan[s] = <<>>
  /\ s \notin subscribers
  /\ stream' = [stream EXCEPT ![s] = "ended"]
  /\ UNCHANGED <<recomputeVars, exec, subscribers, chan, stateVars, execs>>

\* The page's end of the connection closes.
PageCloses(s) ==
  /\ stream[s] = "open"
  /\ stream' = [stream EXCEPT ![s] = "gone"]
  /\ UNCHANGED <<recomputeVars, exec, subscribers, chan, stateVars, execs>>

-----------------------------------------------------------------------------
(***************************************************************************)
(* The recomputation thread beside the streams, and the end of run.        *)
(***************************************************************************)
\* Mutant: the event goes out before the page is swapped in.
ThreadStepEarly ==
  /\ RecomputeThread
  /\ IF pc = "swap" \/ (pc = "broadcast" /\ ~run.ok)
     THEN SendAll(Outcome) ELSE UNCHANGED <<subscribers, chan>>
  /\ UNCHANGED <<exec, stream, stateVars, execs>>

\* Mutant: a failed run tells the editor alone.
ThreadStepQuietError ==
  /\ RecomputeThread
  /\ IF pc = "broadcast" /\ run.ok
     THEN SendAll(Outcome) ELSE UNCHANGED <<subscribers, chan>>
  /\ UNCHANGED <<exec, stream, stateVars, execs>>

\* Its broadcast reaches the streams; its other steps do not.
ThreadStep ==
  /\ RecomputeThread
  /\ IF pc = "broadcast" THEN SendAll(Outcome) ELSE UNCHANGED <<subscribers, chan>>
  /\ UNCHANGED <<exec, stream, stateVars, execs>>

Surroundings ==
  /\ Edit \/ SpuriousWake
  /\ UNCHANGED <<exec, streamVars, stateVars, execs>>

Stopping ==
  /\ SetStopped \/ NotifyStopped
  /\ UNCHANGED <<exec, streamVars, stateVars, execs>>

\* Mutant: the end of run keeps the senders.
KeepSubscribers ==
  /\ loop = "notified" /\ ~cleared
  /\ cleared' = TRUE
  /\ UNCHANGED <<recomputeVars, exec, streamVars, onSave, editorMode, editor,
                 opened, execs>>

ClearSubscribers ==
  /\ loop = "notified" /\ ~cleared
  /\ subscribers' = {}
  /\ cleared' = TRUE
  /\ UNCHANGED <<recomputeVars, exec, chan, stream, onSave, editorMode, editor,
                 opened, execs>>

-----------------------------------------------------------------------------
CommandNext(t) ==
  \/ FocusCommand(t)
  \/ \E on \in BOOLEAN : FollowCommand(t, on)
  \/ \E mode \in Mode : ThemeCommand(t, mode)
  \/ \E switch \in Switch, on \in BOOLEAN : SetSwitch(t, switch, on)
  \/ SavedCommand(t)
  \/ RecomputeCommand(t)
  \/ \E on \in BOOLEAN : OnSaveCommand(t, on)

StreamThread(s) == StreamWrite(s) \/ StreamFails(s) \/ StreamEnds(s)

ServiceNext ==
  \/ \E t \in Thread : CommandNext(t) \/ FinishCommand(t)
  \/ PageMode
  \/ PageServed
  \/ \E id \in 1 .. Len(TableOf(current)) : Jump(id) \/ JumpFails(id)
  \/ \E s \in Stream : Events(s) \/ StreamThread(s) \/ PageCloses(s)
  \/ ThreadStep
  \/ Surroundings
  \/ Stopping
  \/ ClearSubscribers
  \/ EditorLeaves
  \/ StdinEnds

(***************************************************************************)
(* Threads are scheduled, an analysis terminates, and a stream's write to  *)
(* a loopback connection does not block for ever. Commands, requests, page *)
(* closes and the editor's end are never owed.                             *)
(***************************************************************************)
ServiceFairness ==
  /\ WF_serviceVars(ThreadStep)
  /\ WF_serviceVars(Stopping \/ ClearSubscribers)
  /\ WF_serviceVars(StdinEnds)
  /\ WF_serviceVars(PageServed)
  /\ \A t \in Thread : WF_serviceVars(FinishCommand(t))
  /\ \A s \in Stream : WF_serviceVars(StreamThread(s))

ServiceSafety == ServiceInit /\ [][ServiceNext]_serviceVars
ServiceSpec == ServiceSafety /\ ServiceFairness

-----------------------------------------------------------------------------
(***************************************************************************)
(* Properties.                                                             *)
(***************************************************************************)
(***************************************************************************)
(* No open page drops out of the broadcasts: while the service runs, each  *)
(* open connection has its sender, whichever dead senders a broadcast has  *)
(* dropped in between (broadcast's retain and handle_events' push).        *)
(***************************************************************************)
OpenStreamsAreSubscribed ==
  ~cleared => \A s \in Stream : stream[s] = "open" => s \in subscribers

(***************************************************************************)
(* The editor's end brings the service down once a jump line fails:        *)
(* recomputation thread, stdin reader and every stream return, so that the *)
(* scope of Server::run closes instead of waiting on one of them for ever. *)
(***************************************************************************)
ShutdownCompletes ==
  (loop = "ended" /\ editor = "gone")
    ~> /\ pc = "done"
       /\ exec["stdin"] = Closed
       /\ \A s \in Stream : stream[s] \in {"none", "ended"}

=============================================================================

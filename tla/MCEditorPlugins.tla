--------------------------- MODULE MCEditorPlugins ---------------------------
(***************************************************************************)
(* The three plugins, each with its own processes: `editor` says which one *)
(* the behaviour is of, and the variables of the others stay as they are.  *)
(***************************************************************************)
EXTENDS Naturals, Sequences

CONSTANTS MaxProcesses, MaxAsks, Editors

ASSUME PluginsAssumption == MaxProcesses \in Nat /\ MaxAsks \in Nat

VARIABLES
  editor, proc, asked, asks, left,
  service, started, queue, opened,     \* with Neovim and VS Code
  panel, frames,                       \* with VS Code
  process, port, stopRequested, restartRequested, thread, disposed, crossed

Nvim == INSTANCE NvimPlugin
Vscode == INSTANCE VscodePlugin
Rover == INSTANCE RustRoverPlugin

vars == <<editor, proc, asked, asks, left, service, started, queue, opened,
          panel, frames, process, port, stopRequested, restartRequested,
          thread, disposed, crossed>>

\* The variables an editor does not have are empty sequences.
Unused(value) == value = <<>>

Init ==
  /\ editor \in Editors
  /\ \/ /\ editor = "nvim" /\ Nvim!Init
        /\ Unused(panel) /\ Unused(frames) /\ Unused(process)
        /\ Unused(port) /\ Unused(stopRequested) /\ Unused(restartRequested)
        /\ Unused(thread) /\ Unused(disposed) /\ Unused(crossed)
     \/ /\ editor = "vscode" /\ Vscode!Init
        /\ Unused(queue) /\ Unused(opened) /\ Unused(process)
        /\ Unused(port) /\ Unused(stopRequested) /\ Unused(restartRequested)
        /\ Unused(thread) /\ Unused(disposed) /\ Unused(crossed)
     \/ /\ editor = "rustrover" /\ Rover!Init
        /\ Unused(service) /\ Unused(started) /\ Unused(queue)
        /\ Unused(opened) /\ Unused(panel) /\ Unused(frames)
        /\ Unused(left)

NvimStep ==
  /\ editor = "nvim"
  /\ Nvim!NvimNext
  /\ UNCHANGED <<editor, panel, frames, process, port, stopRequested,
                 restartRequested, thread, disposed, crossed>>

VscodeStep ==
  /\ editor = "vscode"
  /\ Vscode!VscodeNext
  /\ UNCHANGED <<editor, queue, opened, process, port, stopRequested,
                 restartRequested, thread, disposed, crossed>>

RoverStep ==
  /\ editor = "rustrover"
  /\ Rover!RoverNext
  /\ UNCHANGED <<editor, service, started, queue, opened, panel, frames, left>>

Next == NvimStep \/ VscodeStep \/ RoverStep

Spec == Init /\ [][Next]_vars

-----------------------------------------------------------------------------
\* Either plugin on an event loop owns one service at most (NvimPlugin and
\* VscodePlugin, OneService).
OneService ==
  /\ editor = "nvim" => Nvim!OneService
  /\ editor = "vscode" => Vscode!OneService

\* The Neovim session takes its service with it (NvimPlugin, EndsWithSession),
\* and VS Code's stop ends it, a pending restart included (VscodePlugin,
\* StopEndsService).
ServiceEnds ==
  /\ editor = "nvim" => Nvim!EndsWithSession
  /\ editor = "vscode" => Vscode!StopEndsService

\* The page of an announced service is shown: its tab is open, restarts
\* included (NvimPlugin, AnnouncedPageIsOpen), and the panel ends there
\* (VscodePlugin, PanelShowsService).
PageShowsService ==
  /\ editor = "nvim" => Nvim!AnnouncedPageIsOpen
  /\ editor = "vscode" => Vscode!PanelShowsService

\* Uncrossed starts lose no service (RustRoverPlugin).
OwnsItsService == editor = "rustrover" => Rover!OwnsItsService

\* Neovim's README: `:Arc stop` ends the service.
ArcStopEndsService == editor = "nvim" => Nvim!StopEndsService

=============================================================================

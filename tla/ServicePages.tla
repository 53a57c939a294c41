----------------------------- MODULE ServicePages -----------------------------
(***************************************************************************)
(* The pages of `cargo arc ui` beside the service of module JumpService:   *)
(* a page is fetched, its script connects to /events, events change it     *)
(* (src/js/switch_toggles.js, on_save_toggle.js, theme.js, wired in        *)
(* svg_script.js), clicks post commands and jumps, and `analysis` reloads  *)
(* it. Fetch, connection, posts and events are separate steps, and the     *)
(* editor's commands on stdin run between them. The end of the service is  *)
(* JumpService's part and left out here.                                   *)
(*                                                                         *)
(* `page[p].missed` is not the page's: it records what the page could no   *)
(* longer hear of when it connected.                                       *)
(***************************************************************************)
EXTENDS JumpService

CONSTANTS
  Page,          \* the pages, in browser tabs or editor panels
  NoStream,      \* a page without a connection
  Slot,          \* bound: the requests a page has under way at once
  EditorSends,   \* the commands the editor's plugin sends on stdin
  PageClicks     \* the page's controls; the hotspot map has no switches

ASSUME ServicePagesAssumption ==
  /\ EditorSends \subseteq
       {"focus", "follow", "theme", "switch", "saved", "recompute", "on-save"}
  /\ PageClicks \subseteq {"switch", "on-save", "jump"}
  /\ NoStream \notin Stream

VARIABLES
  page,          \* the pages' state
  post,          \* the requests a page has under way
  fetching       \* the page the request loop renders for

pageVars == <<page, post, fetching>>
pagesVars == <<serviceVars, pageVars>>

NoPost == [op |-> "none"]
PostSwitch(switch, on) == [op |-> "switch", switch |-> switch, on |-> on]
PostOnSave(on) == [op |-> "on-save", on |-> on]
\* `file` is not sent: it is what the id stands for on the page.
PostJump(id, file) == [op |-> "jump", id |-> id, file |-> file]

NoPage == {}

ClosedPage(layout) ==
  [at |-> "closed", layout |-> layout, mode |-> NoMode, onSave |-> TRUE,
   busy |-> FALSE, stream |-> NoStream, missed |-> {}]

PagesInit ==
  /\ ServiceInit
  /\ page = [p \in Page |-> ClosedPage(current)]
  /\ post = [p \in Page |-> [k \in Slot |-> NoPost]]
  /\ fetching = NoPage

-----------------------------------------------------------------------------
(***************************************************************************)
(* Loading: GET / reads the editor's mode, then the served page.           *)
(***************************************************************************)
Fetch(p) ==
  /\ page[p].at \in {"closed", "reloading"}
  /\ PageMode
  /\ fetching' = {p}
  /\ UNCHANGED <<page, post>>

\* The page starts with the toolbar the template has: on-save pressed, no
\* button busy, the mode on the root.
Fetched(p) ==
  /\ p \in fetching
  /\ PageServed
  /\ page' = [page EXCEPT ![p] =
                [ClosedPage(current) EXCEPT !.at = "loaded",
                                            !.mode = exec["request"].mode]]
  /\ fetching' = NoPage
  /\ UNCHANGED post

\* A swap whose event this page will still get, if it is subscribed.
AnalysisToCome == pc = "broadcast" /\ run.ok
ModeToCome == exec["stdin"].op = "tell" /\ exec["stdin"].report.kind = "theme"

\* What happened between the fetch, or the loss of the connection, and now.
MissedBy(p) ==
  {what \in {"analysis", "theme", "report"} :
     \/ what = "analysis" /\ page[p].layout # current /\ ~AnalysisToCome
     \/ what = "theme" /\ page[p].mode # editorMode /\ ~ModeToCome
     \/ what = "report" /\ page[p].busy}

\* connectEventSource, and EventSource's reconnection after a lost one.
Connect(p) ==
  /\ page[p].at \in {"loaded", "lost"}
  /\ \E s \in Stream :
       /\ Events(s)
       /\ page' = [page EXCEPT ![p].at = "live", ![p].stream = s,
                               ![p].missed = MissedBy(p)]
  /\ UNCHANGED <<post, fetching>>

ConnectionLost(p) ==
  /\ page[p].at = "live"
  /\ PageCloses(page[p].stream)
  /\ page' = [page EXCEPT ![p].at = "lost", ![p].stream = NoStream]
  /\ UNCHANGED <<post, fetching>>

-----------------------------------------------------------------------------
(***************************************************************************)
(* The event handlers. `focus` and `follow` change the selection and the   *)
(* follow button, which nothing here depends on.                           *)
(***************************************************************************)
Handled(before, report) ==
  CASE report.kind = "on-save"        -> [before EXCEPT !.onSave = report.on]
    [] report.kind = "theme"          -> [before EXCEPT !.mode = report.mode]
    [] report.kind = "analysis-error" -> [before EXCEPT !.busy = FALSE]
    [] OTHER                          -> before

\* The event the stream's thread writes is handled by the page's script.
Deliver(p) ==
  /\ page[p].at = "live"
  /\ StreamWrite(page[p].stream)
  /\ LET report == Head(chan[page[p].stream]) IN
       /\ report.kind # "analysis"
       /\ page' = [page EXCEPT ![p] = Handled(@, report)]
  /\ UNCHANGED <<post, fetching>>

\* `analysis` reloads the page. Its connection goes on until the browser
\* closes it, with nobody to hear; of the requests, those go on that have
\* arrived.
Reload(p) ==
  /\ page[p].at = "live"
  /\ StreamWrite(page[p].stream)
  /\ Head(chan[page[p].stream]).kind = "analysis"
  /\ page' = [page EXCEPT ![p].at = "reloading", ![p].stream = NoStream]
  /\ \E arrived \in SUBSET Slot :
       post' = [post EXCEPT ![p] =
                  [k \in Slot |-> IF k \in arrived THEN post[p][k] ELSE NoPost]]
  /\ UNCHANGED fetching

-----------------------------------------------------------------------------
(***************************************************************************)
(* The clicks. The script handles them from the load on, connected or not, *)
(* and waits for no answer before the next. A post fails only for want of  *)
(* the service, whose end is left out.                                     *)
(***************************************************************************)
Clickable(p) == page[p].at \in {"loaded", "live", "lost"}

Posts(p, k, request) ==
  /\ post[p][k] = NoPost
  /\ post' = [post EXCEPT ![p][k] = request]

ClickSwitch(p, k, switch) ==
  /\ Posts(p, k, PostSwitch(switch, ~page[p].layout.switches[switch]))
  /\ page' = [page EXCEPT ![p].busy = TRUE]

ClickOnSave(p, k) ==
  /\ Posts(p, k, PostOnSave(~page[p].onSave))
  /\ UNCHANGED page

ClickJump(p, k, id) ==
  /\ Posts(p, k, PostJump(id, TableOf(page[p].layout)[id]))
  /\ UNCHANGED page

Click(p, k) ==
  /\ Clickable(p)
  /\ \/ "switch" \in PageClicks /\ \E switch \in Switch : ClickSwitch(p, k, switch)
     \/ "on-save" \in PageClicks /\ ClickOnSave(p, k)
     \/ "jump" \in PageClicks
        /\ \E id \in 1 .. Len(TableOf(page[p].layout)) : ClickJump(p, k, id)
  /\ UNCHANGED <<serviceVars, fetching>>

\* handle answers a posted request, in any order. The answer to a command
\* carries no state; a jump id past the served table's end is refused.
Answer(p, k) ==
  /\ \/ /\ post[p][k].op = "switch"
        /\ SetSwitch("request", post[p][k].switch, post[p][k].on)
     \/ /\ post[p][k].op = "on-save"
        /\ OnSaveCommand("request", post[p][k].on)
     \/ /\ post[p][k].op = "jump"
        /\ Jump(post[p][k].id)
     \/ /\ post[p][k].op = "jump"
        /\ Serving
        /\ post[p][k].id > Len(TableOf(current))
        /\ UNCHANGED serviceVars
  /\ post' = [post EXCEPT ![p][k] = NoPost]
  /\ UNCHANGED <<page, fetching>>

-----------------------------------------------------------------------------
\* The editor's commands, as far as its plugin sends them.
EditorCommand ==
  \/ "focus" \in EditorSends /\ FocusCommand("stdin")
  \/ "follow" \in EditorSends /\ \E on \in BOOLEAN : FollowCommand("stdin", on)
  \/ "theme" \in EditorSends /\ \E mode \in Mode : ThemeCommand("stdin", mode)
  \/ "switch" \in EditorSends
     /\ \E switch \in Switch, on \in BOOLEAN : SetSwitch("stdin", switch, on)
  \/ "saved" \in EditorSends /\ SavedCommand("stdin")
  \/ "recompute" \in EditorSends /\ RecomputeCommand("stdin")
  \/ "on-save" \in EditorSends /\ \E on \in BOOLEAN : OnSaveCommand("stdin", on)

\* The steps of the service that no page takes part in.
ServiceStep ==
  /\ \/ EditorCommand
     \/ \E t \in Thread : FinishCommand(t)
     \/ ThreadStep
     \/ Surroundings
     \/ \E s \in Stream \ {page[p].stream : p \in Page} :
          StreamThread(s) \/ PageCloses(s)
  /\ UNCHANGED pageVars

PageStep(p) ==
  \/ Fetch(p)
  \/ Fetched(p)
  \/ Connect(p)
  \/ ConnectionLost(p)
  \/ Deliver(p)
  \/ Reload(p)
  \/ \E k \in Slot : Click(p, k) \/ Answer(p, k)

PagesNext == ServiceStep \/ \E p \in Page : PageStep(p)

PagesSpec == PagesInit /\ [][PagesNext]_pagesVars

-----------------------------------------------------------------------------
(***************************************************************************)
(* Properties.                                                             *)
(***************************************************************************)
Waiting(p, kind) == \E i \in 1 .. Len(chan[page[p].stream]) :
                      chan[page[p].stream][i].kind = kind
Live(p) == page[p].at = "live"

(***************************************************************************)
(* ARC_DIAGRAM.md, "Recomputing on save": every run of the analysis        *)
(* reloads the open pages. A connected page is either the served one or    *)
(* about to hear of it.                                                    *)
(***************************************************************************)
Reloads(p) ==
  Live(p) /\ page[p].layout # current => AnalysisToCome \/ Waiting(p, "analysis")

(***************************************************************************)
(* The same of the pages that had the served layout when they connected:   *)
(* no later swap passes one by (the swap comes before its broadcast, and   *)
(* no event overtakes another).                                            *)
(***************************************************************************)
ConnectedPageReloads ==
  \A p \in Page : "analysis" \notin page[p].missed => Reloads(p)

(***************************************************************************)
(* JumpService::editor_mode and set_editor_mode: a page that was in the    *)
(* editor's mode when it connected follows it, through repeats and mode    *)
(* changes: it is in that mode or the event is on its way.                 *)
(***************************************************************************)
PageFollowsEditorMode ==
  \A p \in Page :
    Live(p) /\ "theme" \notin page[p].missed /\ page[p].mode # editorMode
      => ModeToCome \/ Waiting(p, "theme")

(***************************************************************************)
(* createSwitchToggles: no click on a switch is lost. When nothing is      *)
(* under way any more, a page whose button is still busy shows the         *)
(* switches asked for last. (Its button then stays busy: the command was   *)
(* taken back by another before the thread looked, and its dismissal is    *)
(* reported to nobody.)                                                    *)
(***************************************************************************)
NothingUnderWay(p) ==
  (\A k \in Slot : post[p][k] = NoPost) /\ Settled /\ chan[page[p].stream] = <<>>
ClicksAreHeeded ==
  \A p \in Page :
    Live(p) /\ page[p].missed = {} /\ page[p].busy /\ NothingUnderWay(p)
      => page[p].layout.switches = wanted.switches

(***************************************************************************)
(* ARC_DIAGRAM.md, "Recomputing on save": the service holds the button's   *)
(* state, so every open page shows the same state. Once no on-save command *)
(* is half done and no on-save event is on its way, a connected page's     *)
(* button shows what the next save does. The code keeps this only as long  *)
(* as no two threads are at an on-save command at once.                    *)
(***************************************************************************)
TellsOnSave(t) == exec[t].op = "tell" /\ exec[t].report.kind = "on-save"
OpenPagesShowOnSave ==
  \A p \in Page :
    Live(p) /\ (\A t \in Thread : ~TellsOnSave(t)) /\ ~Waiting(p, "on-save")
      => page[p].onSave = onSave

\* Both threads have set the state and not yet told it.
OnSaveCrosses == \A t \in Thread : TellsOnSave(t)

(***************************************************************************)
(* ADR-027, "Rationale": a stale diagram cannot open the wrong file. A     *)
(* jump the service answers opens what the id stood for on the page.       *)
(***************************************************************************)
JumpOpensMeantLocation ==
  [][\A p \in Page, k \in Slot :
       post[p][k].op = "jump" /\ Answer(p, k) /\ post[p][k].id <= Len(TableOf(current))
         => opened' = post[p][k].file]_pagesVars

=============================================================================

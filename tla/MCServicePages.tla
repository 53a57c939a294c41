---------------------------- MODULE MCServicePages ----------------------------
(***************************************************************************)
(* ServicePages with one page and one switch. With the switch on, the      *)
(* table starts with the targets of an external crate, so that the id of   *)
(* main.rs shifts. `crossed` is history: whether both command threads were *)
(* ever at an on-save command at once.                                     *)
(***************************************************************************)
EXTENDS ServicePages, TLC

VARIABLE crossed

MCInit == PagesInit /\ crossed = FALSE
MCNext == PagesNext /\ crossed' = (crossed \/ OnSaveCrosses')
MCSpec == MCInit /\ [][MCNext]_<<pagesVars, crossed>>

MCTableOf(layout) ==
  IF \E switch \in Switch : layout.switches[switch]
  THEN <<"extern.rs", "main.rs">>
  ELSE <<"main.rs">>

(***************************************************************************)
(* As long as no two threads were at an on-save command at once, every     *)
(* connected page's button shows what the next save does, whichever thread *)
(* sets the state and whenever the page connects: handle_events reads the  *)
(* state and registers the stream under the lock of the broadcast, and     *)
(* execute sets the state before it.                                       *)
(***************************************************************************)
OnSaveShownUncrossed == ~crossed => OpenPagesShowOnSave

MCSymmetry == Permutations(Stream) \cup Permutations(Slot)
=============================================================================

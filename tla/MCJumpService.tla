---------------------------- MODULE MCJumpService ----------------------------
(***************************************************************************)
(* JumpService in two scenes. In "service" everything happens, over one    *)
(* connection, one switch and two commands. In "thread" only what reaches  *)
(* the recomputation does, with a second switch, a third command and edits *)
(* before, between and after them.                                         *)
(*                                                                         *)
(* The jump table has one entry whatever is served: which file an id opens *)
(* is ServicePages' part.                                                  *)
(***************************************************************************)
EXTENDS JumpService

CONSTANT ServiceSwitch   \* the switches of the scene "service"

VARIABLE scene

MCTableOf(layout) == <<"main.rs">>

\* The states of a scene.
InScene ==
  \/ /\ scene = "service"
     /\ execs <= 2 /\ disk = 0
     /\ \A switch \in Switch \ ServiceSwitch : ~wanted.switches[switch]
  \/ /\ scene = "thread"
     /\ \A t \in Thread : exec[t] \in {Idle, Closed}
     /\ stream = [s \in Stream |-> "none"]
     /\ onSave /\ editorMode = NoMode
     /\ opened = NoFile

MCInit ==
  /\ ServiceInit
  /\ scene \in {"service", "thread"}
  /\ InScene

MCNext == ServiceNext /\ UNCHANGED scene /\ InScene'

MCSpec == MCInit /\ [][MCNext]_<<serviceVars, scene>> /\ ServiceFairness
=============================================================================

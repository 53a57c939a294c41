-------------------------- MODULE ServicePagesProofs -------------------------
(***************************************************************************)
(* Proofs about the service, from the inside out, for any switches,         *)
(* streams, pages, modes, commands and bounds.                              *)
(*                                                                         *)
(* The recomputation thread (Recompute): its inductive invariant, the two   *)
(* safety properties that follow from it and the step simulation of         *)
(* RunOnDemand. The service around it (JumpService): its steps are steps of *)
(* Recompute, so that all of this holds in the service, and no open stream  *)
(* loses its sender. The pages beside it (ServicePages): their steps are    *)
(* steps of JumpService, a connected page hears of every swap and of every  *)
(* mode, and its buttons show what the service holds.                       *)
(***************************************************************************)
EXTENDS ServicePages, SequenceTheorems, TLAPS

-----------------------------------------------------------------------------
(***************************************************************************)
(* The records stay records of their type under an update of two fields.   *)
(***************************************************************************)
\* request_rerun's update of `wanted`.
LEMMA WantedExcept ==
  ASSUME wanted \in Wanted, NEW rerun \in BOOLEAN, NEW commands \in Nat
  PROVE  [wanted EXCEPT !.rerun = rerun, !.commands = commands] \in Wanted
BY DEF Wanted

\* The end of an analysis.
LEMMA RunExcept ==
  ASSUME run \in RunRecord, NEW version \in 0 .. disk, NEW ok \in BOOLEAN
  PROVE  [run EXCEPT !.version = version, !.ok = ok] \in RunRecord
BY DEF RunRecord

\* What the thread takes over.
LEMMA TakenRun ==
  ASSUME wanted \in Wanted, run \in RunRecord, Take
  PROVE  /\ run' \in RunRecord
         /\ run'.switches = wanted.switches
         /\ run'.rerun = wanted.rerun
<1>1. run' = [run EXCEPT !.switches = wanted.switches, !.rerun = wanted.rerun]
  BY DEF Take
<1> QED
  BY <1>1 DEF Wanted, RunRecord

\* What it leaves behind.
LEMMA TakenWanted ==
  ASSUME wanted \in Wanted, Take
  PROVE  /\ wanted' \in Wanted
         /\ wanted'.commands = wanted.commands
         /\ ~wanted'.rerun
         /\ wanted'.switches = wanted.switches
         /\ wanted'.stopped = wanted.stopped
<1>1. wanted' = [wanted EXCEPT !.rerun = FALSE]
  BY DEF Take
<1> QED
  BY <1>1 DEF Wanted

\* The update of `wanted` by a switch command.
LEMMA WantedSwitch ==
  ASSUME wanted \in Wanted, NEW switch \in Switch, NEW on \in BOOLEAN,
         SwitchCommand(switch, on)
  PROVE  /\ wanted' \in Wanted
         /\ wanted'.commands = wanted.commands + 1
         /\ wanted'.rerun = wanted.rerun
         /\ wanted'.stopped = wanted.stopped
<1>1. /\ wanted'.switches = [wanted.switches EXCEPT ![switch] = on]
      /\ wanted'.commands = wanted.commands + 1
      /\ wanted' = [switches |-> wanted'.switches, commands |-> wanted'.commands,
                    rerun |-> wanted.rerun, stopped |-> wanted.stopped]
  BY DEF SwitchCommand, Wanted
<1>2. wanted'.switches \in Switches
  BY <1>1 DEF Wanted, Switches
<1> QED
  BY <1>1, <1>2 DEF Wanted

\* The update of `wanted` by a save or a recompute command.
LEMMA WantedRerun ==
  ASSUME wanted \in Wanted, RequestRerun
  PROVE  /\ wanted' \in Wanted
         /\ wanted'.commands = wanted.commands + 1
         /\ wanted'.rerun
         /\ wanted'.switches = wanted.switches
         /\ wanted'.stopped = wanted.stopped
<1>1. wanted' = [wanted EXCEPT !.rerun = TRUE, !.commands = wanted.commands + 1]
  BY DEF RequestRerun
<1>2. wanted.commands + 1 \in Nat
  BY DEF Wanted
<1>3. wanted' \in Wanted
  BY <1>1, <1>2, WantedExcept, Zenon
<1> QED
  BY <1>1, <1>3 DEF Wanted

-----------------------------------------------------------------------------
\* The program's values have the types of the declarations in server.rs and
\* service.rs, and the thread never counts past the commands.
LEMMA TypeInit == RecomputeInit => TypeOK
BY RecomputeAssumption
   DEF RecomputeInit, TypeOK, Wanted, PC, Loop, Switches, OutOfScope, RunRecord,
       Report, Analysis

\* Every step keeps the types.
LEMMA TypeStep == TypeOK /\ [RecomputeNext]_recomputeVars => TypeOK'
<1> SUFFICES ASSUME TypeOK, [RecomputeNext]_recomputeVars
             PROVE  TypeOK'
  OBVIOUS
<1> USE DEF TypeOK
<1>1. ASSUME NEW switch \in Switch, NEW on \in BOOLEAN, SwitchCommand(switch, on)
      PROVE  TypeOK'
  <2>1. wanted' \in Wanted /\ seen \in 0 .. wanted'.commands
    BY <1>1, WantedSwitch DEF Wanted
  <2>2. pc' \in PC
    BY <1>1 DEF SwitchCommand, NotifyAll, PC
  <2> QED
    BY <1>1, <2>1, <2>2 DEF SwitchCommand, RunRecord
<1>2. CASE RequestRerun
  <2>1. wanted' \in Wanted /\ seen \in 0 .. wanted'.commands
    BY <1>2, WantedRerun DEF Wanted
  <2>2. pc' \in PC /\ announced' \in 0 .. disk
    BY <1>2 DEF RequestRerun, NotifyAll, PC
  <2> QED
    BY <1>2, <2>1, <2>2 DEF RequestRerun, RunRecord
<1>3. CASE Edit
  <2>1. disk' \in Nat /\ 0 .. disk \subseteq 0 .. disk'
    BY <1>3 DEF Edit
  <2> QED
    BY <1>3, <2>1 DEF Edit, threadVars, RunRecord
<1>4. CASE Park \/ SpuriousWake \/ Return \/ StartAnalysis
  BY <1>4 DEF Park, SpuriousWake, Return, StartAnalysis, PC, RunRecord
<1>5. CASE Take
  <2>1. wanted' \in Wanted /\ seen' \in 0 .. wanted'.commands /\ pc' \in PC
    <3>1. seen' = wanted.commands /\ pc' = "compare"
      BY <1>5 DEF Take
    <3> QED
      BY <1>5, <3>1, TakenWanted DEF Wanted, PC
  <2>2. run' \in RunRecord
    BY <1>5, TakenRun
  <2>3. UNCHANGED <<current, event, line, loop, disk, announced>>
    BY <1>5 DEF Take
  <2>4. run' \in RunRecord'
    BY <2>2, <2>3 DEF RunRecord
  <2> QED
    BY <2>1, <2>3, <2>4
<1>6. CASE Skip
  <2>1. run' \in RunRecord'
    BY <1>6 DEF Skip, OutOfScope, RunRecord, Switches
  <2> QED
    BY <1>6, <2>1 DEF Skip, PC
<1>7. CASE Analyse
  <2>1. run' = [run EXCEPT !.version = disk, !.ok = TRUE] /\ disk' = disk
    BY <1>7 DEF Analyse
  <2>2. disk \in 0 .. disk
    OBVIOUS
  <2>3. run' \in RunRecord
    BY <2>1, <2>2, RunExcept, Zenon
  <2> QED
    BY <1>7, <2>1, <2>3 DEF Analyse, PC, RunRecord
<1>8. CASE AnalyseFails
  <2>1. run' \in RunRecord'
    BY <1>8 DEF AnalyseFails, RunRecord
  <2> QED
    BY <1>8, <2>1 DEF AnalyseFails, PC
<1>9. CASE Swap
  BY <1>9 DEF Swap, PC, RunRecord
<1>10. CASE Broadcast
  BY <1>10 DEF Broadcast, Outcome, Report, PC, RunRecord
<1>11. CASE WriteReport
  <2>1. run' \in RunRecord'
    BY <1>11 DEF WriteReport, OutOfScope, RunRecord, Switches
  <2>2. line' \in Report
    BY <1>11 DEF WriteReport, Outcome, Report, RunRecord
  <2> QED
    BY <1>11, <2>1, <2>2 DEF WriteReport, PC
<1>12. CASE EndLoop \/ SetStopped \/ NotifyStopped
  <2>1. wanted' \in Wanted /\ seen \in 0 .. wanted'.commands
    BY <1>12 DEF EndLoop, SetStopped, NotifyStopped, Wanted
  <2>2. pc' \in PC /\ loop' \in Loop
    BY <1>12 DEF EndLoop, SetStopped, NotifyStopped, NotifyAll, PC, Loop, threadVars
  <2> QED
    BY <1>12, <2>1, <2>2
       DEF EndLoop, SetStopped, NotifyStopped, threadVars, RunRecord
<1>13. CASE UNCHANGED recomputeVars
  BY <1>13 DEF recomputeVars, RunRecord
<1> QED
  BY <1>1, <1>2, <1>3, <1>4, <1>5, <1>6, <1>7, <1>8, <1>9, <1>10, <1>11, <1>12, <1>13
     DEF RecomputeNext, RecomputeThread

-----------------------------------------------------------------------------
\* The service starts with the page it was given, and nothing is asked for.
LEMMA InvInit == RecomputeInit => RecomputeInv
<1> SUFFICES ASSUME RecomputeInit
             PROVE  RecomputeInv
  OBVIOUS
<1>1. TypeOK
  BY TypeInit
<1> QED
  BY <1>1
     DEF RecomputeInit, RecomputeInv, RunAnswersCommands, SwappedPageIsFresh,
         ReportedRunIsServed, ReportsAgree, EventIsServed, ServedPageIsFresh,
         SettledPageIsWanted, Between, Reporting, Fresh, Analysis, AnalysisError

\* A command makes every answer so far an answer to an earlier one: it is
\* counted, and `rerun` is what the run in progress does not answer.
LEMMA InvCommand ==
  ASSUME RecomputeInv, TypeOK',
         UNCHANGED <<seen, run, current, event, line>>, NotifyAll,
         wanted'.commands = wanted.commands + 1,
         \A version \in Nat : Fresh(version) => wanted'.rerun \/ announced' <= version
  PROVE  RecomputeInv'
<1> USE DEF RecomputeInv, TypeOK
<1>1. seen # wanted'.commands
  BY DEF Wanted
<1>2. pc \notin Between => pc' = pc
  BY DEF NotifyAll, Between
<1>3. pc' \in Between <=> pc \in Between
  BY DEF NotifyAll, Between
<1>4. current.version \in Nat /\ run.version \in Nat
  BY DEF RunRecord
<1>5. RunAnswersCommands' /\ SettledPageIsWanted'
  BY <1>1 DEF RunAnswersCommands, SettledPageIsWanted
<1>6. SwappedPageIsFresh'
  BY <1>2, <1>3, <1>4 DEF SwappedPageIsFresh, Fresh, Between
<1>7. ReportedRunIsServed'
  BY <1>2, <1>3, <1>4 DEF ReportedRunIsServed, Fresh, Between, Reporting
<1>8. ReportsAgree' /\ EventIsServed'
  BY <1>2, <1>3 DEF ReportsAgree, EventIsServed, Outcome, Between, Reporting
<1>9. ServedPageIsFresh'
  BY <1>2, <1>3, <1>4 DEF ServedPageIsFresh, Fresh, Between
<1> QED
  BY <1>5, <1>6, <1>7, <1>8, <1>9

\* Every step of the thread, of the commands and of the end keeps it.
LEMMA InvStep == RecomputeInv /\ [RecomputeNext]_recomputeVars => RecomputeInv'
<1> SUFFICES ASSUME RecomputeInv, [RecomputeNext]_recomputeVars
             PROVE  RecomputeInv'
  OBVIOUS
<1>0. TypeOK /\ TypeOK'
  BY TypeStep DEF RecomputeInv
<1>1. ASSUME NEW switch \in Switch, NEW on \in BOOLEAN, SwitchCommand(switch, on)
      PROVE  RecomputeInv'
  <2>1. wanted'.commands = wanted.commands + 1 /\ wanted'.rerun = wanted.rerun
    BY <1>0, <1>1, WantedSwitch DEF TypeOK
  <2> QED
    BY <1>0, <1>1, <2>1, InvCommand DEF SwitchCommand, Fresh
<1>2. CASE RequestRerun
  <2>1. wanted'.commands = wanted.commands + 1 /\ wanted'.rerun
    BY <1>0, <1>2, WantedRerun DEF TypeOK
  <2> QED
    BY <1>0, <1>2, <2>1, InvCommand DEF RequestRerun
<1> USE DEF RunAnswersCommands, SwappedPageIsFresh, ReportedRunIsServed, ReportsAgree,
            EventIsServed, ServedPageIsFresh, SettledPageIsWanted,
            Between, Reporting, Fresh
<1>3. CASE Edit
  BY <1>0, <1>3 DEF RecomputeInv, Edit, threadVars, Outcome
<1>4. CASE Park \/ SpuriousWake \/ Return
  BY <1>0, <1>4 DEF RecomputeInv, Park, SpuriousWake, Return
<1>5. CASE Take
  BY <1>0, <1>5, TakenRun, TakenWanted DEF RecomputeInv, TypeOK, Take
<1>6. CASE Skip
  BY <1>0, <1>6 DEF RecomputeInv, Skip, NeedsRun
<1>7. CASE StartAnalysis
  BY <1>0, <1>7 DEF RecomputeInv, StartAnalysis
<1>8. CASE Analyse
  BY <1>0, <1>8 DEF RecomputeInv, TypeOK, Analyse, RunRecord
<1>9. CASE AnalyseFails
  BY <1>0, <1>9 DEF RecomputeInv, TypeOK, AnalyseFails, RunRecord
<1>10. CASE Swap
  BY <1>0, <1>10 DEF RecomputeInv, Swap
<1>11. CASE Broadcast
  BY <1>0, <1>11 DEF RecomputeInv, Broadcast, Outcome
<1>12. CASE WriteReport
  BY <1>0, <1>12 DEF RecomputeInv, WriteReport, Outcome
<1>13. CASE EndLoop \/ SetStopped \/ NotifyStopped
  BY <1>0, <1>13
     DEF RecomputeInv, TypeOK, Wanted, EndLoop, SetStopped, NotifyStopped, NotifyAll,
         threadVars, Outcome
<1>14. CASE UNCHANGED recomputeVars
  BY <1>0, <1>14 DEF RecomputeInv, recomputeVars, Outcome
<1> QED
  BY <1>1, <1>2, <1>3, <1>4, <1>5, <1>6, <1>7, <1>8, <1>9, <1>10, <1>11, <1>12, <1>13,
     <1>14
     DEF RecomputeNext, RecomputeThread

-----------------------------------------------------------------------------
(***************************************************************************)
(* The invariant holds in every behaviour of recompute_on_demand, beside   *)
(* any commands, edits and end of the service.                             *)
(***************************************************************************)
THEOREM InvHolds == RecomputeSafety => []RecomputeInv
<1>1. RecomputeInit => RecomputeInv
  BY InvInit
<1>2. RecomputeInv /\ [RecomputeNext]_recomputeVars => RecomputeInv'
  BY InvStep
<1> QED
  BY <1>1, <1>2, PTL DEF RecomputeSafety

(***************************************************************************)
(* When recompute_on_demand has looked at every command and its last run   *)
(* did not fail, the served page has the switches asked for last, is as    *)
(* new as the last rerun asked for, and both channels have said so.        *)
(***************************************************************************)
THEOREM LastCommandWinsHolds == RecomputeSafety => []LastCommandWins
<1>1. RecomputeInv => LastCommandWins
  <2> SUFFICES ASSUME RecomputeInv, Settled, event # AnalysisError
               PROVE  /\ current.switches = wanted.switches
                      /\ current.version >= announced
                      /\ event = Analysis(current.switches)
                      /\ line = event
    BY DEF LastCommandWins
  <2>1. pc \in Between /\ seen = wanted.commands
    BY DEF Settled, Between
  <2>2. current.switches = wanted.switches /\ ~wanted.rerun
    BY <2>1 DEF RecomputeInv, SettledPageIsWanted
  <2>3. announced <= current.version
    BY <2>1, <2>2 DEF RecomputeInv, ServedPageIsFresh, Fresh
  <2>4. current.version \in Nat /\ announced \in Nat
    BY DEF RecomputeInv, TypeOK
  <2>5. event = Analysis(current.switches) /\ line = event
    BY <2>1 DEF RecomputeInv, EventIsServed, ReportsAgree, Between, Reporting
  <2> QED
    BY <2>2, <2>3, <2>4, <2>5
<1> QED
  BY <1>1, InvHolds, PTL

(***************************************************************************)
(* Neither the pages nor the editor are told of a run before its page is   *)
(* served: between two reports the last one speaks of the served page.     *)
(***************************************************************************)
THEOREM ReportedPageIsServedHolds == RecomputeSafety => []ReportedPageIsServed
<1>1. RecomputeInv => ReportedPageIsServed
  BY DEF RecomputeInv, ReportedPageIsServed, ReportsAgree, EventIsServed, Reporting
<1> QED
  BY <1>1, InvHolds, PTL

-----------------------------------------------------------------------------
(***************************************************************************)
(* Every step of the thread is a step of RunOnDemand or changes nothing    *)
(* there.                                                                  *)
(***************************************************************************)
\* While the thread is at a run, the abstract run is one.
LEMMA RunningIsARun == TypeOK => run.switches # NoRun
BY RecomputeAssumption DEF TypeOK, RunRecord, Switches

\* A take starts the abstract run or dismisses the requests.
LEMMA TakeSimulates == RecomputeInv /\ Take => Abstract!Next
<1> SUFFICES ASSUME RecomputeInv, Take
             PROVE  Abstract!Next
  OBVIOUS
<1> USE DEF RecomputeInv, TypeOK
<1>1. /\ pc = "check" /\ pc' = "compare" /\ ~wanted.stopped
      /\ wanted.commands # seen /\ seen' = wanted.commands
      /\ UNCHANGED <<current, disk>>
  BY DEF Take
<1>2. ~AtRun
  BY <1>1 DEF AtRun
<1>3. /\ run'.switches = wanted.switches /\ run'.rerun = wanted.rerun
      /\ wanted'.commands = wanted.commands /\ ~wanted'.rerun
      /\ wanted'.switches = wanted.switches /\ wanted'.stopped = wanted.stopped
  BY TakenRun, TakenWanted
<1>4. AtRun' <=> wanted.rerun \/ wanted.switches # current.switches
  BY <1>1, <1>3 DEF AtRun, NeedsRun
<1>5. CASE wanted.rerun \/ wanted.switches # current.switches
  <2>1. Abstract!Start
    BY <1>1, <1>2, <1>3, <1>4, <1>5, TakenWanted DEF Abstract!Start, Wanted
  <2> QED
    BY <2>1 DEF Abstract!Next
<1>6. CASE ~(wanted.rerun \/ wanted.switches # current.switches)
  <2>1. Abstract!Dismiss
    BY <1>1, <1>2, <1>3, <1>4, <1>6, TakenWanted DEF Abstract!Dismiss, Wanted
  <2> QED
    BY <2>1 DEF Abstract!Next
<1> QED
  BY <1>5, <1>6

\* The swap ends the abstract run with a page no older than the served one.
LEMMA SwapSimulates == RecomputeInv /\ Swap => Abstract!Next
<1> SUFFICES ASSUME RecomputeInv, Swap
             PROVE  Abstract!Next
  OBVIOUS
<1>1. AtRun /\ ~AtRun'
  BY DEF Swap, AtRun
<1>2. run.switches # NoRun
  BY RunningIsARun DEF RecomputeInv
<1>3. /\ current' = [switches |-> run.switches, version |-> run.version]
      /\ run.version \in current.version .. disk
  BY DEF Swap, RecomputeInv, SwappedPageIsFresh, TypeOK, RunRecord
<1>4. UNCHANGED <<wanted, seen, disk>>
  BY DEF Swap
<1>5. Abstract!Finish
  BY <1>1, <1>2, <1>3, <1>4 DEF Abstract!Finish
<1> QED
  BY <1>5 DEF Abstract!Next

\* A failed analysis ends it and leaves the served page.
LEMMA FailureSimulates == RecomputeInv /\ AnalyseFails => Abstract!Next
<1> SUFFICES ASSUME RecomputeInv, AnalyseFails
             PROVE  Abstract!Next
  OBVIOUS
<1>1. AtRun /\ ~AtRun'
  BY DEF AnalyseFails, AtRun
<1>2. run.switches # NoRun
  BY RunningIsARun DEF RecomputeInv
<1>3. UNCHANGED <<wanted, seen, current, disk>>
  BY DEF AnalyseFails
<1>4. Abstract!Fail
  BY <1>1, <1>2, <1>3 DEF Abstract!Fail
<1> QED
  BY <1>4 DEF Abstract!Next

\* A command is a request.
LEMMA SwitchSimulates ==
  ASSUME RecomputeInv, NEW switch \in Switch, NEW on \in BOOLEAN,
         SwitchCommand(switch, on)
  PROVE  Abstract!Next
<1> USE DEF RecomputeInv, TypeOK
<1>1. /\ wanted' \in Wanted
      /\ wanted'.commands = wanted.commands + 1
      /\ wanted'.rerun = wanted.rerun
      /\ wanted'.stopped = wanted.stopped
  BY WantedSwitch
<1>2. wanted'.commands # seen
  BY <1>1 DEF Wanted
<1>3. UNCHANGED <<seen, run, current, disk>>
  BY DEF SwitchCommand
<1>4. AtRun' <=> AtRun
  BY <1>3 DEF SwitchCommand, NotifyAll, AtRun, NeedsRun
<1>5. wanted'.switches \in Abstract!Switches
  BY <1>1 DEF Wanted, Switches, Abstract!Switches
<1>6. Abstract!Ask(wanted'.switches)
  BY <1>1, <1>2, <1>3, <1>4 DEF Abstract!Ask
<1> QED
  BY <1>5, <1>6 DEF Abstract!Next

\* So is a save or a recompute command.
LEMMA RerunSimulates == RecomputeInv /\ RequestRerun => Abstract!Next
<1> SUFFICES ASSUME RecomputeInv, RequestRerun
             PROVE  Abstract!Next
  OBVIOUS
<1> USE DEF RecomputeInv, TypeOK
<1>1. /\ wanted'.commands = wanted.commands + 1 /\ wanted'.rerun
      /\ wanted' \in Wanted
      /\ wanted'.switches = wanted.switches /\ wanted'.stopped = wanted.stopped
  BY WantedRerun
<1>2. wanted'.commands # seen
  BY <1>1 DEF Wanted
<1>3. UNCHANGED <<seen, run, current, disk>>
  BY DEF RequestRerun
<1>4. AtRun' <=> AtRun
  BY <1>3 DEF RequestRerun, NotifyAll, AtRun, NeedsRun
<1>5. wanted'.rerun = TRUE
  BY <1>1 DEF Wanted
<1>6. Abstract!AskRerun
  BY <1>1, <1>2, <1>3, <1>4, <1>5 DEF Abstract!AskRerun
<1> QED
  BY <1>6 DEF Abstract!Next

\* The steps between a take and its end, and those of the threads, are not
\* seen there.
LEMMA StutterSimulates ==
  ASSUME TypeOK,
         \/ Park \/ SpuriousWake \/ Return \/ Skip \/ StartAnalysis \/ Analyse
         \/ Broadcast \/ WriteReport \/ EndLoop \/ NotifyStopped
         \/ UNCHANGED recomputeVars
  PROVE  UNCHANGED Abstract!vars
<1>1. UNCHANGED <<wanted, seen, current, disk>>
  BY DEF Park, SpuriousWake, Return, Skip, StartAnalysis, Analyse, Broadcast,
         WriteReport, EndLoop, NotifyStopped, threadVars, recomputeVars
<1>2. AtRun' <=> AtRun
  BY DEF Park, SpuriousWake, Return, Skip, StartAnalysis, Analyse, Broadcast,
         WriteReport, EndLoop, NotifyStopped, NotifyAll, threadVars, recomputeVars,
         AtRun, NeedsRun
<1>3. AtRun => run'.switches = run.switches
  <2>1. CASE Analyse
    BY <2>1 DEF Analyse, TypeOK, RunRecord
  <2>2. CASE ~Analyse
    BY <2>2
       DEF Park, SpuriousWake, Return, Skip, StartAnalysis, Broadcast, WriteReport,
           EndLoop, NotifyStopped, threadVars, recomputeVars, AtRun, NeedsRun
  <2> QED
    BY <2>1, <2>2
<1> QED
  BY <1>1, <1>2, <1>3 DEF Abstract!vars

(***************************************************************************)
(* recompute_on_demand keeps the promises of its comment: it implements    *)
(* RunOnDemand, whose one further run answers every command of a run and   *)
(* whose last command wins.                                                *)
(***************************************************************************)
THEOREM ImplementsRunOnDemandHolds == RecomputeSafety => Abstract!Safety
<1>1. RecomputeInit => Abstract!Init
  BY DEF RecomputeInit, Abstract!Init, AtRun, Abstract!Switches, Switches
<1>2. RecomputeInv /\ [RecomputeNext]_recomputeVars => [Abstract!Next]_(Abstract!vars)
  <2> SUFFICES ASSUME RecomputeInv, [RecomputeNext]_recomputeVars
               PROVE  [Abstract!Next]_(Abstract!vars)
    OBVIOUS
  <2>1. ASSUME NEW switch \in Switch, NEW on \in BOOLEAN, SwitchCommand(switch, on)
        PROVE  Abstract!Next
    BY <2>1, SwitchSimulates
  <2>2. CASE RequestRerun
    BY <2>2, RerunSimulates
  <2>3. CASE Edit
    <3>1. Abstract!Edit
      BY <2>3 DEF Edit, threadVars, Abstract!Edit, AtRun, NeedsRun
    <3> QED
      BY <3>1 DEF Abstract!Next
  <2>4. CASE Take
    BY <2>4, TakeSimulates
  <2>5. CASE AnalyseFails
    BY <2>5, FailureSimulates
  <2>6. CASE Swap
    BY <2>6, SwapSimulates
  <2>7. CASE SetStopped
    <3>1. wanted' = [wanted EXCEPT !.stopped = TRUE] /\ wanted \in Wanted
      BY <2>7 DEF SetStopped, RecomputeInv, TypeOK
    <3>2. /\ wanted'.switches = wanted.switches /\ wanted'.commands = wanted.commands
          /\ wanted'.rerun = wanted.rerun /\ wanted'.stopped = TRUE
      BY <3>1 DEF Wanted
    <3>3. Abstract!Halt
      BY <2>7, <3>2 DEF SetStopped, threadVars, Abstract!Halt, AtRun, NeedsRun
    <3> QED
      BY <3>3 DEF Abstract!Next
  <2>8. CASE Park \/ SpuriousWake \/ Return \/ Skip \/ StartAnalysis \/ Analyse
             \/ Broadcast \/ WriteReport \/ EndLoop \/ NotifyStopped
             \/ UNCHANGED recomputeVars
    BY <2>8, StutterSimulates DEF RecomputeInv
  <2> QED
    BY <2>1, <2>2, <2>3, <2>4, <2>5, <2>6, <2>7, <2>8
       DEF RecomputeNext, RecomputeThread
<1> QED
  BY <1>1, <1>2, InvHolds, PTL DEF RecomputeSafety, Abstract!Safety

-----------------------------------------------------------------------------
(***************************************************************************)
(* The service.                                                            *)
(***************************************************************************)
\* Every step of the service is one of the recomputation or leaves it alone.
LEMMA ServiceStepIsRecompute == ServiceNext => [RecomputeNext]_recomputeVars
<1> SUFFICES ASSUME ServiceNext
             PROVE  RecomputeNext \/ UNCHANGED recomputeVars
  OBVIOUS
<1>1. ASSUME NEW t \in Thread, CommandNext(t)
      PROVE  RecomputeNext \/ UNCHANGED recomputeVars
  <2>1. ASSUME NEW switch \in Switch, NEW on \in BOOLEAN, SetSwitch(t, switch, on)
        PROVE  RecomputeNext
    BY <2>1 DEF SetSwitch, RecomputeNext
  <2>2. CASE RecomputeCommand(t)
    BY <2>2 DEF RecomputeCommand, RecomputeNext
  <2>3. CASE \/ FocusCommand(t)
             \/ \E on \in BOOLEAN : FollowCommand(t, on)
             \/ \E mode \in Mode : ThemeCommand(t, mode)
             \/ SavedCommand(t)
             \/ \E on \in BOOLEAN : OnSaveCommand(t, on)
    BY <2>3 DEF FocusCommand, FollowCommand, ThemeCommand, SavedCommand, OnSaveCommand
  <2> QED
    BY <1>1, <2>1, <2>2, <2>3 DEF CommandNext
<1>2. ASSUME NEW t \in Thread, FinishCommand(t)
      PROVE  RecomputeNext \/ UNCHANGED recomputeVars
  BY <1>2 DEF FinishCommand, RecomputeNext
<1>3. CASE PageMode \/ PageServed \/ ClearSubscribers \/ EditorLeaves \/ StdinEnds
  BY <1>3 DEF PageMode, PageServed, ClearSubscribers, EditorLeaves, StdinEnds
<1>4. ASSUME NEW id \in 1 .. Len(TableOf(current)), Jump(id) \/ JumpFails(id)
      PROVE  RecomputeNext \/ UNCHANGED recomputeVars
  BY <1>4 DEF Jump, JumpFails, RecomputeNext
<1>5. ASSUME NEW s \in Stream, Events(s) \/ StreamThread(s) \/ PageCloses(s)
      PROVE  UNCHANGED recomputeVars
  BY <1>5 DEF Events, StreamThread, StreamWrite, StreamFails, StreamEnds, PageCloses
<1>6. CASE ThreadStep \/ Surroundings \/ Stopping
  BY <1>6 DEF ThreadStep, Surroundings, Stopping, RecomputeNext
<1> QED
  BY <1>1, <1>2, <1>3, <1>4, <1>5, <1>6 DEF ServiceNext

(***************************************************************************)
(* The service runs the recomputation as module Recompute has it, whatever *)
(* its two command threads, its streams and its requests do in between.    *)
(***************************************************************************)
THEOREM ServiceImplementsRecompute == ServiceSafety => RecomputeSafety
<1>1. ServiceInit => RecomputeInit
  BY DEF ServiceInit
<1>2. [ServiceNext]_serviceVars => [RecomputeNext]_recomputeVars
  BY ServiceStepIsRecompute DEF serviceVars
<1> QED
  BY <1>1, <1>2, PTL DEF ServiceSafety, RecomputeSafety

(***************************************************************************)
(* So the last command wins in the whole service.                          *)
(***************************************************************************)
THEOREM LastCommandWinsInService == ServiceSafety => []LastCommandWins
BY ServiceImplementsRecompute, LastCommandWinsHolds, PTL

-----------------------------------------------------------------------------
(***************************************************************************)
(* The senders. A broadcast keeps every sender whose stream has not ended, *)
(* and a connection is registered in the step that opens it.               *)
(***************************************************************************)
StreamState == {"none", "open", "gone", "ended"}
StreamsInv == stream \in [Stream -> StreamState] /\ OpenStreamsAreSubscribed

\* broadcast's retain drops no open stream.
LEMMA BroadcastKeepsOpenStreams ==
  ASSUME StreamsInv, NEW report, SendAll(report), UNCHANGED <<stream, cleared>>
  PROVE  StreamsInv'
BY DEF StreamsInv, OpenStreamsAreSubscribed, SendAll, StreamState

\* Every step of the service keeps the senders of the open streams.
LEMMA StreamsStep == StreamsInv /\ [ServiceNext]_serviceVars => StreamsInv'
<1> SUFFICES ASSUME StreamsInv, ServiceNext \/ UNCHANGED serviceVars
             PROVE  StreamsInv'
  OBVIOUS
<1>1. ASSUME UNCHANGED <<subscribers, stream, cleared>>
      PROVE  StreamsInv'
  BY <1>1 DEF StreamsInv, OpenStreamsAreSubscribed
<1>2. ASSUME NEW t \in Thread, CommandNext(t)
      PROVE  StreamsInv'
  <2>1. ASSUME NEW on \in BOOLEAN, FollowCommand(t, on)
        PROVE  StreamsInv'
    BY <2>1, BroadcastKeepsOpenStreams DEF FollowCommand, stateVars
  <2>2. CASE \/ FocusCommand(t)
             \/ \E mode \in Mode : ThemeCommand(t, mode)
             \/ \E switch \in Switch, on \in BOOLEAN : SetSwitch(t, switch, on)
             \/ SavedCommand(t)
             \/ RecomputeCommand(t)
             \/ \E on \in BOOLEAN : OnSaveCommand(t, on)
    BY <1>1, <2>2
       DEF FocusCommand, ThemeCommand, SetSwitch, SavedCommand, RecomputeCommand,
           OnSaveCommand, streamVars, stateVars
  <2> QED
    BY <1>2, <2>1, <2>2 DEF CommandNext
<1>3. ASSUME NEW t \in Thread, FinishCommand(t)
      PROVE  StreamsInv'
  <2>1. CASE exec[t] = Rerun /\ UNCHANGED <<subscribers, chan>>
    BY <1>1, <1>3, <2>1 DEF FinishCommand, stateVars
  <2>2. CASE SendAll(exec[t].report)
    BY <1>3, <2>2, BroadcastKeepsOpenStreams DEF FinishCommand, stateVars
  <2> QED
    BY <1>3, <2>1, <2>2 DEF FinishCommand
<1>4. ASSUME NEW s \in Stream, Events(s)
      PROVE  StreamsInv'
  BY <1>4 DEF Events, StreamsInv, OpenStreamsAreSubscribed, StreamState, stateVars
<1>5. ASSUME NEW s \in Stream, StreamThread(s) \/ PageCloses(s)
      PROVE  StreamsInv'
  BY <1>5
     DEF StreamThread, StreamWrite, StreamFails, StreamEnds, PageCloses, StreamsInv,
         OpenStreamsAreSubscribed, StreamState, stateVars
<1>6. CASE ThreadStep
  <2>1. CASE pc = "broadcast"
    BY <1>6, <2>1, BroadcastKeepsOpenStreams DEF ThreadStep, stateVars
  <2>2. CASE pc # "broadcast"
    BY <1>1, <1>6, <2>2 DEF ThreadStep, stateVars
  <2> QED
    BY <2>1, <2>2
<1>7. CASE ClearSubscribers
  BY <1>7 DEF ClearSubscribers, StreamsInv, OpenStreamsAreSubscribed
<1>8. CASE \/ PageMode \/ PageServed \/ Surroundings \/ Stopping \/ EditorLeaves
           \/ StdinEnds \/ \E id \in 1 .. Len(TableOf(current)) : Jump(id) \/ JumpFails(id)
           \/ UNCHANGED serviceVars
  BY <1>1, <1>8
     DEF PageMode, PageServed, Surroundings, Stopping, EditorLeaves, StdinEnds, Jump,
         JumpFails, serviceVars, streamVars, stateVars
<1> QED
  BY <1>2, <1>3, <1>4, <1>5, <1>6, <1>7, <1>8 DEF ServiceNext

(***************************************************************************)
(* No open page drops out of the broadcasts (broadcast, handle_events), in *)
(* any number of connections.                                              *)
(***************************************************************************)
THEOREM OpenStreamsStaySubscribed == ServiceSafety => []OpenStreamsAreSubscribed
<1>1. ServiceInit => StreamsInv
  BY DEF ServiceInit, StreamsInv, OpenStreamsAreSubscribed, StreamState
<1>2. StreamsInv /\ [ServiceNext]_serviceVars => StreamsInv'
  BY StreamsStep
<1>3. StreamsInv => OpenStreamsAreSubscribed
  BY DEF StreamsInv
<1> QED
  BY <1>1, <1>2, <1>3, PTL DEF ServiceSafety

-----------------------------------------------------------------------------
(***************************************************************************)
(* What the states are made of.                                            *)
(***************************************************************************)
Layout == [switches: Switches, version: Nat]
KnownMode == Mode \cup {NoMode}

Event == Report \cup {OnSaveEvent(on) : on \in BOOLEAN}
                \cup {ThemeEvent(mode) : mode \in Mode}
                \cup {FollowEvent(on) : on \in BOOLEAN}
                \cup {FocusEvent(layout) : layout \in Layout}

Task == {Idle, Closed, Rerun} \cup {Tell(report) : report \in Event}
                              \cup {Render(mode) : mode \in KnownMode}

PageRecord == [at: {"closed", "loaded", "live", "lost", "reloading"},
               layout: Layout, mode: KnownMode, onSave: BOOLEAN, busy: BOOLEAN,
               stream: Stream \cup {NoStream},
               missed: SUBSET {"analysis", "theme", "report"}]

Request == {NoPost} \cup [op: {"switch"}, switch: Switch, on: BOOLEAN]
                    \cup [op: {"on-save"}, on: BOOLEAN]
                    \cup [op: {"jump"}, id: Nat,
                          file: {TableOf(layout)[id] : id \in Nat, layout \in Layout}]

PagesTypeOK ==
  /\ exec \in [Thread -> Task]
  /\ chan \in [Stream -> Seq(Event)]
  /\ onSave \in BOOLEAN
  /\ editorMode \in KnownMode
  /\ page \in [Page -> PageRecord]
  /\ post \in [Page -> [Slot -> Request]]

\* The queue of a live page is its own, and its sender is there.
ConnectionsInv ==
  \A p \in Page : Live(p) =>
    /\ page[p].stream \in Stream
    /\ stream[page[p].stream] = "open"
    /\ \A q \in Page \ {p} : Live(q) => page[q].stream # page[p].stream

BaseInv == RecomputeInv /\ StreamsInv /\ ~cleared /\ PagesTypeOK /\ ConnectionsInv

\* The served page has a layout's type.
LEMMA CurrentType == RecomputeInv => current \in Layout
BY DEF RecomputeInv, TypeOK, Layout

\* Each kind of event has its fields.
LEMMA EventFields ==
  ASSUME NEW report \in Event
  PROVE  /\ report.kind \in {"analysis", "analysis-error", "on-save", "theme", "follow",
                             "focus"}
         /\ report.kind = "on-save" => report.on \in BOOLEAN
         /\ report.kind = "theme" => report.mode \in Mode
BY DEF Event, Report, Analysis, AnalysisError, OnSaveEvent, ThemeEvent, FollowEvent,
       FocusEvent

\* So has each kind of task and each kind of request.
LEMMA TaskFields ==
  ASSUME NEW task \in Task
  PROVE  /\ task.op = "tell" => task.report \in Event /\ task = Tell(task.report)
         /\ task.op = "render" => task.mode \in KnownMode
BY DEF Task, Idle, Closed, Rerun, Tell, Render

\* The fields a request carries follow from its kind.
LEMMA RequestFields ==
  ASSUME NEW request \in Request
  PROVE  /\ request.op = "switch" => request.switch \in Switch /\ request.on \in BOOLEAN
         /\ request.op = "on-save" => request.on \in BOOLEAN
BY DEF Request, NoPost

\* What a run reports is an event.
LEMMA OutcomeType == RecomputeInv => Outcome \in Event
BY DEF RecomputeInv, TypeOK, RunRecord, Outcome, Event, Report

\* Every step of the pages is one of the service or leaves it alone.
LEMMA PagesStepIsService == BaseInv /\ PagesNext => [ServiceNext]_serviceVars
<1> SUFFICES ASSUME BaseInv, PagesNext
             PROVE  ServiceNext \/ UNCHANGED serviceVars
  OBVIOUS
<1>1. "stdin" \in Thread /\ "request" \in Thread
  BY DEF Thread
<1>2. CASE ServiceStep
  <2>1. CASE EditorCommand
    BY <1>1, <2>1 DEF EditorCommand, CommandNext, ServiceNext
  <2>2. CASE \E t \in Thread : FinishCommand(t)
    BY <2>2 DEF ServiceNext
  <2>3. CASE ThreadStep \/ Surroundings
    BY <2>3 DEF ServiceNext
  <2>4. CASE \E s \in Stream \ {page[p].stream : p \in Page} :
               StreamThread(s) \/ PageCloses(s)
    BY <2>4 DEF ServiceNext
  <2> QED
    BY <1>2, <2>1, <2>2, <2>3, <2>4 DEF ServiceStep
<1>3. ASSUME NEW p \in Page, PageStep(p)
      PROVE  ServiceNext \/ UNCHANGED serviceVars
  <2>1. CASE Fetch(p) \/ Fetched(p)
    BY <2>1 DEF Fetch, Fetched, ServiceNext
  <2>2. CASE Connect(p)
    BY <2>2 DEF Connect, ServiceNext
  <2>3. CASE ConnectionLost(p) \/ Deliver(p) \/ Reload(p)
    <3>1. page[p].stream \in Stream
      BY <2>3 DEF ConnectionLost, Deliver, Reload, BaseInv, ConnectionsInv, Live
    <3> QED
      BY <2>3, <3>1 DEF ConnectionLost, Deliver, Reload, ServiceNext, StreamThread
  <2>4. ASSUME NEW k \in Slot, Click(p, k)
        PROVE  UNCHANGED serviceVars
    BY <2>4 DEF Click
  <2>5. ASSUME NEW k \in Slot, Answer(p, k)
        PROVE  ServiceNext \/ UNCHANGED serviceVars
    <3>1. post[p][k] \in Request
      BY DEF BaseInv, PagesTypeOK
    <3>2. CASE /\ post[p][k].op = "switch"
               /\ SetSwitch("request", post[p][k].switch, post[p][k].on)
      BY <1>1, <3>1, <3>2, RequestFields DEF CommandNext, ServiceNext
    <3>3. CASE post[p][k].op = "on-save" /\ OnSaveCommand("request", post[p][k].on)
      BY <1>1, <3>1, <3>3, RequestFields DEF CommandNext, ServiceNext
    <3>4. CASE Jump(post[p][k].id)
      BY <3>4 DEF Jump, ServiceNext
    <3>5. CASE UNCHANGED serviceVars
      BY <3>5
    <3> QED
      BY <2>5, <3>2, <3>3, <3>4, <3>5 DEF Answer
  <2> QED
    BY <1>3, <2>1, <2>2, <2>3, <2>4, <2>5 DEF PageStep
<1> QED
  BY <1>2, <1>3 DEF PagesNext
-----------------------------------------------------------------------------
(***************************************************************************)
(* The types and the connections are kept.                                 *)
(***************************************************************************)
\* A broadcast appends the event for every sender whose stream goes on.
LEMMA SendAllType ==
  ASSUME chan \in [Stream -> Seq(Event)], NEW report \in Event, SendAll(report)
  PROVE  chan' \in [Stream -> Seq(Event)]
<1>1. \A s \in Stream : Append(chan[s], report) \in Seq(Event)
  BY AppendProperties
<1> QED
  BY <1>1 DEF SendAll

\* The editor's commands leave the pages alone and the rest well typed.
LEMMA EditorCommandType ==
  ASSUME BaseInv, EditorCommand, UNCHANGED pageVars
  PROVE  PagesTypeOK'
<1> USE DEF BaseInv, PagesTypeOK, pageVars
<1>0. "stdin" \in Thread /\ current \in Layout
  BY CurrentType DEF Thread
<1>1. CASE FocusCommand("stdin")
  <2>1. Tell(FocusEvent(current)) \in Task
    BY <1>0 DEF Task, Event
  <2> QED
    BY <1>0, <1>1, <2>1 DEF FocusCommand, Then, streamVars, stateVars
<1>2. ASSUME NEW on \in BOOLEAN, FollowCommand("stdin", on)
      PROVE  PagesTypeOK'
  <2>1. FollowEvent(on) \in Event
    BY DEF Event
  <2> QED
    BY <1>2, <2>1, SendAllType DEF FollowCommand, stateVars
<1>3. ASSUME NEW mode \in Mode, ThemeCommand("stdin", mode)
      PROVE  PagesTypeOK'
  <2>1. Tell(ThemeEvent(mode)) \in Task /\ Idle \in Task
    BY DEF Task, Event
  <2> QED
    BY <1>0, <1>3, <2>1 DEF ThemeCommand, Then, streamVars, KnownMode
<1>4. ASSUME NEW on \in BOOLEAN, OnSaveCommand("stdin", on)
      PROVE  PagesTypeOK'
  <2>1. Tell(OnSaveEvent(on)) \in Task
    BY DEF Task, Event
  <2> QED
    BY <1>0, <1>4, <2>1 DEF OnSaveCommand, Then, streamVars
<1>5. CASE SavedCommand("stdin")
  BY <1>0, <1>5 DEF SavedCommand, Then, streamVars, stateVars, Task
<1>6. CASE \/ RecomputeCommand("stdin")
           \/ \E switch \in Switch, on \in BOOLEAN : SetSwitch("stdin", switch, on)
  BY <1>6 DEF RecomputeCommand, SetSwitch, streamVars, stateVars
<1> QED
  BY <1>1, <1>2, <1>3, <1>4, <1>5, <1>6 DEF EditorCommand

\* So do the service's other steps.
LEMMA ServiceStepType == BaseInv /\ ServiceStep => PagesTypeOK'
<1> SUFFICES ASSUME BaseInv, ServiceStep
             PROVE  PagesTypeOK'
  OBVIOUS
<1> USE DEF BaseInv, PagesTypeOK, pageVars
<1>0. UNCHANGED pageVars
  BY DEF ServiceStep
<1>1. CASE EditorCommand
  BY <1>0, <1>1, EditorCommandType
<1>2. ASSUME NEW t \in Thread, FinishCommand(t)
      PROVE  PagesTypeOK'
  <2>1. Idle \in Task
    BY DEF Task
  <2>2. CASE exec[t].op = "tell" /\ SendAll(exec[t].report)
    <3>1. exec[t].report \in Event
      BY <2>2, TaskFields
    <3> QED
      BY <1>0, <1>2, <2>1, <2>2, <3>1, SendAllType DEF FinishCommand, Then, stateVars
  <2>3. CASE UNCHANGED <<subscribers, chan>>
    BY <1>0, <1>2, <2>1, <2>3 DEF FinishCommand, Then, stateVars
  <2> QED
    BY <1>2, <2>2, <2>3 DEF FinishCommand
<1>3. CASE ThreadStep
  <2>1. CASE SendAll(Outcome)
    BY <1>0, <1>3, <2>1, SendAllType, OutcomeType DEF ThreadStep, stateVars
  <2>2. CASE UNCHANGED <<subscribers, chan>>
    BY <1>0, <1>3, <2>2 DEF ThreadStep, stateVars
  <2> QED
    BY <1>3, <2>1, <2>2 DEF ThreadStep
<1>4. CASE Surroundings
  BY <1>0, <1>4 DEF Surroundings, streamVars, stateVars
<1>5. ASSUME NEW s \in Stream, StreamThread(s) \/ PageCloses(s)
      PROVE  PagesTypeOK'
  <2>1. chan[s] # <<>> => Tail(chan[s]) \in Seq(Event)
    BY HeadTailProperties
  <2>2. <<>> \in Seq(Event)
    BY EmptySeq
  <2> QED
    BY <1>0, <1>5, <2>1, <2>2
       DEF StreamThread, StreamWrite, StreamFails, StreamEnds, PageCloses, stateVars
<1> QED
  BY <1>1, <1>2, <1>3, <1>4, <1>5 DEF ServiceStep

\* A request that is sent is one, and so are those that outlive a reload.
LEMMA PostsType ==
  ASSUME PagesTypeOK, NEW p \in Page, NEW k \in Slot, NEW request \in Request,
         Posts(p, k, request)
  PROVE  post' \in [Page -> [Slot -> Request]]
BY DEF PagesTypeOK, Posts

LEMMA ReloadedPosts ==
  ASSUME PagesTypeOK, NEW p \in Page, Reload(p)
  PROVE  post' \in [Page -> [Slot -> Request]]
<1>1. PICK arrived \in SUBSET Slot :
        post' = [post EXCEPT ![p] =
                   [k \in Slot |-> IF k \in arrived THEN post[p][k] ELSE NoPost]]
  BY DEF Reload
<1>2. [k \in Slot |-> IF k \in arrived THEN post[p][k] ELSE NoPost] \in [Slot -> Request]
  BY DEF PagesTypeOK, Request
<1> QED
  BY <1>1, <1>2 DEF PagesTypeOK

\* And the steps a page takes part in.
LEMMA PageStepType ==
  ASSUME BaseInv, NEW p \in Page, PageStep(p)
  PROVE  PagesTypeOK'
<1> USE DEF BaseInv, PagesTypeOK
<1>0. "request" \in Thread /\ current \in Layout
  BY CurrentType DEF Thread
<1>1. CASE Fetch(p)
  <2>1. Render(editorMode) \in Task
    BY DEF Task
  <2> QED
    BY <1>0, <1>1, <2>1 DEF Fetch, PageMode, Then, streamVars, stateVars
<1>2. CASE Fetched(p)
  <2>1. Idle \in Task /\ exec["request"].mode \in KnownMode
    BY <1>0, <1>2, TaskFields DEF Fetched, PageServed, Task
  <2>2. [ClosedPage(current) EXCEPT !.at = "loaded", !.mode = exec["request"].mode]
          \in PageRecord
    BY <1>0, <2>1 DEF ClosedPage, PageRecord
  <2> QED
    BY <1>0, <1>2, <2>1, <2>2 DEF Fetched, PageServed, Then, streamVars, stateVars
<1>3. CASE Connect(p)
  <2>1. PICK s \in Stream :
          /\ Events(s)
          /\ page' = [page EXCEPT ![p].at = "live", ![p].stream = s,
                                  ![p].missed = MissedBy(p)]
    BY <1>3 DEF Connect
  <2>2. OnSaveEvent(onSave) \in Event
    BY DEF Event
  <2>3. <<OnSaveEvent(onSave)>> \in Seq(Event)
    BY <2>2
  <2>4. MissedBy(p) \in SUBSET {"analysis", "theme", "report"}
    BY DEF MissedBy
  <2>5. chan' \in [Stream -> Seq(Event)] /\ UNCHANGED <<exec, onSave, editorMode>>
    BY <2>1, <2>3 DEF Events, stateVars
  <2>6. [page[p] EXCEPT !.at = "live", !.stream = s, !.missed = MissedBy(p)] \in PageRecord
    BY <2>4 DEF PageRecord
  <2>7. page' = [page EXCEPT ![p] = [page[p] EXCEPT !.at = "live", !.stream = s,
                                                    !.missed = MissedBy(p)]]
    BY <2>1
  <2>8. page' \in [Page -> PageRecord]
    BY <2>6, <2>7
  <2> QED
    BY <1>3, <2>5, <2>8 DEF Connect
<1>4. CASE ConnectionLost(p)
  <2>1. [page[p] EXCEPT !.at = "lost", !.stream = NoStream] \in PageRecord
    BY DEF PageRecord
  <2>2. page' = [page EXCEPT ![p] = [page[p] EXCEPT !.at = "lost", !.stream = NoStream]]
    BY <1>4 DEF ConnectionLost
  <2>3. page' \in [Page -> PageRecord]
    BY <2>1, <2>2
  <2> QED
    BY <1>4, <2>3 DEF ConnectionLost, PageCloses, stateVars
<1>5. CASE Deliver(p) \/ Reload(p)
  <2>1. page[p].stream \in Stream /\ StreamWrite(page[p].stream)
    BY <1>5 DEF Deliver, Reload, ConnectionsInv, Live
  <2>2. /\ Tail(chan[page[p].stream]) \in Seq(Event)
        /\ Head(chan[page[p].stream]) \in Event
    BY <2>1, HeadTailProperties DEF StreamWrite
  <2>3. /\ chan' \in [Stream -> Seq(Event)]
        /\ UNCHANGED <<exec, onSave, editorMode>>
    BY <2>1, <2>2 DEF StreamWrite, stateVars
  <2>4. Handled(page[p], Head(chan[page[p].stream])) \in PageRecord
    BY <2>2, EventFields DEF Handled, PageRecord, KnownMode
  <2>5. [page[p] EXCEPT !.at = "reloading", !.stream = NoStream] \in PageRecord
    BY DEF PageRecord
  <2>6. CASE Deliver(p)
    BY <2>3, <2>4, <2>6 DEF Deliver
  <2>7. CASE Reload(p)
    <3>1. page' = [page EXCEPT ![p] = [page[p] EXCEPT !.at = "reloading",
                                                      !.stream = NoStream]]
      BY <2>7 DEF Reload
    <3> QED
      BY <2>3, <2>5, <2>7, <3>1, ReloadedPosts DEF Reload
  <2> QED
    BY <1>5, <2>6, <2>7
<1>6. ASSUME NEW k \in Slot, Click(p, k)
      PROVE  PagesTypeOK'
  <2>1. /\ page[p].onSave \in BOOLEAN
        /\ page[p].layout \in Layout
        /\ page[p].layout.switches \in [Switch -> BOOLEAN]
    BY DEF PageRecord, Layout, Switches
  <2>2. UNCHANGED <<exec, chan, onSave, editorMode>>
    BY <1>6 DEF Click, serviceVars, streamVars, stateVars
  <2>3. ASSUME NEW switch \in Switch, ClickSwitch(p, k, switch)
        PROVE  PagesTypeOK'
    <3>1. PostSwitch(switch, ~page[p].layout.switches[switch]) \in Request
      BY <2>1 DEF Request, PostSwitch
    <3>2. [page[p] EXCEPT !.busy = TRUE] \in PageRecord
      BY DEF PageRecord
    <3>3. page' = [page EXCEPT ![p] = [page[p] EXCEPT !.busy = TRUE]]
      BY <2>3 DEF ClickSwitch
    <3> QED
      BY <2>2, <2>3, <3>1, <3>2, <3>3, PostsType DEF ClickSwitch
  <2>4. CASE ClickOnSave(p, k)
    <3>1. PostOnSave(~page[p].onSave) \in Request
      BY <2>1 DEF Request, PostOnSave
    <3> QED
      BY <2>2, <2>4, <3>1, PostsType DEF ClickOnSave
  <2>5. ASSUME NEW id \in 1 .. Len(TableOf(page[p].layout)), ClickJump(p, k, id)
        PROVE  PagesTypeOK'
    <3>1. id \in Nat
      OBVIOUS
    <3>2. TableOf(page[p].layout)[id]
            \in {TableOf(layout)[i] : i \in Nat, layout \in Layout}
      BY <2>1, <3>1
    <3>3. PostJump(id, TableOf(page[p].layout)[id]) \in Request
      BY <3>1, <3>2 DEF Request, PostJump
    <3> QED
      BY <2>2, <2>5, <3>3, PostsType DEF ClickJump
  <2> QED
    BY <1>6, <2>3, <2>4, <2>5 DEF Click
<1>7. ASSUME NEW k \in Slot, Answer(p, k)
      PROVE  PagesTypeOK'
  <2>1. NoPost \in Request
    BY DEF Request
  <2>2. post' \in [Page -> [Slot -> Request]] /\ page' = page
    BY <1>7, <2>1 DEF Answer
  <2>3. CASE post[p][k].op = "on-save" /\ OnSaveCommand("request", post[p][k].on)
    <3>1. post[p][k].on \in BOOLEAN
      BY <2>3, RequestFields
    <3>2. Tell(OnSaveEvent(post[p][k].on)) \in Task
      BY <3>1 DEF Task, Event
    <3> QED
      BY <1>0, <2>2, <2>3, <3>1, <3>2 DEF OnSaveCommand, Then, streamVars
  <2>4. CASE \/ SetSwitch("request", post[p][k].switch, post[p][k].on)
             \/ Jump(post[p][k].id) \/ UNCHANGED serviceVars
    BY <2>2, <2>4 DEF SetSwitch, Jump, serviceVars, streamVars, stateVars
  <2> QED
    BY <1>7, <2>3, <2>4 DEF Answer
<1> QED
  BY <1>1, <1>2, <1>3, <1>4, <1>5, <1>6, <1>7 DEF PageStep
\* No step of the pages' model drops the senders.
LEMMA NeverCleared == PagesNext => cleared' = cleared
<1> SUFFICES ASSUME PagesNext
             PROVE  cleared' = cleared
  OBVIOUS
<1>1. CASE ServiceStep
  BY <1>1
     DEF ServiceStep, EditorCommand, FocusCommand, FollowCommand, ThemeCommand, SetSwitch,
         SavedCommand, RecomputeCommand, OnSaveCommand, FinishCommand, ThreadStep,
         Surroundings, StreamThread, StreamWrite, StreamFails, StreamEnds, PageCloses,
         stateVars
<1>2. ASSUME NEW p \in Page, PageStep(p)
      PROVE  cleared' = cleared
  BY <1>2
     DEF PageStep, Fetch, PageMode, Fetched, PageServed, Connect, Events, ConnectionLost,
         PageCloses, Deliver, Reload, StreamWrite, Click, Answer, SetSwitch,
         OnSaveCommand, Jump, serviceVars, stateVars
<1> QED
  BY <1>1, <1>2 DEF PagesNext

\* The steps of the service leave the connections of the pages alone.
LEMMA ServiceKeepsConnections ==
  ASSUME BaseInv, ServiceStep, NEW p \in Page, Live(p)
  PROVE  page' = page /\ stream'[page[p].stream] = stream[page[p].stream]
<1> USE DEF BaseInv, StreamsInv
<1>1. page' = page
  BY DEF ServiceStep, pageVars
<1>2. CASE \/ EditorCommand \/ ThreadStep \/ Surroundings
           \/ \E t \in Thread : FinishCommand(t)
  <2>1. stream' = stream
    BY <1>2
       DEF EditorCommand, FocusCommand, FollowCommand, ThemeCommand, SetSwitch,
           SavedCommand, RecomputeCommand, OnSaveCommand, FinishCommand, ThreadStep,
           Surroundings, streamVars
  <2> QED
    BY <1>1, <2>1
<1>3. ASSUME NEW s \in Stream \ {page[q].stream : q \in Page},
             StreamThread(s) \/ PageCloses(s)
      PROVE  stream'[page[p].stream] = stream[page[p].stream]
  <2>1. s # page[p].stream
    OBVIOUS
  <2>2. stream' = stream \/ \E state : stream' = [stream EXCEPT ![s] = state]
    BY <1>3 DEF StreamThread, StreamWrite, StreamFails, StreamEnds, PageCloses
  <2>3. page[p].stream \in Stream
    BY DEF ConnectionsInv
  <2> QED
    BY <2>1, <2>2, <2>3
<1> QED
  BY <1>1, <1>2, <1>3 DEF ServiceStep

\* Connections that are left alone, or given up, stay distinct.
LEMMA KeptConnections ==
  ASSUME ConnectionsInv,
         \A p \in Page : Live(p)' =>
           /\ Live(p)
           /\ page'[p].stream = page[p].stream
           /\ stream'[page[p].stream] = stream[page[p].stream]
  PROVE  ConnectionsInv'
<1> SUFFICES ASSUME NEW p \in Page, Live(p)'
             PROVE  /\ page'[p].stream \in Stream
                    /\ stream'[page'[p].stream] = "open"
                    /\ \A q \in Page \ {p} :
                         Live(q)' => page'[q].stream # page'[p].stream
  BY DEF ConnectionsInv
<1> QED
  BY DEF ConnectionsInv

\* A page that connects takes a fresh stream; one that leaves closes its own.
LEMMA ConnectionsStep == BaseInv /\ PagesNext => ConnectionsInv'
<1> SUFFICES ASSUME BaseInv, PagesNext
             PROVE  ConnectionsInv'
  OBVIOUS
<1> USE DEF BaseInv, PagesTypeOK, StreamsInv, ConnectionsInv, Live
<1>1. CASE ServiceStep
  <2>1. page' = page
    BY <1>1 DEF ServiceStep, pageVars
  <2> QED
    BY <1>1, <2>1, ServiceKeepsConnections, KeptConnections
<1>2. ASSUME NEW p \in Page, PageStep(p)
      PROVE  ConnectionsInv'
  <2>1. CASE Fetch(p) \/ \E k \in Slot : Answer(p, k)
    <3>1. page' = page /\ stream' = stream
      BY <2>1
         DEF Fetch, PageMode, Answer, SetSwitch, OnSaveCommand, Jump, serviceVars,
             streamVars
    <3> QED
      BY <3>1
  <2>2. CASE Fetched(p)
    BY <2>2 DEF Fetched, PageServed, streamVars
  <2>3. CASE Connect(p)
    <3>1. PICK s \in Stream :
            /\ Events(s)
            /\ page' = [page EXCEPT ![p].at = "live", ![p].stream = s,
                                    ![p].missed = MissedBy(p)]
      BY <2>3 DEF Connect
    <3>2. stream[s] = "none" /\ stream' = [stream EXCEPT ![s] = "open"]
      BY <3>1 DEF Events
    <3>3. page'[p].at = "live" /\ page'[p].stream = s
      BY <3>1 DEF PageRecord
    <3>4. \A q \in Page \ {p} : page'[q] = page[q]
      BY <3>1
    <3>5. \A q \in Page \ {p} : Live(q) => page[q].stream # s
      BY <3>2
    <3>6. ASSUME NEW r \in Page, Live(r)'
          PROVE  /\ page'[r].stream \in Stream
                 /\ stream'[page'[r].stream] = "open"
                 /\ \A q \in Page \ {r} :
                      Live(q)' => page'[q].stream # page'[r].stream
      <4>1. CASE r = p
        BY <3>2, <3>3, <3>4, <3>5, <4>1
      <4>2. CASE r # p
        <5>1. /\ page'[r] = page[r] /\ Live(r)
              /\ page[r].stream # s /\ page[r].stream \in Stream
          BY <3>4, <3>5, <3>6, <4>2
        <5> QED
          BY <3>2, <3>3, <3>4, <5>1
      <4> QED
        BY <4>1, <4>2
    <3> QED
      BY <3>6
  <2>4. CASE ConnectionLost(p)
    <3>1. page'[p].at = "lost" /\ \A q \in Page \ {p} : page'[q] = page[q]
      BY <2>4 DEF ConnectionLost, PageRecord
    <3>2. stream' = [stream EXCEPT ![page[p].stream] = "gone"] /\ page[p].at = "live"
      BY <2>4 DEF ConnectionLost, PageCloses
    <3>3. \A q \in Page \ {p} :
            Live(q) => stream'[page[q].stream] = stream[page[q].stream]
      BY <3>2
    <3> QED
      BY <3>1, <3>3, KeptConnections
  <2>5. CASE Deliver(p)
    <3>1. page[p] \in PageRecord /\ stream' = stream
      BY <2>5 DEF Deliver, StreamWrite
    <3>2. page' = [page EXCEPT ![p] = Handled(page[p], Head(chan[page[p].stream]))]
      BY <2>5 DEF Deliver
    <3>3. /\ Handled(page[p], Head(chan[page[p].stream])).at = page[p].at
          /\ Handled(page[p], Head(chan[page[p].stream])).stream = page[p].stream
      BY <3>1 DEF Handled, PageRecord
    <3> QED
      BY <3>1, <3>2, <3>3
  <2>6. CASE Reload(p)
    <3>1. page'[p].at = "reloading" /\ \A q \in Page \ {p} : page'[q] = page[q]
      BY <2>6 DEF Reload, PageRecord
    <3> QED
      BY <2>6, <3>1 DEF Reload, StreamWrite
  <2>7. ASSUME NEW k \in Slot, Click(p, k)
        PROVE  ConnectionsInv'
    <3>1. \A q \in Page : page'[q].at = page[q].at /\ page'[q].stream = page[q].stream
      BY <2>7 DEF Click, ClickSwitch, ClickOnSave, ClickJump, PageRecord
    <3>2. stream' = stream
      BY <2>7 DEF Click, serviceVars, streamVars
    <3> QED
      BY <3>1, <3>2, KeptConnections
  <2> QED
    BY <1>2, <2>1, <2>2, <2>3, <2>4, <2>5, <2>6, <2>7 DEF PageStep
<1> QED
  BY <1>1, <1>2 DEF PagesNext

\* So the base of the pages' invariant is kept.
LEMMA BaseStep == BaseInv /\ [PagesNext]_pagesVars => BaseInv'
<1> SUFFICES ASSUME BaseInv, PagesNext \/ UNCHANGED pagesVars
             PROVE  BaseInv'
  OBVIOUS
<1>1. [ServiceNext]_serviceVars
  BY PagesStepIsService DEF pagesVars
<1>2. RecomputeInv'
  BY <1>1, ServiceStepIsRecompute, InvStep DEF BaseInv, serviceVars
<1>3. StreamsInv'
  BY <1>1, StreamsStep DEF BaseInv
<1>4. CASE PagesNext
  <2>1. PagesTypeOK'
    BY <1>4, ServiceStepType, PageStepType DEF PagesNext
  <2> QED
    BY <1>2, <1>3, <1>4, <2>1, NeverCleared, ConnectionsStep DEF BaseInv
<1>5. CASE UNCHANGED pagesVars
  BY <1>2, <1>3, <1>5
     DEF BaseInv, PagesTypeOK, ConnectionsInv, Live, pagesVars, pageVars, serviceVars,
         streamVars, stateVars
<1> QED
  BY <1>4, <1>5

\* It holds at the start, when every page is closed.
LEMMA BaseInit == PagesInit => BaseInv
<1> SUFFICES ASSUME PagesInit
             PROVE  BaseInv
  OBVIOUS
<1> USE DEF PagesInit, ServiceInit
<1>1. RecomputeInv
  BY InvInit
<1>2. StreamsInv /\ ~cleared
  BY DEF StreamsInv, OpenStreamsAreSubscribed, StreamState
<1>3. ClosedPage(current) \in PageRecord
  BY <1>1, CurrentType DEF ClosedPage, PageRecord, KnownMode
<1>4. exec \in [Thread -> Task] /\ post \in [Page -> [Slot -> Request]]
  BY DEF Task, Request
<1>5. chan \in [Stream -> Seq(Event)]
  BY EmptySeq
<1>6. PagesTypeOK
  BY <1>3, <1>4, <1>5 DEF PagesTypeOK, KnownMode
<1>7. ConnectionsInv
  BY DEF ConnectionsInv, Live, ClosedPage
<1> QED
  BY <1>1, <1>2, <1>6, <1>7 DEF BaseInv

-----------------------------------------------------------------------------
(***************************************************************************)
(* Queues. `Pending` is an event of a kind still to come, and `LastIs`     *)
(* says what the last one of its kind is, if there is one.                 *)
(***************************************************************************)
Pending(queue, kind) == \E i \in 1 .. Len(queue) : queue[i].kind = kind
LastIs(queue, report) ==
  \A i \in 1 .. Len(queue) :
    (queue[i].kind = report.kind
       /\ \A j \in i + 1 .. Len(queue) : queue[j].kind # report.kind)
    => queue[i] = report

\* A queue's new last event pends, and so does what pended before.
LEMMA AppendPends ==
  ASSUME NEW queue \in Seq(Event), NEW report \in Event, NEW kind
  PROVE  Pending(Append(queue, report), kind)
           <=> Pending(queue, kind) \/ report.kind = kind
BY AppendProperties DEF Pending

\* An event of another kind leaves the last one of its kind the last.
LEMMA AppendOther ==
  ASSUME NEW queue \in Seq(Event), NEW report \in Event, NEW last,
         LastIs(queue, last), report.kind # last.kind
  PROVE  LastIs(Append(queue, report), last)
<1> DEFINE longer == Append(queue, report)
<1>1. /\ Len(queue) \in Nat
      /\ Len(longer) = Len(queue) + 1
      /\ \A i \in 1 .. Len(queue) : longer[i] = queue[i]
      /\ longer[Len(queue) + 1] = report
  BY AppendProperties, LenProperties
<1> SUFFICES ASSUME NEW i \in 1 .. Len(longer), longer[i].kind = last.kind,
                    \A j \in i + 1 .. Len(longer) : longer[j].kind # last.kind
             PROVE  longer[i] = last
  BY DEF LastIs
<1>2. i \in 1 .. Len(queue)
  BY <1>1
<1>3. \A j \in i + 1 .. Len(queue) : queue[j].kind # last.kind
  BY <1>1, <1>2
<1> QED
  BY <1>1, <1>2, <1>3 DEF LastIs

\* The event just appended is the last of its kind.
LEMMA AppendLast ==
  ASSUME NEW queue \in Seq(Event), NEW report \in Event
  PROVE  LastIs(Append(queue, report), report)
<1> DEFINE longer == Append(queue, report)
<1>1. /\ Len(queue) \in Nat
      /\ Len(longer) = Len(queue) + 1
      /\ longer[Len(queue) + 1] = report
  BY AppendProperties, LenProperties
<1> SUFFICES ASSUME NEW i \in 1 .. Len(longer),
                    \A j \in i + 1 .. Len(longer) : longer[j].kind # report.kind
             PROVE  longer[i] = report
  BY DEF LastIs
<1>2. i = Len(queue) + 1
  BY <1>1
<1> QED
  BY <1>1, <1>2

\* An event still pends when the first one, of another kind, is taken.
LEMMA TailPends ==
  ASSUME NEW queue \in Seq(Event), queue # <<>>, NEW kind, Head(queue).kind # kind
  PROVE  Pending(queue, kind) => Pending(Tail(queue), kind)
<1>1. /\ Len(queue) \in Nat \ {0}
      /\ Len(Tail(queue)) = Len(queue) - 1
      /\ \A i \in 1 .. Len(Tail(queue)) : Tail(queue)[i] = queue[i + 1]
      /\ Head(queue) = queue[1]
  BY EmptySeq, HeadTailProperties
<1> SUFFICES ASSUME NEW i \in 1 .. Len(queue), queue[i].kind = kind
             PROVE  Pending(Tail(queue), kind)
  BY DEF Pending
<1>2. i - 1 \in 1 .. Len(Tail(queue)) /\ Tail(queue)[i - 1] = queue[i]
  BY <1>1
<1> QED
  BY <1>2 DEF Pending

\* The last event of a kind stays the last until it is itself the first.
LEMMA TailKeeps ==
  ASSUME NEW queue \in Seq(Event), queue # <<>>, NEW last
  PROVE  /\ LastIs(queue, last) => LastIs(Tail(queue), last)
         /\ LastIs(queue, last) /\ Head(queue).kind = last.kind
              => Pending(Tail(queue), last.kind) \/ Head(queue) = last
<1>1. /\ Len(queue) \in Nat \ {0}
      /\ Len(Tail(queue)) = Len(queue) - 1
      /\ \A i \in 1 .. Len(Tail(queue)) : Tail(queue)[i] = queue[i + 1]
      /\ Head(queue) = queue[1]
  BY EmptySeq, HeadTailProperties
<1>2. ASSUME LastIs(queue, last)
      PROVE  LastIs(Tail(queue), last)
  <2> SUFFICES ASSUME NEW i \in 1 .. Len(Tail(queue)), Tail(queue)[i].kind = last.kind,
                      \A j \in i + 1 .. Len(Tail(queue)) : Tail(queue)[j].kind # last.kind
               PROVE  Tail(queue)[i] = last
    BY DEF LastIs
  <2>1. i + 1 \in 1 .. Len(queue) /\ queue[i + 1].kind = last.kind
    BY <1>1
  <2>2. ASSUME NEW j \in (i + 1) + 1 .. Len(queue)
        PROVE  queue[j].kind # last.kind
    <3>1. j - 1 \in i + 1 .. Len(Tail(queue)) /\ Tail(queue)[j - 1] = queue[j]
      BY <1>1
    <3> QED
      BY <3>1
  <2> QED
    BY <1>1, <1>2, <2>1, <2>2 DEF LastIs
<1>3. ASSUME LastIs(queue, last), Head(queue).kind = last.kind,
             ~Pending(Tail(queue), last.kind)
      PROVE  Head(queue) = last
  <2>1. ASSUME NEW j \in 1 + 1 .. Len(queue)
        PROVE  queue[j].kind # last.kind
    <3>1. j - 1 \in 1 .. Len(Tail(queue)) /\ Tail(queue)[j - 1] = queue[j]
      BY <1>1
    <3> QED
      BY <1>3, <3>1 DEF Pending
  <2> QED
    BY <1>1, <1>3, <2>1 DEF LastIs
<1> QED
  BY <1>2, <1>3

-----------------------------------------------------------------------------
(***************************************************************************)
(* What a step means to one page: an event is broadcast, or the page takes *)
(* a step of its own, or nothing of it and of its queue changes.           *)
(***************************************************************************)
Heard(p) == chan[page[p].stream]

Tells(report) ==
  /\ report \in Event
  /\ SendAll(report)
  /\ UNCHANGED pageVars
  /\ \/ \E on \in BOOLEAN : FollowCommand("stdin", on) /\ report = FollowEvent(on)
     \/ \E t \in Thread :
          FinishCommand(t) /\ exec[t].op = "tell" /\ report = exec[t].report
     \/ ThreadStep /\ pc = "broadcast" /\ report = Outcome

QuietStep ==
  /\ UNCHANGED pageVars
  /\ \/ FocusCommand("stdin")
     \/ \E mode \in Mode : ThemeCommand("stdin", mode)
     \/ \E switch \in Switch, on \in BOOLEAN : SetSwitch("stdin", switch, on)
     \/ SavedCommand("stdin")
     \/ RecomputeCommand("stdin")
     \/ "on-save" \in EditorSends /\ \E on \in BOOLEAN : OnSaveCommand("stdin", on)
     \/ \E t \in Thread : FinishCommand(t) /\ exec[t] = Rerun
     \/ ThreadStep /\ pc # "broadcast"
     \/ Surroundings
     \/ \E s \in Stream \ {page[p].stream : p \in Page} : StreamThread(s) \/ PageCloses(s)

\* A step of the service is quiet or tells every page one event.
LEMMA ServiceCases ==
  ASSUME BaseInv, ServiceStep
  PROVE  QuietStep \/ \E report : Tells(report)
<1> USE DEF BaseInv, PagesTypeOK
<1>1. UNCHANGED pageVars
  BY DEF ServiceStep
<1>2. ASSUME NEW on \in BOOLEAN, FollowCommand("stdin", on)
      PROVE  Tells(FollowEvent(on))
  BY <1>1, <1>2 DEF FollowCommand, Tells, Event
<1>3. ASSUME NEW t \in Thread, FinishCommand(t), exec[t].op = "tell"
      PROVE  Tells(exec[t].report)
  <2>1. exec[t].report \in Event /\ exec[t] # Rerun
    BY <1>3, TaskFields DEF Rerun
  <2>2. SendAll(exec[t].report)
    BY <1>3, <2>1 DEF FinishCommand
  <2> QED
    BY <1>1, <1>3, <2>1, <2>2 DEF Tells
<1>4. ASSUME ThreadStep, pc = "broadcast"
      PROVE  Tells(Outcome)
  BY <1>1, <1>4, OutcomeType DEF ThreadStep, Tells
<1>5. \A t \in Thread : FinishCommand(t) => exec[t].op = "tell" \/ exec[t] = Rerun
  BY DEF FinishCommand
<1> QED
  BY <1>1, <1>2, <1>3, <1>4, <1>5 DEF ServiceStep, EditorCommand, QuietStep

\* A broadcast reaches every live page.
LEMMA LivePagesHear ==
  ASSUME BaseInv, NEW report, Tells(report), NEW p \in Page, Live(p)
  PROVE  /\ page' = page
         /\ Heard(p) \in Seq(Event)
         /\ Heard(p)' = Append(Heard(p), report)
<1> USE DEF BaseInv, PagesTypeOK, ConnectionsInv
<1>1. page' = page
  BY DEF Tells, pageVars
<1>2. page[p].stream \in Stream /\ stream[page[p].stream] = "open"
  OBVIOUS
<1>3. page[p].stream \in subscribers
  BY <1>2 DEF StreamsInv, OpenStreamsAreSubscribed
<1> QED
  BY <1>1, <1>2, <1>3 DEF Tells, SendAll, Heard

\* No other step of the service touches the queue of a live page.
LEMMA QuietStepKeeps ==
  ASSUME BaseInv, QuietStep, NEW p \in Page
  PROVE  page' = page /\ (Live(p) => Heard(p)' = Heard(p))
<1> USE DEF BaseInv, PagesTypeOK, ConnectionsInv
<1>1. page' = page
  BY DEF QuietStep, pageVars
<1>2. ASSUME NEW s \in Stream \ {page[q].stream : q \in Page},
             StreamThread(s) \/ PageCloses(s), Live(p)
      PROVE  chan'[page[p].stream] = chan[page[p].stream]
  <2>1. s # page[p].stream
    OBVIOUS
  <2>2. chan' = chan \/ \E queue : chan' = [chan EXCEPT ![s] = queue]
    BY <1>2 DEF StreamThread, StreamWrite, StreamFails, StreamEnds, PageCloses
  <2> QED
    BY <1>2, <2>1, <2>2
<1>3. CASE \/ FocusCommand("stdin")
           \/ \E mode \in Mode : ThemeCommand("stdin", mode)
           \/ \E switch \in Switch, on \in BOOLEAN : SetSwitch("stdin", switch, on)
           \/ SavedCommand("stdin")
           \/ RecomputeCommand("stdin")
           \/ \E on \in BOOLEAN : OnSaveCommand("stdin", on)
           \/ \E t \in Thread : FinishCommand(t) /\ exec[t] = Rerun
           \/ ThreadStep /\ pc # "broadcast"
           \/ Surroundings
  <2>1. chan' = chan
    BY <1>3
       DEF FocusCommand, ThemeCommand, SetSwitch, SavedCommand, RecomputeCommand,
           OnSaveCommand, FinishCommand, ThreadStep, Surroundings, streamVars, Rerun
  <2> QED
    BY <1>1, <2>1 DEF Heard
<1> QED
  BY <1>1, <1>2, <1>3 DEF QuietStep, Heard

\* A page's step leaves the others and their queues alone.
LEMMA PageStepKeepsOthers ==
  ASSUME BaseInv, NEW p \in Page, PageStep(p), NEW q \in Page \ {p}
  PROVE  /\ page'[q] = page[q] /\ post'[q] = post[q]
         /\ Live(q) => Heard(q)' = Heard(q)
<1> USE DEF BaseInv, PagesTypeOK, ConnectionsInv, Live, StreamsInv
<1>1. page'[q] = page[q] /\ post'[q] = post[q]
  BY DEF PageStep, Fetch, Fetched, Connect, ConnectionLost, Deliver, Reload, Click,
         ClickSwitch, ClickOnSave, ClickJump, Posts, Answer
<1>2. CASE Connect(p)
  <2>1. PICK s \in Stream : Events(s)
    BY <1>2 DEF Connect
  <2>2. Live(q) => s # page[q].stream
    BY <2>1 DEF Events
  <2> QED
    BY <1>1, <2>1, <2>2 DEF Events, Heard
<1>3. CASE Deliver(p) \/ Reload(p)
  <2>1. chan' = [chan EXCEPT ![page[p].stream] = Tail(@)] /\ Live(p)
    BY <1>3 DEF Deliver, Reload, StreamWrite
  <2> QED
    BY <1>1, <2>1 DEF Heard
<1>4. CASE \/ Fetch(p) \/ Fetched(p) \/ ConnectionLost(p)
           \/ \E k \in Slot : Click(p, k) \/ Answer(p, k)
  <2>1. chan' = chan
    BY <1>4
       DEF Fetch, PageMode, Fetched, PageServed, ConnectionLost, PageCloses, Click,
           Answer, SetSwitch, OnSaveCommand, Jump, serviceVars, streamVars
  <2> QED
    BY <1>1, <2>1 DEF Heard
<1> QED
  BY <1>2, <1>3, <1>4 DEF PageStep
\* A page that has connected starts with the state of the on-save button.
LEMMA ConnectedPage ==
  ASSUME BaseInv, NEW p \in Page, Connect(p)
  PROVE  /\ page'[p].missed = MissedBy(p)
         /\ page'[p].layout = page[p].layout /\ page'[p].mode = page[p].mode
         /\ page'[p].busy = page[p].busy
         /\ Heard(p)' = <<OnSaveEvent(onSave)>>
         /\ UNCHANGED <<recomputeVars, exec, onSave, editorMode, post>>
<1> USE DEF BaseInv, PagesTypeOK
<1>1. PICK s \in Stream :
        /\ Events(s)
        /\ page' = [page EXCEPT ![p].at = "live", ![p].stream = s,
                                ![p].missed = MissedBy(p)]
  BY DEF Connect
<1>2. page'[p] = [page[p] EXCEPT !.at = "live", !.stream = s, !.missed = MissedBy(p)]
  BY <1>1
<1>3. page[p] \in PageRecord
  OBVIOUS
<1>4. /\ page'[p].missed = MissedBy(p) /\ page'[p].stream = s
      /\ page'[p].layout = page[p].layout /\ page'[p].mode = page[p].mode
      /\ page'[p].busy = page[p].busy
  BY <1>2, <1>3 DEF PageRecord
<1> QED
  BY <1>1, <1>4 DEF Connect, Events, Heard, stateVars

\* A page that handles an event has taken it off its queue.
LEMMA DeliveredPage ==
  ASSUME BaseInv, NEW p \in Page, Deliver(p)
  PROVE  /\ Live(p)
         /\ Heard(p) \in Seq(Event) /\ Heard(p) # <<>> /\ Heard(p)' = Tail(Heard(p))
         /\ Head(Heard(p)).kind # "analysis"
         /\ page'[p].missed = page[p].missed /\ page'[p].layout = page[p].layout
         /\ page'[p].mode = IF Head(Heard(p)).kind = "theme"
                            THEN Head(Heard(p)).mode ELSE page[p].mode
         /\ page'[p].onSave = IF Head(Heard(p)).kind = "on-save"
                              THEN Head(Heard(p)).on ELSE page[p].onSave
         /\ page'[p].busy = IF Head(Heard(p)).kind = "analysis-error"
                            THEN FALSE ELSE page[p].busy
         /\ UNCHANGED <<recomputeVars, exec, onSave, editorMode, post>>
<1> USE DEF BaseInv, PagesTypeOK
<1>1. page[p].stream \in Stream /\ page[p] \in PageRecord /\ Live(p)
  BY DEF Deliver, ConnectionsInv, Live
<1>2. /\ page'[p] = Handled(page[p], Head(Heard(p)))
      /\ Heard(p) # <<>> /\ Head(Heard(p)).kind # "analysis"
      /\ chan' = [chan EXCEPT ![page[p].stream] = Tail(Heard(p))]
      /\ UNCHANGED <<recomputeVars, exec, onSave, editorMode, post>>
  BY DEF Deliver, StreamWrite, Heard, stateVars
<1>3. page'[p].stream = page[p].stream
  BY <1>1, <1>2 DEF Handled, PageRecord
<1>4. Heard(p) \in Seq(Event) /\ Heard(p)' = Tail(Heard(p))
  BY <1>1, <1>2, <1>3 DEF Heard
<1>5. /\ page'[p].missed = page[p].missed /\ page'[p].layout = page[p].layout
      /\ page'[p].mode = IF Head(Heard(p)).kind = "theme"
                         THEN Head(Heard(p)).mode ELSE page[p].mode
      /\ page'[p].onSave = IF Head(Heard(p)).kind = "on-save"
                           THEN Head(Heard(p)).on ELSE page[p].onSave
      /\ page'[p].busy = IF Head(Heard(p)).kind = "analysis-error"
                         THEN FALSE ELSE page[p].busy
  BY <1>1, <1>2 DEF Handled, PageRecord
<1> QED
  BY <1>1, <1>2, <1>4, <1>5

\* A click changes nothing of a page but its busy button, and drops no request.
LEMMA ClickedPage ==
  ASSUME BaseInv, NEW p \in Page, NEW k \in Slot, Click(p, k)
  PROVE  /\ Live(p)' => Live(p)
         /\ page'[p].missed = page[p].missed /\ page'[p].layout = page[p].layout
         /\ page'[p].mode = page[p].mode /\ page'[p].onSave = page[p].onSave
         /\ page'[p].busy # page[p].busy => post'[p][k].op = "switch"
         /\ \A other \in Slot :
              post[p][other].op = "switch" => post'[p][other].op = "switch"
         /\ Heard(p)' = Heard(p)
         /\ UNCHANGED serviceVars
<1> USE DEF BaseInv, PagesTypeOK
<1>1. UNCHANGED serviceVars /\ chan' = chan /\ page[p] \in PageRecord
  BY DEF Click, Clickable, serviceVars, streamVars
<1>2. PICK request : Posts(p, k, request)
  BY DEF Click, ClickSwitch, ClickOnSave, ClickJump
<1>3. \A other \in Slot : post[p][other].op = "switch" => post'[p][other].op = "switch"
  BY <1>2 DEF Posts, NoPost
<1>4. CASE \E switch \in Switch : ClickSwitch(p, k, switch)
  <2>1. page'[p] = [page[p] EXCEPT !.busy = TRUE] /\ post'[p][k].op = "switch"
    BY <1>4 DEF ClickSwitch, Posts, PostSwitch
  <2>2. /\ page'[p].at = page[p].at /\ page'[p].stream = page[p].stream
        /\ page'[p].missed = page[p].missed /\ page'[p].layout = page[p].layout
        /\ page'[p].mode = page[p].mode /\ page'[p].onSave = page[p].onSave
    BY <1>1, <2>1 DEF PageRecord
  <2> QED
    BY <1>1, <1>3, <2>1, <2>2 DEF Live, Heard
<1>5. CASE page' = page
  BY <1>1, <1>3, <1>5 DEF Live, Heard
<1> QED
  BY <1>4, <1>5 DEF Click, ClickOnSave, ClickJump

\* An answer changes nothing of a page and ends one request; it tells the
\* pages nothing yet.
LEMMA AnsweredPage ==
  ASSUME BaseInv, NEW p \in Page, NEW k \in Slot, Answer(p, k)
  PROVE  /\ page' = page /\ Heard(p)' = Heard(p)
         /\ \A other \in Slot \ {k} : post'[p][other] = post[p][other]
BY DEF Answer, SetSwitch, OnSaveCommand, Jump, serviceVars, streamVars, Heard,
       BaseInv, PagesTypeOK

\* These are the steps of its own after which a page is live.
LEMMA LivePageSteps ==
  ASSUME BaseInv, NEW p \in Page, PageStep(p), Live(p)'
  PROVE  Connect(p) \/ Deliver(p) \/ \E k \in Slot : Click(p, k) \/ Answer(p, k)
<1> USE DEF BaseInv, PagesTypeOK, Live
<1>1. ~Fetch(p)
  BY DEF Fetch
<1>2. ~Fetched(p)
  BY DEF Fetched, ClosedPage
<1>3. ~ConnectionLost(p)
  BY DEF ConnectionLost, PageRecord
<1>4. ~Reload(p)
  BY DEF Reload, PageRecord
<1> QED
  BY <1>1, <1>2, <1>3, <1>4 DEF PageStep

-----------------------------------------------------------------------------
(***************************************************************************)
(* The pages hear of every swap.                                           *)
(***************************************************************************)
\* What the recomputation does in a step that is no broadcast.
LEMMA QuietRecompute ==
  ASSUME QuietStep \/ \E p \in Page : PageStep(p)
  PROVE  \/ UNCHANGED recomputeVars
         \/ \E switch, on : SwitchCommand(switch, on)
         \/ RequestRerun
         \/ Edit
         \/ SpuriousWake
         \/ RecomputeThread /\ pc # "broadcast"
<1>1. CASE QuietStep
  BY <1>1
     DEF QuietStep, FocusCommand, ThemeCommand, SetSwitch, SavedCommand, RecomputeCommand,
         OnSaveCommand, FinishCommand, ThreadStep, Surroundings, StreamThread,
         StreamWrite, StreamFails, StreamEnds, PageCloses, Rerun
<1>2. ASSUME NEW p \in Page, PageStep(p)
      PROVE  UNCHANGED recomputeVars \/ \E switch, on : SwitchCommand(switch, on)
  BY <1>2
     DEF PageStep, Fetch, PageMode, Fetched, PageServed, Connect, Events, ConnectionLost,
         PageCloses, Deliver, Reload, StreamWrite, Click, Answer, SetSwitch,
         OnSaveCommand, Jump, serviceVars
<1> QED
  BY <1>1, <1>2

\* A run that has been swapped in is told before the next is.
LEMMA SwapIsTold ==
  ASSUME BaseInv, QuietStep \/ \E p \in Page : PageStep(p)
  PROVE  /\ AnalysisToCome => AnalysisToCome'
         /\ current' = current \/ AnalysisToCome'
<1> USE DEF AnalysisToCome
<1>1. CASE UNCHANGED recomputeVars
  BY <1>1 DEF recomputeVars
<1>2. CASE \/ \E switch, on : SwitchCommand(switch, on)
           \/ RequestRerun \/ Edit \/ SpuriousWake
  BY <1>2 DEF SwitchCommand, RequestRerun, Edit, SpuriousWake, NotifyAll, threadVars
<1>3. CASE RecomputeThread /\ pc # "broadcast"
  <2>1. CASE Swap
    BY <2>1 DEF Swap, BaseInv, RecomputeInv, SwappedPageIsFresh
  <2>2. CASE ~Swap
    BY <1>3, <2>2
       DEF RecomputeThread, Park, Return, Take, Skip, StartAnalysis, Analyse,
           AnalyseFails, Broadcast, WriteReport
  <2> QED
    BY <2>1, <2>2
<1> QED
  BY <1>1, <1>2, <1>3, QuietRecompute

\* Every step keeps: a page shows the current layout or will reload.
LEMMA ReloadStep ==
  ASSUME BaseInv, ConnectedPageReloads, PagesNext
  PROVE  ConnectedPageReloads'
<1> SUFFICES ASSUME NEW q \in Page, Live(q)', "analysis" \notin page'[q].missed
             PROVE  \/ page'[q].layout = current' \/ AnalysisToCome'
                    \/ Pending(Heard(q), "analysis")'
  BY DEF ConnectedPageReloads, Reloads, Waiting, Pending, Heard
<1>0. Live(q) /\ "analysis" \notin page[q].missed =>
        \/ page[q].layout = current \/ AnalysisToCome
        \/ Pending(Heard(q), "analysis")
  BY DEF ConnectedPageReloads, Reloads, Waiting, Pending, Heard
<1>1. ASSUME NEW report, Tells(report)
      PROVE  \/ page'[q].layout = current' \/ AnalysisToCome'
             \/ Pending(Heard(q), "analysis")'
  <2>1. page' = page /\ Live(q) /\ report \in Event
    BY <1>1 DEF Tells, pageVars, Live
  <2>2. Heard(q) \in Seq(Event) /\ Heard(q)' = Append(Heard(q), report)
    BY <1>1, <2>1, LivePagesHear
  <2>3. Pending(Heard(q), "analysis")'
          <=> Pending(Heard(q), "analysis") \/ report.kind = "analysis"
    BY <2>1, <2>2, AppendPends DEF Pending
  <2>4. CASE UNCHANGED recomputeVars
    BY <1>0, <2>1, <2>3, <2>4 DEF recomputeVars, AnalysisToCome
  <2>5. CASE ThreadStep /\ pc = "broadcast" /\ report = Outcome
    <3>1. current' = current
      BY <2>5
         DEF ThreadStep, RecomputeThread, Park, Return, Take, Skip, StartAnalysis,
             Analyse, AnalyseFails, Swap, Broadcast, WriteReport
    <3>2. AnalysisToCome => report.kind = "analysis"
      BY <2>5 DEF AnalysisToCome, Outcome, Analysis
    <3> QED
      BY <1>0, <2>1, <2>3, <3>1, <3>2
  <2>6. ASSUME NEW t \in Thread, FinishCommand(t), exec[t].op = "tell"
        PROVE  UNCHANGED recomputeVars
    BY <2>6 DEF FinishCommand, Rerun
  <2> QED
    BY <1>1, <2>4, <2>5, <2>6 DEF Tells, FollowCommand
<1>2. ASSUME page'[q] = page[q], Heard(q)' = Heard(q), Live(q),
             QuietStep \/ \E p \in Page : PageStep(p)
      PROVE  \/ page'[q].layout = current' \/ AnalysisToCome'
             \/ Pending(Heard(q), "analysis")'
  BY <1>0, <1>2, SwapIsTold DEF Pending
<1>3. CASE QuietStep
  <2>1. page' = page /\ Live(q)
    BY <1>3, QuietStepKeeps DEF Live
  <2> QED
    BY <1>2, <1>3, <2>1, QuietStepKeeps
<1>4. ASSUME NEW p \in Page, PageStep(p)
      PROVE  \/ page'[q].layout = current' \/ AnalysisToCome'
             \/ Pending(Heard(q), "analysis")'
  <2>1. CASE p # q
    <3>1. page'[q] = page[q] /\ Live(q)
      BY <1>4, <2>1, PageStepKeepsOthers DEF Live
    <3> QED
      BY <1>2, <1>4, <2>1, <3>1, PageStepKeepsOthers
  <2>2. CASE Connect(q)
    <3>1. page'[q].layout # current => AnalysisToCome
      BY <2>2, ConnectedPage DEF MissedBy
    <3> QED
      BY <2>2, <3>1, ConnectedPage DEF recomputeVars, AnalysisToCome
  <2>3. CASE Deliver(q)
    <3>1. Pending(Heard(q), "analysis") => Pending(Heard(q), "analysis")'
      <4>1. Pending(Heard(q), "analysis") => Pending(Tail(Heard(q)), "analysis")
        BY <2>3, DeliveredPage, TailPends
      <4> QED
        BY <2>3, <4>1, DeliveredPage DEF Pending
    <3> QED
      BY <1>0, <2>3, <3>1, DeliveredPage DEF recomputeVars, AnalysisToCome
  <2>4. CASE \E k \in Slot : Click(q, k)
    BY <1>0, <2>4, ClickedPage DEF serviceVars, recomputeVars, AnalysisToCome, Pending
  <2>5. CASE \E k \in Slot : Answer(q, k)
    <3>1. page'[q] = page[q] /\ Live(q)
      BY <2>5, AnsweredPage DEF Live
    <3> QED
      BY <1>2, <1>4, <2>5, <3>1, AnsweredPage
  <2> QED
    BY <1>4, <2>1, <2>2, <2>3, <2>4, <2>5, LivePageSteps
<1> QED
  BY <1>1, <1>3, <1>4, ServiceCases DEF PagesNext
-----------------------------------------------------------------------------
(***************************************************************************)
(* The pages follow the editor's mode: the last theme event on its way is  *)
(* the mode the editor sent last, unless one is still to be broadcast.     *)
(***************************************************************************)
ModeIsTold ==
  /\ ModeToCome => exec["stdin"].report = ThemeEvent(editorMode)
  /\ exec["request"].op = "tell" => exec["request"].report.kind # "theme"

PageKnowsMode(p) ==
  /\ LastIs(Heard(p), ThemeEvent(editorMode))
  /\ "theme" \notin page[p].missed /\ page[p].mode # editorMode
       => Pending(Heard(p), "theme")

ModeInv == ModeIsTold /\ \A p \in Page : Live(p) => ModeToCome \/ PageKnowsMode(p)

\* A mode that comes is told; while none is to come it stays what it was.
LEMMA QuietMode ==
  ASSUME BaseInv, ModeIsTold, QuietStep \/ \E p \in Page : PageStep(p)
  PROVE  /\ ModeIsTold'
         /\ ModeToCome' \/ (~ModeToCome /\ editorMode' = editorMode)
<1> USE DEF ModeIsTold, ModeToCome, BaseInv, PagesTypeOK
<1>0. "stdin" \in Thread /\ "request" \in Thread /\ Thread = {"stdin", "request"}
  BY DEF Thread
<1>1. CASE UNCHANGED <<exec, editorMode>>
  BY <1>1
<1>2. ASSUME NEW t \in Thread, NEW task, exec[t].op # "tell", Then(t, task),
             task.op = "tell" => task.report.kind # "theme", editorMode' = editorMode
      PROVE  /\ ModeIsTold'
             /\ ModeToCome' \/ (~ModeToCome /\ editorMode' = editorMode)
  BY <1>0, <1>2 DEF Then
<1>3. ASSUME NEW mode \in Mode, ThemeCommand("stdin", mode)
      PROVE  /\ ModeIsTold'
             /\ ModeToCome' \/ (~ModeToCome /\ editorMode' = editorMode)
  <2>1. exec["stdin"] = Idle /\ editorMode' = mode
    BY <1>3 DEF ThemeCommand, Executes
  <2>2. exec' = [exec EXCEPT !["stdin"] =
                   IF editorMode # mode THEN Tell(ThemeEvent(mode)) ELSE Idle]
    BY <1>3 DEF ThemeCommand, Then
  <2> QED
    BY <1>0, <2>1, <2>2 DEF Idle, Tell, ThemeEvent
<1>4. CASE QuietStep
  <2>1. CASE FocusCommand("stdin")
    <3>1. Tell(FocusEvent(current)).report.kind # "theme"
      BY DEF Tell, FocusEvent
    <3>2. exec["stdin"].op # "tell" /\ Then("stdin", Tell(FocusEvent(current)))
      BY <2>1 DEF FocusCommand, Executes, Idle
    <3>3. editorMode' = editorMode
      BY <2>1 DEF FocusCommand, stateVars
    <3> QED
      BY <1>0, <1>2, <3>1, <3>2, <3>3
  <2>2. CASE SavedCommand("stdin")
    <3>1. Rerun.op # "tell"
      BY DEF Rerun
    <3>2. exec["stdin"].op # "tell" /\ Then("stdin", Rerun) /\ editorMode' = editorMode
      BY <2>2 DEF SavedCommand, Executes, Idle, stateVars
    <3> QED
      BY <1>0, <1>2, <3>1, <3>2
  <2>3. ASSUME NEW on \in BOOLEAN, OnSaveCommand("stdin", on)
        PROVE  /\ ModeIsTold'
               /\ ModeToCome' \/ (~ModeToCome /\ editorMode' = editorMode)
    <3>1. Tell(OnSaveEvent(on)).report.kind # "theme"
      BY DEF Tell, OnSaveEvent
    <3>2. /\ exec["stdin"].op # "tell" /\ Then("stdin", Tell(OnSaveEvent(on)))
          /\ editorMode' = editorMode
      BY <2>3 DEF OnSaveCommand, Executes, Idle
    <3> QED
      BY <1>0, <1>2, <3>1, <3>2
  <2>4. ASSUME NEW t \in Thread, FinishCommand(t), exec[t] = Rerun
        PROVE  /\ ModeIsTold'
               /\ ModeToCome' \/ (~ModeToCome /\ editorMode' = editorMode)
    <3>1. Idle.op # "tell" /\ exec[t].op # "tell"
      BY <2>4 DEF Idle, Rerun
    <3>2. Then(t, Idle) /\ editorMode' = editorMode
      BY <2>4 DEF FinishCommand, stateVars
    <3> QED
      BY <1>2, <3>1, <3>2
  <2>5. CASE \/ \E switch \in Switch, on \in BOOLEAN : SetSwitch("stdin", switch, on)
             \/ RecomputeCommand("stdin")
             \/ ThreadStep /\ pc # "broadcast"
             \/ Surroundings
             \/ \E s \in Stream : StreamThread(s) \/ PageCloses(s)
    BY <1>1, <2>5
       DEF SetSwitch, RecomputeCommand, ThreadStep, Surroundings, StreamThread,
           StreamWrite, StreamFails, StreamEnds, PageCloses, stateVars
  <2> QED
    BY <1>3, <1>4, <2>1, <2>2, <2>3, <2>4, <2>5 DEF QuietStep
<1>5. ASSUME NEW p \in Page, PageStep(p)
      PROVE  /\ ModeIsTold'
             /\ ModeToCome' \/ (~ModeToCome /\ editorMode' = editorMode)
  <2>1. CASE Fetch(p)
    <3>1. Render(editorMode).op # "tell"
      BY DEF Render
    <3>2. /\ exec["request"].op # "tell" /\ Then("request", Render(editorMode))
          /\ editorMode' = editorMode
      BY <2>1 DEF Fetch, PageMode, Serving, Idle, stateVars
    <3> QED
      BY <1>0, <1>2, <3>1, <3>2
  <2>2. CASE Fetched(p)
    <3>1. Idle.op # "tell"
      BY DEF Idle
    <3>2. exec["request"].op # "tell" /\ Then("request", Idle) /\ editorMode' = editorMode
      BY <2>2 DEF Fetched, PageServed, stateVars
    <3> QED
      BY <1>0, <1>2, <3>1, <3>2
  <2>3. ASSUME NEW on, OnSaveCommand("request", on)
        PROVE  /\ ModeIsTold'
               /\ ModeToCome' \/ (~ModeToCome /\ editorMode' = editorMode)
    <3>1. Tell(OnSaveEvent(on)).report.kind # "theme"
      BY DEF Tell, OnSaveEvent
    <3>2. /\ exec["request"].op # "tell"
          /\ Then("request", Tell(OnSaveEvent(on)))
          /\ editorMode' = editorMode
      BY <2>3 DEF OnSaveCommand, Executes, Idle
    <3> QED
      BY <1>0, <1>2, <3>1, <3>2
  <2>4. CASE \/ Connect(p) \/ ConnectionLost(p) \/ Deliver(p) \/ Reload(p)
             \/ \E k \in Slot : Click(p, k)
             \/ (\E k \in Slot : Answer(p, k)) /\ ~\E on : OnSaveCommand("request", on)
    BY <1>1, <2>4
       DEF Connect, Events, ConnectionLost, PageCloses, Deliver, Reload, StreamWrite,
           Click, Answer, SetSwitch, Jump, serviceVars, stateVars
  <2> QED
    BY <1>5, <2>1, <2>2, <2>3, <2>4 DEF PageStep
<1> QED
  BY <1>4, <1>5

\* A broadcast of a mode is of the last one.
LEMMA ToldMode ==
  ASSUME BaseInv, ModeIsTold, NEW report, Tells(report)
  PROVE  /\ ModeIsTold'
         /\ editorMode' = editorMode
         /\ \/ ModeToCome'
            \/ report = ThemeEvent(editorMode)
            \/ ~ModeToCome /\ report.kind # "theme"
<1> USE DEF ModeIsTold, ModeToCome, BaseInv, PagesTypeOK
<1>0. "stdin" \in Thread /\ "request" \in Thread /\ Thread = {"stdin", "request"}
  BY DEF Thread
<1>1. ASSUME NEW on \in BOOLEAN, FollowCommand("stdin", on), report = FollowEvent(on)
      PROVE  /\ UNCHANGED <<exec, editorMode>> /\ report.kind # "theme"
  BY <1>1 DEF FollowCommand, FollowEvent, stateVars
<1>2. ASSUME NEW t \in Thread, FinishCommand(t), exec[t].op = "tell",
             report = exec[t].report
      PROVE  /\ ModeIsTold'
             /\ editorMode' = editorMode
             /\ \/ ModeToCome'
                \/ report = ThemeEvent(editorMode)
                \/ ~ModeToCome /\ report.kind # "theme"
  <2>1. exec' = [exec EXCEPT ![t] = Idle] /\ editorMode' = editorMode
    BY <1>2 DEF FinishCommand, Then, stateVars
  <2> QED
    BY <1>0, <1>2, <2>1 DEF Idle
<1>3. ASSUME ThreadStep, report = Outcome
      PROVE  UNCHANGED <<exec, editorMode>> /\ report.kind # "theme"
  BY <1>3 DEF ThreadStep, stateVars, Outcome, Analysis, AnalysisError
<1> QED
  BY <1>1, <1>2, <1>3 DEF Tells

\* Every step keeps: a page knows the editor's mode or will be told.
LEMMA ModeStep ==
  ASSUME BaseInv, ModeInv, PagesNext
  PROVE  ModeInv'
<1>0. ModeIsTold'
  BY QuietMode, ToldMode, ServiceCases DEF ModeInv, PagesNext
<1> SUFFICES ASSUME NEW q \in Page, Live(q)', ~ModeToCome'
             PROVE  PageKnowsMode(q)'
  BY <1>0 DEF ModeInv
<1>1. ASSUME NEW report, Tells(report)
      PROVE  PageKnowsMode(q)'
  <2>1. page' = page /\ Live(q) /\ report \in Event
    BY <1>1 DEF Tells, pageVars, Live
  <2>2. Heard(q) \in Seq(Event) /\ Heard(q)' = Append(Heard(q), report)
    BY <1>1, <2>1, LivePagesHear
  <2>3. /\ editorMode' = editorMode
        /\ report = ThemeEvent(editorMode) \/ (~ModeToCome /\ report.kind # "theme")
    BY <1>1, ToldMode DEF ModeInv
  <2>4. Pending(Append(Heard(q), report), "theme")
          <=> Pending(Heard(q), "theme") \/ report.kind = "theme"
    BY <2>1, <2>2, AppendPends
  <2>5. CASE report = ThemeEvent(editorMode)
    <3>1. LastIs(Append(Heard(q), report), report) /\ report.kind = "theme"
      BY <2>1, <2>2, <2>5, AppendLast DEF ThemeEvent
    <3> QED
      BY <2>1, <2>2, <2>3, <2>4, <2>5, <3>1 DEF PageKnowsMode
  <2>6. CASE ~ModeToCome /\ report.kind # "theme"
    <3>1. PageKnowsMode(q)
      BY <2>1, <2>6 DEF ModeInv
    <3>2. ThemeEvent(editorMode).kind = "theme"
      BY DEF ThemeEvent
    <3>3. LastIs(Append(Heard(q), report), ThemeEvent(editorMode))
      BY <2>1, <2>2, <2>6, <3>1, <3>2, AppendOther DEF PageKnowsMode
    <3> QED
      BY <2>1, <2>2, <2>3, <2>4, <2>6, <3>1, <3>3 DEF PageKnowsMode
  <2> QED
    BY <2>3, <2>5, <2>6
<1>2. ASSUME Live(q), page'[q].mode = page[q].mode, page'[q].missed = page[q].missed,
             Heard(q)' = Heard(q), QuietStep \/ \E p \in Page : PageStep(p)
      PROVE  PageKnowsMode(q)'
  <2>1. ~ModeToCome /\ editorMode' = editorMode
    BY <1>2, QuietMode DEF ModeInv
  <2>2. PageKnowsMode(q)
    BY <1>2, <2>1 DEF ModeInv
  <2> QED
    BY <1>2, <2>1, <2>2 DEF PageKnowsMode
<1>3. CASE QuietStep
  <2>1. page' = page /\ Live(q)
    BY <1>3, QuietStepKeeps DEF Live
  <2> QED
    BY <1>2, <1>3, <2>1, QuietStepKeeps
<1>4. ASSUME NEW p \in Page, PageStep(p)
      PROVE  PageKnowsMode(q)'
  <2>0. ~ModeToCome /\ editorMode' = editorMode
    BY <1>4, QuietMode DEF ModeInv
  <2>1. CASE p # q
    <3>1. page'[q] = page[q] /\ Live(q)
      BY <1>4, <2>1, PageStepKeepsOthers DEF Live
    <3> QED
      BY <1>2, <1>4, <2>1, <3>1, PageStepKeepsOthers
  <2>2. CASE Connect(q)
    <3>1. page[q].mode # editorMode => "theme" \in page'[q].missed
      BY <2>0, <2>2, ConnectedPage DEF MissedBy
    <3>2. LastIs(<<OnSaveEvent(onSave)>>, ThemeEvent(editorMode))
      BY DEF LastIs, OnSaveEvent, ThemeEvent
    <3> QED
      BY <2>0, <2>2, <3>1, <3>2, ConnectedPage DEF PageKnowsMode
  <2>3. CASE Deliver(q)
    <3>1. PageKnowsMode(q) /\ ThemeEvent(editorMode).kind = "theme"
      BY <2>0, <2>3, DeliveredPage DEF ModeInv, ThemeEvent
    <3>2. LastIs(Tail(Heard(q)), ThemeEvent(editorMode))
      BY <2>3, <3>1, DeliveredPage, TailKeeps DEF PageKnowsMode
    <3>3. CASE Head(Heard(q)).kind = "theme"
      <4>1. \/ Pending(Tail(Heard(q)), "theme")
            \/ Head(Heard(q)) = ThemeEvent(editorMode)
        BY <2>3, <3>1, <3>3, DeliveredPage, TailKeeps DEF PageKnowsMode
      <4>2. ThemeEvent(editorMode).mode = editorMode
        BY DEF ThemeEvent
      <4>3. page'[q].mode = editorMode \/ Pending(Tail(Heard(q)), "theme")
        BY <2>3, <3>3, <4>1, <4>2, DeliveredPage
      <4> QED
        BY <2>0, <2>3, <3>2, <4>3, DeliveredPage DEF PageKnowsMode
    <3>4. CASE Head(Heard(q)).kind # "theme"
      <4>1. Pending(Heard(q), "theme") => Pending(Tail(Heard(q)), "theme")
        BY <2>3, <3>4, DeliveredPage, TailPends
      <4> QED
        BY <2>0, <2>3, <3>1, <3>2, <3>4, <4>1, DeliveredPage DEF PageKnowsMode
    <3> QED
      BY <3>3, <3>4
  <2>4. CASE \E k \in Slot : Click(q, k)
    BY <1>2, <1>4, <2>4, ClickedPage
  <2>5. CASE \E k \in Slot : Answer(q, k)
    <3>1. page'[q] = page[q] /\ Live(q)
      BY <2>5, AnsweredPage DEF Live
    <3> QED
      BY <1>2, <1>4, <2>5, <3>1, AnsweredPage
  <2> QED
    BY <1>4, <2>1, <2>2, <2>3, <2>4, <2>5, LivePageSteps
<1> QED
  BY <1>1, <1>3, <1>4, ServiceCases DEF PagesNext
-----------------------------------------------------------------------------
(***************************************************************************)
(* The on-save button. As long as no two threads are at an on-save command *)
(* at once, the event still to be broadcast is the state that is set.      *)
(***************************************************************************)
OnSaveToCome == \E t \in Thread : TellsOnSave(t)

OnSaveIsTold ==
  \A t \in Thread : TellsOnSave(t) => exec[t].report = OnSaveEvent(onSave)

PageKnowsOnSave(p) ==
  /\ LastIs(Heard(p), OnSaveEvent(onSave))
  /\ page[p].onSave = onSave \/ Pending(Heard(p), "on-save")

OnSaveInv ==
  OnSaveIsTold /\ \A p \in Page : Live(p) => OnSaveToCome \/ PageKnowsOnSave(p)

\* A state that is set is told; while none is to come it stays what it was.
LEMMA QuietOnSave ==
  ASSUME BaseInv, OnSaveIsTold, ~OnSaveCrosses',
         QuietStep \/ \E p \in Page : PageStep(p)
  PROVE  /\ OnSaveIsTold'
         /\ OnSaveToCome' \/ (~OnSaveToCome /\ onSave' = onSave)
<1> USE DEF OnSaveIsTold, OnSaveToCome, TellsOnSave, BaseInv, PagesTypeOK
<1>0. "stdin" \in Thread /\ "request" \in Thread /\ Thread = {"stdin", "request"}
  BY DEF Thread
<1>1. CASE UNCHANGED <<exec, onSave>>
  BY <1>1
<1>2. ASSUME NEW t \in Thread, NEW task, exec[t].op # "tell", Then(t, task),
             task.op = "tell" => task.report.kind # "on-save",
             onSave' = onSave
      PROVE  /\ OnSaveIsTold'
             /\ OnSaveToCome' \/ (~OnSaveToCome /\ onSave' = onSave)
  BY <1>0, <1>2 DEF Then
<1>6. ASSUME NEW t \in Thread, NEW on, OnSaveCommand(t, on)
      PROVE  /\ OnSaveIsTold'
             /\ OnSaveToCome' \/ (~OnSaveToCome /\ onSave' = onSave)
  <2>1. exec' = [exec EXCEPT ![t] = Tell(OnSaveEvent(on))] /\ onSave' = on
    BY <1>6 DEF OnSaveCommand, Then
  <2>2. /\ Tell(OnSaveEvent(on)).op = "tell"
        /\ Tell(OnSaveEvent(on)).report = OnSaveEvent(on)
        /\ OnSaveEvent(on).kind = "on-save"
    BY DEF Tell, OnSaveEvent
  <2>3. exec'[t] = Tell(OnSaveEvent(on))
    BY <2>1
  <2>4. TellsOnSave(t)' /\ exec'[t].report = OnSaveEvent(onSave')
    BY <2>1, <2>2, <2>3
  <2>5. \A other \in Thread \ {t} : ~TellsOnSave(other)'
    BY <1>0, <2>4 DEF OnSaveCrosses
  <2> QED
    BY <2>4, <2>5
<1>3. CASE QuietStep
  <2>1. CASE FocusCommand("stdin")
    <3>1. Tell(FocusEvent(current)).report.kind # "on-save"
      BY DEF Tell, FocusEvent
    <3>2. /\ exec["stdin"].op # "tell" /\ Then("stdin", Tell(FocusEvent(current)))
          /\ onSave' = onSave
      BY <2>1 DEF FocusCommand, Executes, Idle, stateVars
    <3> QED
      BY <1>0, <1>2, <3>1, <3>2
  <2>2. CASE SavedCommand("stdin")
    <3>1. Rerun.op # "tell"
      BY DEF Rerun
    <3>2. exec["stdin"].op # "tell" /\ Then("stdin", Rerun) /\ onSave' = onSave
      BY <2>2 DEF SavedCommand, Executes, Idle, stateVars
    <3> QED
      BY <1>0, <1>2, <3>1, <3>2
  <2>3. ASSUME NEW mode \in Mode, ThemeCommand("stdin", mode)
        PROVE  /\ OnSaveIsTold'
               /\ OnSaveToCome' \/ (~OnSaveToCome /\ onSave' = onSave)
    <3>1. PICK task : /\ Then("stdin", task)
                      /\ task = Tell(ThemeEvent(mode)) \/ task = Idle
      BY <2>3 DEF ThemeCommand
    <3>2. task.op = "tell" => task.report.kind # "on-save"
      BY <3>1 DEF Tell, ThemeEvent, Idle
    <3>3. exec["stdin"].op # "tell" /\ onSave' = onSave
      BY <2>3 DEF ThemeCommand, Executes, Idle
    <3> QED
      BY <1>0, <1>2, <3>1, <3>2, <3>3
  <2>4. ASSUME NEW t \in Thread, FinishCommand(t), exec[t] = Rerun
        PROVE  /\ OnSaveIsTold'
               /\ OnSaveToCome' \/ (~OnSaveToCome /\ onSave' = onSave)
    <3>1. Idle.op # "tell" /\ exec[t].op # "tell"
      BY <2>4 DEF Idle, Rerun
    <3>2. Then(t, Idle) /\ onSave' = onSave
      BY <2>4 DEF FinishCommand, stateVars
    <3> QED
      BY <1>2, <3>1, <3>2
  <2>5. CASE \/ \E switch \in Switch, on \in BOOLEAN : SetSwitch("stdin", switch, on)
             \/ RecomputeCommand("stdin")
             \/ ThreadStep /\ pc # "broadcast"
             \/ Surroundings
             \/ \E s \in Stream : StreamThread(s) \/ PageCloses(s)
    BY <1>1, <2>5
       DEF SetSwitch, RecomputeCommand, ThreadStep, Surroundings, StreamThread,
           StreamWrite, StreamFails, StreamEnds, PageCloses, stateVars
  <2>6. CASE \E on \in BOOLEAN : OnSaveCommand("stdin", on)
    BY <1>0, <1>6, <2>6
  <2> QED
    BY <1>3, <2>1, <2>2, <2>3, <2>4, <2>5, <2>6 DEF QuietStep
<1>4. ASSUME NEW p \in Page, PageStep(p)
      PROVE  /\ OnSaveIsTold'
             /\ OnSaveToCome' \/ (~OnSaveToCome /\ onSave' = onSave)
  <2>1. CASE Fetch(p)
    <3>1. Render(editorMode).op # "tell"
      BY DEF Render
    <3>2. /\ exec["request"].op # "tell" /\ Then("request", Render(editorMode))
          /\ onSave' = onSave
      BY <2>1 DEF Fetch, PageMode, Serving, Idle, stateVars
    <3> QED
      BY <1>0, <1>2, <3>1, <3>2
  <2>2. CASE Fetched(p)
    <3>1. Idle.op # "tell"
      BY DEF Idle
    <3>2. exec["request"].op # "tell" /\ Then("request", Idle) /\ onSave' = onSave
      BY <2>2 DEF Fetched, PageServed, stateVars
    <3> QED
      BY <1>0, <1>2, <3>1, <3>2
  <2>3. CASE \E on : OnSaveCommand("request", on)
    BY <1>0, <1>6, <2>3
  <2>4. CASE \/ Connect(p) \/ ConnectionLost(p) \/ Deliver(p) \/ Reload(p)
             \/ \E k \in Slot : Click(p, k)
             \/ (\E k \in Slot : Answer(p, k)) /\ ~\E on : OnSaveCommand("request", on)
    BY <1>1, <2>4
       DEF Connect, Events, ConnectionLost, PageCloses, Deliver, Reload, StreamWrite,
           Click, Answer, SetSwitch, Jump, serviceVars, stateVars
  <2> QED
    BY <1>4, <2>1, <2>2, <2>3, <2>4 DEF PageStep
<1> QED
  BY <1>3, <1>4

\* A broadcast of a state is of the one that holds.
LEMMA ToldOnSave ==
  ASSUME BaseInv, OnSaveIsTold, ~OnSaveCrosses, NEW report, Tells(report)
  PROVE  /\ OnSaveIsTold'
         /\ onSave' = onSave
         /\ \/ OnSaveToCome'
            \/ report = OnSaveEvent(onSave)
            \/ ~OnSaveToCome /\ report.kind # "on-save"
<1> USE DEF OnSaveIsTold, OnSaveToCome, OnSaveCrosses, TellsOnSave, BaseInv, PagesTypeOK
<1>0. "stdin" \in Thread /\ "request" \in Thread /\ Thread = {"stdin", "request"}
  BY DEF Thread
<1>1. ASSUME NEW on \in BOOLEAN, FollowCommand("stdin", on), report = FollowEvent(on)
      PROVE  /\ UNCHANGED <<exec, onSave>> /\ report.kind # "on-save"
  BY <1>1 DEF FollowCommand, FollowEvent, stateVars
<1>2. ASSUME NEW t \in Thread, FinishCommand(t), exec[t].op = "tell",
             report = exec[t].report
      PROVE  /\ OnSaveIsTold'
             /\ onSave' = onSave
             /\ \/ OnSaveToCome'
                \/ report = OnSaveEvent(onSave)
                \/ ~OnSaveToCome /\ report.kind # "on-save"
  <2>1. exec' = [exec EXCEPT ![t] = Idle] /\ onSave' = onSave
    BY <1>2 DEF FinishCommand, Then, stateVars
  <2> QED
    BY <1>0, <1>2, <2>1 DEF Idle
<1>3. ASSUME ThreadStep, report = Outcome
      PROVE  UNCHANGED <<exec, onSave>> /\ report.kind # "on-save"
  BY <1>3 DEF ThreadStep, stateVars, Outcome, Analysis, AnalysisError
<1> QED
  BY <1>1, <1>2, <1>3 DEF Tells

\* Every step keeps: a page knows the on-save switch or will be told.
LEMMA OnSaveStep ==
  ASSUME BaseInv, OnSaveInv, ~OnSaveCrosses, ~OnSaveCrosses', PagesNext
  PROVE  OnSaveInv'
<1>0. OnSaveIsTold'
  BY QuietOnSave, ToldOnSave, ServiceCases DEF OnSaveInv, PagesNext
<1> SUFFICES ASSUME NEW q \in Page, Live(q)', ~OnSaveToCome'
             PROVE  PageKnowsOnSave(q)'
  BY <1>0 DEF OnSaveInv
<1>1. ASSUME NEW report, Tells(report)
      PROVE  PageKnowsOnSave(q)'
  <2>1. page' = page /\ Live(q) /\ report \in Event
    BY <1>1 DEF Tells, pageVars, Live
  <2>2. Heard(q) \in Seq(Event) /\ Heard(q)' = Append(Heard(q), report)
    BY <1>1, <2>1, LivePagesHear
  <2>3. /\ onSave' = onSave
        /\ report = OnSaveEvent(onSave) \/ (~OnSaveToCome /\ report.kind # "on-save")
    BY <1>1, ToldOnSave DEF OnSaveInv
  <2>4. Pending(Append(Heard(q), report), "on-save")
          <=> Pending(Heard(q), "on-save") \/ report.kind = "on-save"
    BY <2>1, <2>2, AppendPends
  <2>5. CASE report = OnSaveEvent(onSave)
    <3>1. LastIs(Append(Heard(q), report), report) /\ report.kind = "on-save"
      BY <2>1, <2>2, <2>5, AppendLast DEF OnSaveEvent
    <3> QED
      BY <2>1, <2>2, <2>3, <2>4, <2>5, <3>1 DEF PageKnowsOnSave
  <2>6. CASE ~OnSaveToCome /\ report.kind # "on-save"
    <3>1. PageKnowsOnSave(q)
      BY <2>1, <2>6 DEF OnSaveInv
    <3>2. OnSaveEvent(onSave).kind = "on-save"
      BY DEF OnSaveEvent
    <3>3. LastIs(Append(Heard(q), report), OnSaveEvent(onSave))
      BY <2>1, <2>2, <2>6, <3>1, <3>2, AppendOther DEF PageKnowsOnSave
    <3> QED
      BY <2>1, <2>2, <2>3, <2>4, <2>6, <3>1, <3>3 DEF PageKnowsOnSave
  <2> QED
    BY <2>3, <2>5, <2>6
<1>2. ASSUME Live(q), page'[q].onSave = page[q].onSave, Heard(q)' = Heard(q),
             QuietStep \/ \E p \in Page : PageStep(p)
      PROVE  PageKnowsOnSave(q)'
  <2>1. ~OnSaveToCome /\ onSave' = onSave
    BY <1>2, QuietOnSave DEF OnSaveInv
  <2>2. PageKnowsOnSave(q)
    BY <1>2, <2>1 DEF OnSaveInv
  <2> QED
    BY <1>2, <2>1, <2>2 DEF PageKnowsOnSave
<1>3. CASE QuietStep
  <2>1. page' = page /\ Live(q)
    BY <1>3, QuietStepKeeps DEF Live
  <2> QED
    BY <1>2, <1>3, <2>1, QuietStepKeeps
<1>4. ASSUME NEW p \in Page, PageStep(p)
      PROVE  PageKnowsOnSave(q)'
  <2>0. ~OnSaveToCome /\ onSave' = onSave
    BY <1>4, QuietOnSave DEF OnSaveInv
  <2>1. CASE p # q
    <3>1. page'[q] = page[q] /\ Live(q)
      BY <1>4, <2>1, PageStepKeepsOthers DEF Live
    <3> QED
      BY <1>2, <1>4, <2>1, <3>1, PageStepKeepsOthers
  <2>2. CASE Connect(q)
    <3>1. LastIs(<<OnSaveEvent(onSave)>>, OnSaveEvent(onSave))
      BY DEF LastIs
    <3>2. Pending(<<OnSaveEvent(onSave)>>, "on-save")
      BY DEF Pending, OnSaveEvent
    <3> QED
      BY <2>0, <2>2, <3>1, <3>2, ConnectedPage DEF PageKnowsOnSave
  <2>3. CASE Deliver(q)
    <3>1. PageKnowsOnSave(q) /\ OnSaveEvent(onSave).kind = "on-save"
      BY <2>0, <2>3, DeliveredPage DEF OnSaveInv, OnSaveEvent
    <3>2. LastIs(Tail(Heard(q)), OnSaveEvent(onSave))
      BY <2>3, <3>1, DeliveredPage, TailKeeps DEF PageKnowsOnSave
    <3>3. CASE Head(Heard(q)).kind = "on-save"
      <4>1. \/ Pending(Tail(Heard(q)), "on-save")
            \/ Head(Heard(q)) = OnSaveEvent(onSave)
        BY <2>3, <3>1, <3>3, DeliveredPage, TailKeeps DEF PageKnowsOnSave
      <4>2. OnSaveEvent(onSave).on = onSave
        BY DEF OnSaveEvent
      <4>3. page'[q].onSave = onSave \/ Pending(Tail(Heard(q)), "on-save")
        BY <2>3, <3>3, <4>1, <4>2, DeliveredPage
      <4> QED
        BY <2>0, <2>3, <3>2, <4>3, DeliveredPage DEF PageKnowsOnSave
    <3>4. CASE Head(Heard(q)).kind # "on-save"
      <4>1. Pending(Heard(q), "on-save") => Pending(Tail(Heard(q)), "on-save")
        BY <2>3, <3>4, DeliveredPage, TailPends
      <4> QED
        BY <2>0, <2>3, <3>1, <3>2, <3>4, <4>1, DeliveredPage DEF PageKnowsOnSave
    <3> QED
      BY <3>3, <3>4
  <2>4. CASE \E k \in Slot : Click(q, k)
    BY <1>2, <1>4, <2>4, ClickedPage
  <2>5. CASE \E k \in Slot : Answer(q, k)
    <3>1. page'[q] = page[q] /\ Live(q)
      BY <2>5, AnsweredPage DEF Live
    <3> QED
      BY <1>2, <1>4, <2>5, <3>1, AnsweredPage
  <2> QED
    BY <1>4, <2>1, <2>2, <2>3, <2>4, <2>5, LivePageSteps
<1> QED
  BY <1>1, <1>3, <1>4, ServiceCases DEF PagesNext
-----------------------------------------------------------------------------
(***************************************************************************)
(* A click on a switch is not lost: it is still to be answered, or the     *)
(* thread has still to look at it or to tell of its run, or the page has   *)
(* still to hear of that, or the served page is what is wanted.            *)
(***************************************************************************)
SwitchUnderWay ==
  \/ seen # wanted.commands
  \/ pc \in {"compare", "analyse", "swap", "broadcast"}
  \/ current.switches = wanted.switches

ClickIsHeeded(p) ==
  \/ \E k \in Slot : post[p][k].op = "switch"
  \/ SwitchUnderWay
  \/ Pending(Heard(p), "analysis")
  \/ Pending(Heard(p), "analysis-error")

BusyInv ==
  \A p \in Page :
    Live(p) /\ "report" \notin page[p].missed /\ page[p].busy => ClickIsHeeded(p)

\* Until it is told, a run that answers the switches stays under way.
LEMMA QuietSwitch ==
  ASSUME BaseInv, QuietStep \/ \E p \in Page : PageStep(p), SwitchUnderWay
  PROVE  SwitchUnderWay'
<1> USE DEF SwitchUnderWay
<1>0. seen \in Nat /\ wanted.commands \in Nat /\ seen <= wanted.commands /\ wanted \in Wanted
  BY DEF BaseInv, RecomputeInv, TypeOK, Wanted
<1>1. CASE UNCHANGED recomputeVars
  BY <1>1 DEF recomputeVars
<1>2. CASE (\E switch, on : SwitchCommand(switch, on)) \/ RequestRerun
  <2>1. wanted'.commands = wanted.commands + 1 /\ seen' = seen
    BY <1>0, <1>2 DEF SwitchCommand, RequestRerun, Wanted
  <2> QED
    BY <1>0, <2>1
<1>3. CASE Edit \/ SpuriousWake
  BY <1>3 DEF Edit, SpuriousWake, threadVars
<1>4. CASE RecomputeThread /\ pc # "broadcast"
  <2>1. CASE Skip
    BY <2>1 DEF Skip, NeedsRun, BaseInv, RecomputeInv, RunAnswersCommands
  <2>2. CASE ~Skip
    BY <1>4, <2>2
       DEF RecomputeThread, Park, Return, Take, StartAnalysis, Analyse, AnalyseFails,
           Swap, Broadcast, WriteReport
  <2> QED
    BY <2>1, <2>2
<1> QED
  BY <1>1, <1>2, <1>3, <1>4, QuietRecompute

\* Every step keeps: a busy page's click is heeded.
LEMMA BusyStep ==
  ASSUME BaseInv, BusyInv, PagesNext
  PROVE  BusyInv'
<1> SUFFICES ASSUME NEW q \in Page, Live(q)', "report" \notin page'[q].missed,
                    page'[q].busy
             PROVE  ClickIsHeeded(q)'
  BY DEF BusyInv
<1>0. Live(q) /\ "report" \notin page[q].missed /\ page[q].busy => ClickIsHeeded(q)
  BY DEF BusyInv
<1>1. ASSUME NEW report, Tells(report)
      PROVE  ClickIsHeeded(q)'
  <2>1. page' = page /\ post' = post /\ Live(q) /\ report \in Event
    BY <1>1 DEF Tells, pageVars, Live
  <2>2. Heard(q) \in Seq(Event) /\ Heard(q)' = Append(Heard(q), report)
    BY <1>1, <2>1, LivePagesHear
  <2>3. \A kind : Pending(Append(Heard(q), report), kind)
                    <=> Pending(Heard(q), kind) \/ report.kind = kind
    BY <2>1, <2>2, AppendPends
  <2>4. CASE UNCHANGED recomputeVars
    BY <1>0, <2>1, <2>2, <2>3, <2>4 DEF recomputeVars, ClickIsHeeded, SwitchUnderWay
  <2>5. CASE report = Outcome
    <3>1. report.kind = "analysis" \/ report.kind = "analysis-error"
      BY <2>5 DEF Outcome, Analysis, AnalysisError
    <3> QED
      BY <2>2, <2>3, <3>1 DEF ClickIsHeeded
  <2>6. ASSUME NEW t \in Thread, FinishCommand(t), exec[t].op = "tell"
        PROVE  UNCHANGED recomputeVars
    BY <2>6 DEF FinishCommand, Rerun
  <2> QED
    BY <1>1, <2>4, <2>5, <2>6 DEF Tells, FollowCommand
<1>2. ASSUME page'[q] = page[q], Heard(q)' = Heard(q), Live(q),
             \A k \in Slot :
               post[q][k].op = "switch" => post'[q][k].op = "switch" \/ SwitchUnderWay',
             QuietStep \/ \E p \in Page : PageStep(p)
      PROVE  ClickIsHeeded(q)'
  BY <1>0, <1>2, QuietSwitch DEF ClickIsHeeded
<1>3. CASE QuietStep
  <2>1. page' = page /\ post' = post /\ Live(q)
    BY <1>3 DEF QuietStep, pageVars, Live
  <2> QED
    BY <1>2, <1>3, <2>1, QuietStepKeeps
<1>4. ASSUME NEW p \in Page, PageStep(p)
      PROVE  ClickIsHeeded(q)'
  <2>1. CASE p # q
    <3>1. page'[q] = page[q] /\ post'[q] = post[q] /\ Live(q)
      BY <1>4, <2>1, PageStepKeepsOthers DEF Live
    <3> QED
      BY <1>2, <1>4, <2>1, <3>1, PageStepKeepsOthers
  <2>2. CASE Connect(q)
    <3>1. page[q].busy /\ "report" \notin MissedBy(q)
      BY <2>2, ConnectedPage
    <3> QED
      BY <3>1 DEF MissedBy
  <2>3. CASE Deliver(q)
    <3>1. Head(Heard(q)).kind \notin {"analysis", "analysis-error"} /\ ClickIsHeeded(q)
      BY <1>0, <2>3, DeliveredPage
    <3>2. /\ Pending(Heard(q), "analysis") => Pending(Tail(Heard(q)), "analysis")
          /\ Pending(Heard(q), "analysis-error")
               => Pending(Tail(Heard(q)), "analysis-error")
      BY <2>3, <3>1, DeliveredPage, TailPends
    <3>3. UNCHANGED <<recomputeVars, post>> /\ Heard(q)' = Tail(Heard(q))
      BY <2>3, DeliveredPage
    <3> QED
      BY <3>1, <3>2, <3>3 DEF ClickIsHeeded, SwitchUnderWay, recomputeVars
  <2>4. ASSUME NEW k \in Slot, Click(q, k)
        PROVE  ClickIsHeeded(q)'
    <3>1. /\ Live(q) /\ "report" \notin page[q].missed
          /\ page'[q].busy # page[q].busy => post'[q][k].op = "switch"
          /\ \A other \in Slot :
               post[q][other].op = "switch" => post'[q][other].op = "switch"
          /\ UNCHANGED recomputeVars /\ Heard(q)' = Heard(q)
      BY <2>4, ClickedPage DEF serviceVars
    <3>2. CASE page[q].busy
      BY <1>0, <3>1, <3>2 DEF ClickIsHeeded, SwitchUnderWay, recomputeVars
    <3>3. CASE ~page[q].busy
      BY <3>1, <3>3 DEF ClickIsHeeded
    <3> QED
      BY <3>2, <3>3
  <2>5. ASSUME NEW k \in Slot, Answer(q, k)
        PROVE  ClickIsHeeded(q)'
    <3>1. /\ page'[q] = page[q] /\ Live(q) /\ Heard(q)' = Heard(q)
          /\ \A other \in Slot \ {k} : post'[q][other] = post[q][other]
      BY <2>5, AnsweredPage DEF Live
    <3>2. ASSUME post[q][k].op = "switch"
          PROVE  SwitchUnderWay'
      <4>1. SwitchCommand(post[q][k].switch, post[q][k].on)
        BY <2>5, <3>2 DEF Answer, SetSwitch
      <4>2. wanted \in Wanted /\ seen \in 0 .. wanted.commands
        BY DEF BaseInv, RecomputeInv, TypeOK
      <4>3. wanted'.commands = wanted.commands + 1 /\ seen' = seen
        BY <4>1, <4>2 DEF SwitchCommand, Wanted
      <4> QED
        BY <4>2, <4>3 DEF SwitchUnderWay, Wanted
    <3> QED
      BY <1>2, <1>4, <3>1, <3>2
  <2> QED
    BY <1>4, <2>1, <2>2, <2>3, <2>4, <2>5, LivePageSteps
<1> QED
  BY <1>1, <1>3, <1>4, ServiceCases DEF PagesNext

-----------------------------------------------------------------------------
(***************************************************************************)
(* The invariants, for any number of pages and connections and whatever    *)
(* the editor sends.                                                       *)
(***************************************************************************)
PagesInv == BaseInv /\ ConnectedPageReloads /\ ModeInv /\ BusyInv

\* No page is connected at the start, and no command under way.
LEMMA PagesInvInit == PagesInit => PagesInv /\ OnSaveInv
<1> SUFFICES ASSUME PagesInit
             PROVE  PagesInv /\ OnSaveInv
  OBVIOUS
<1>1. \A p \in Page : ~Live(p)
  BY DEF PagesInit, ClosedPage, Live
<1>2. exec = [t \in {"stdin", "request"} |-> [op |-> "idle"]]
  BY DEF PagesInit, ServiceInit, Thread, Idle
<1>3. ConnectedPageReloads /\ ModeInv /\ BusyInv /\ OnSaveInv
  BY <1>1, <1>2
     DEF ConnectedPageReloads, Reloads, ModeInv, ModeIsTold, ModeToCome, BusyInv,
         OnSaveInv, OnSaveIsTold, TellsOnSave, Thread
<1> QED
  BY <1>3, BaseInit DEF PagesInv

\* A step that changes nothing keeps what the pages know.
LEMMA PagesInvStutter ==
  ASSUME PagesInv, UNCHANGED pagesVars
  PROVE  PagesInv' /\ (OnSaveInv => OnSaveInv')
<1>1. /\ UNCHANGED <<exec, onSave, editorMode, chan, page, post>>
      /\ UNCHANGED recomputeVars
  BY DEF pagesVars, pageVars, serviceVars, streamVars, stateVars
<1>2. BaseInv'
  BY BaseStep DEF PagesInv
<1>3. ConnectedPageReloads'
  BY <1>1
     DEF PagesInv, ConnectedPageReloads, Reloads, Live, AnalysisToCome, Waiting,
         recomputeVars
<1>4. ModeInv'
  BY <1>1
     DEF PagesInv, ModeInv, ModeIsTold, PageKnowsMode, ModeToCome, Live, Heard, LastIs,
         Pending
<1>5. BusyInv'
  BY <1>1
     DEF PagesInv, BusyInv, ClickIsHeeded, SwitchUnderWay, Live, Heard, Pending,
         recomputeVars
<1>6. OnSaveInv => OnSaveInv'
  BY <1>1 DEF OnSaveInv, OnSaveIsTold, PageKnowsOnSave, OnSaveToCome, TellsOnSave, Live,
              Heard, LastIs, Pending
<1> QED
  BY <1>2, <1>3, <1>4, <1>5, <1>6 DEF PagesInv

\* The inductive invariant holds in every reachable state.
LEMMA PagesInvHolds == PagesSpec => []PagesInv
<1>1. PagesInit => PagesInv
  BY PagesInvInit
<1>2. PagesInv /\ [PagesNext]_pagesVars => PagesInv'
  <2> SUFFICES ASSUME PagesInv, PagesNext \/ UNCHANGED pagesVars
               PROVE  PagesInv'
    OBVIOUS
  <2>1. CASE PagesNext
    BY <2>1, BaseStep, ReloadStep, ModeStep, BusyStep DEF PagesInv
  <2> QED
    BY <2>1, PagesInvStutter
<1> QED
  BY <1>1, <1>2, PTL DEF PagesSpec

(***************************************************************************)
(* Every run of the analysis reloads the connected pages: the swap comes   *)
(* before its broadcast, handle_events registers a stream in one step, and *)
(* no event overtakes another.                                             *)
(***************************************************************************)
THEOREM ConnectedPageReloadsHolds == PagesSpec => []ConnectedPageReloads
<1>1. PagesInv => ConnectedPageReloads
  BY DEF PagesInv
<1> QED
  BY <1>1, PagesInvHolds, PTL

(***************************************************************************)
(* A page that was in the editor's mode when it connected is in that mode, *)
(* or the event is on its way, through repeats and changes of the mode.    *)
(***************************************************************************)
THEOREM PageFollowsEditorModeHolds == PagesSpec => []PageFollowsEditorMode
<1>1. PagesInv => PageFollowsEditorMode
  BY DEF PagesInv, ModeInv, PageKnowsMode, PageFollowsEditorMode, Waiting, Pending, Heard
<1> QED
  BY <1>1, PagesInvHolds, PTL

(***************************************************************************)
(* No click on a switch is lost: once nothing is under way any more, a     *)
(* page whose button is still busy shows the switches asked for last.      *)
(***************************************************************************)
THEOREM ClicksAreHeededHolds == PagesSpec => []ClicksAreHeeded
<1>1. PagesInv => ClicksAreHeeded
  <2> SUFFICES ASSUME PagesInv, NEW p \in Page, Live(p), page[p].missed = {},
                      page[p].busy, NothingUnderWay(p)
               PROVE  page[p].layout.switches = wanted.switches
    BY DEF ClicksAreHeeded
  <2>1. \A kind : ~Pending(Heard(p), kind)
    BY DEF NothingUnderWay, Pending, Heard
  <2>2. /\ pc \in {"check", "parked"} /\ seen = wanted.commands
        /\ \A k \in Slot : post[p][k].op # "switch"
    BY DEF NothingUnderWay, Settled, NoPost
  <2>3. current.switches = wanted.switches
    BY <2>1, <2>2 DEF PagesInv, BusyInv, ClickIsHeeded, SwitchUnderWay
  <2>4. page[p].layout = current
    BY <2>1, <2>2
       DEF PagesInv, ConnectedPageReloads, Reloads, AnalysisToCome, Waiting, Pending,
           Heard
  <2> QED
    BY <2>3, <2>4
<1> QED
  BY <1>1, PagesInvHolds, PTL

(***************************************************************************)
(* The on-save button of every connected page shows what the next save     *)
(* does in every behaviour in which no two threads are at an on-save       *)
(* command at once. Whoever sends the commands: what breaks                *)
(* ARC_DIAGRAM.md's sentence is the crossing of two threads alone, between *)
(* set_on_save and its broadcast.                                          *)
(***************************************************************************)
THEOREM OnSaveShownUncrossedHolds ==
  PagesSpec /\ []~OnSaveCrosses => []OpenPagesShowOnSave
<1>1. PagesInit => PagesInv /\ OnSaveInv
  BY PagesInvInit
<1>2. PagesInv /\ OnSaveInv /\ ~OnSaveCrosses /\ ~OnSaveCrosses' /\ [PagesNext]_pagesVars
        => OnSaveInv'
  <2> SUFFICES ASSUME PagesInv, OnSaveInv, ~OnSaveCrosses, ~OnSaveCrosses',
                      PagesNext \/ UNCHANGED pagesVars
               PROVE  OnSaveInv'
    OBVIOUS
  <2>1. CASE PagesNext
    BY <2>1, OnSaveStep DEF PagesInv
  <2> QED
    BY <2>1, PagesInvStutter
<1>3. OnSaveInv => OpenPagesShowOnSave
  BY DEF OnSaveInv, OnSaveToCome, PageKnowsOnSave, OpenPagesShowOnSave, Waiting, Pending,
         Heard
<1> QED
  BY <1>1, <1>2, <1>3, PagesInvHolds, PTL DEF PagesSpec
=============================================================================

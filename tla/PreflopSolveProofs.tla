-------------------------- MODULE PreflopSolveProofs --------------------------
(***************************************************************************)
(* Invariance of the safety properties of PreflopSolve: every step of the  *)
(* program is a step of the lifecycle or leaves the solver alone, so the   *)
(* lifecycle's inductive invariant holds of the program's solver; with it  *)
(* the program's own is inductive.                                         *)
(***************************************************************************)
EXTENDS PreflopSolve, SolverLifecycleProofs

USE DEF Points, States, Causes, Statuses, InLoop, AfterLoop, MidIteration,
        solverVars, runnerVars, storageVars, callerVars, runVars, instance, vars,
        MainPoints, mainVars, signalVars, toolVars, pvars, Starting, Ending, At

\* Every step of the program is one of the lifecycle or leaves the solver alone.
LEMMA SolverStep == [PNext]_pvars => [Next]_vars
<1> SUFFICES ASSUME [PNext]_pvars PROVE Next \/ UNCHANGED vars
  OBVIOUS
<1> USE PreflopAssumption
<1>1. CASE MainStep
  <2>1. \/ UNCHANGED vars \/ RunCall
        \/ CallerNext(Main)
    BY <1>1 DEF MainStep, CallerNext, LoadCheckpoint, InstallHandlers,
         ResetFlag, StartWatcher, CheckFlag, StartRunner, PollDone,
         PollProgress, BeginPause, AfterPause, PeriodicSave, CheckDone,
         CheckStop, ResumeRun, JoinRunner, ReleaseWatcher, JoinWatcher,
         EndSave, Report, Destroy
  <2> QED
    BY <2>1 DEF Next
<1>2. CASE InCall(Main) \/ InCall(Watcher) \/ WatcherStop
  BY <1>2 DEF InCall, WatcherStop, Next, CallerNext
<1>3. CASE RunnerThread \/ Signal \/ Wake
  BY <1>3 DEF RunnerThread, RunnerDone, Signal, Wake, Next
<1>4. CASE Exited \/ UNCHANGED pvars
  BY <1>4 DEF Exited
<1> QED
  BY <1>1, <1>2, <1>3, <1>4 DEF PNext

\* The program's solver is a solver: what SolverLifecycle proves holds of it.
THEOREM ProgramUsesTheLifecycle == PSpec => Spec
<1>1. PInit => Init
  BY DEF PInit
<1> QED
  BY <1>1, SolverStep, PTL DEF PSpec, Spec

\* The program's own variables stay in their ranges.
LEMMA ToolTypeStep == Inductive /\ PTypeOK /\ [PNext]_pvars => PTypeOK'
<1> SUFFICES ASSUME Inductive, PTypeOK, [PNext]_pvars PROVE PTypeOK'
  OBVIOUS
<1>1. TypeOK'
  BY SolverStep, TypeStep DEF PTypeOK
<1> USE PreflopAssumption DEF PTypeOK, TypeOK, MainGoto
<1>2. CASE MainStep
  <2>1. stopRequested' \in BOOLEAN /\ signalled' \in BOOLEAN
        /\ interrupted' \in BOOLEAN /\ runnerDone' \in BOOLEAN
    BY <1>2, Zenon DEF MainStep, LoadCheckpoint, InstallHandlers,
         ResetFlag, StartWatcher, CheckFlag, StartRunner, PollDone,
         PollProgress, BeginPause, AfterPause, PeriodicSave, CheckDone,
         CheckStop, ResumeRun, JoinRunner, ReleaseWatcher, JoinWatcher,
         EndSave, Report, Destroy
  <2>2. /\ main' \in MainPoints /\ watcher' \in {"none", "poll", "done"}
        /\ nextCheckpoint' \in Nat /\ seen' \in Nat
        /\ finalSave' \in Statuses \cup {"NONE"}
        /\ report' \in Statuses \cup {"NONE"}
    BY <1>2 DEF MainStep, LoadCheckpoint, InstallHandlers,
         ResetFlag, StartWatcher, CheckFlag, StartRunner, PollDone,
         PollProgress, BeginPause, AfterPause, PeriodicSave, CheckDone,
         CheckStop, ResumeRun, JoinRunner, ReleaseWatcher, JoinWatcher,
         EndSave, Report, Destroy, AfterSave, NextDue
  <2> QED
    BY <1>1, <2>1, <2>2
<1>3. CASE InCall(Main) \/ InCall(Watcher) \/ Wake \/ Exited \/ UNCHANGED pvars
  BY <1>1, <1>3 DEF InCall, Wake, Exited
<1>4. CASE WatcherStop \/ RunnerThread \/ Signal
  <2>1. stopRequested' \in BOOLEAN /\ signalled' \in BOOLEAN
        /\ interrupted' \in BOOLEAN /\ runnerDone' \in BOOLEAN
    BY <1>4, Zenon DEF WatcherStop, RunnerThread, RunnerDone, Signal
  <2> QED
    BY <1>1, <1>4, <2>1 DEF WatcherStop, RunnerThread, RunnerDone, Signal
<1> QED
  BY <1>2, <1>3, <1>4 DEF PNext

\* The parts of the inductive invariant beside the types.
PSafe == ThreadInv /\ CallInv /\ ControlInv /\ SavingInv

\* The main thread's steps preserve it.
LEMMA SafeMain == Inductive /\ PTypeOK /\ PSafe /\ MainStep => PSafe'
<1> SUFFICES ASSUME Inductive, PTypeOK, PSafe, MainStep PROVE PSafe'
  OBVIOUS
<1> USE LifecycleAssumption, PreflopAssumption
    DEF Inductive, TypeOK, StateInv, AckInv, CounterInv, WaitInv, PTypeOK,
        DoneInv, PSafe, ThreadInv, CallInv, ControlInv, SavingInv, Still, Matches,
        Current, Unresumed, MainGoto, Free, Count, Return, Enter, Broadcast
<1>1. CASE LoadCheckpoint
  BY <1>1 DEF LoadCheckpoint, Load, Restored, PartlyRestored
<1>2. CASE InstallHandlers
  BY <1>2 DEF InstallHandlers
<1>3. CASE ResetFlag
  BY <1>3 DEF ResetFlag
<1>4. CASE StartWatcher
  BY <1>4 DEF StartWatcher
<1>5. CASE CheckFlag
  BY <1>5 DEF CheckFlag, StopCall, Stoppable, MarkStop
<1>6. CASE StartRunner
  <2>1. ThreadInv'
    BY <1>6 DEF StartRunner, RunCall
  <2>2. CallInv'
    BY <1>6 DEF StartRunner, RunCall
  <2>3. ControlInv'
    <3>1. main' = "poll" /\ pc' = "validate"
      BY <1>6 DEF StartRunner, RunCall, Goto
    <3> QED
      BY <3>1
  <2>4. SavingInv'
    <3>1. /\ main = "spawn" /\ main' = "poll" /\ call[Main] = "none"
          /\ UNCHANGED <<call, ret, stamp, checkpoint, iteration, signalled,
                         stopRequested, finalSave>>
      BY <1>6 DEF StartRunner, RunCall
    <3>2. finalSave = "NONE"
      BY <3>1
    <3> QED
      BY <3>1, <3>2 DEF SavingInv
  <2> QED
    BY <2>1, <2>2, <2>3, <2>4
<1>7. CASE PollDone
  BY <1>7 DEF PollDone
<1>8. CASE PollProgress
  BY <1>8 DEF PollProgress
<1>9. CASE BeginPause
  <2>1. ThreadInv'
    BY <1>9 DEF BeginPause, PauseCall, ClearAck
  <2>2. CallInv'
    BY <1>9 DEF BeginPause, PauseCall, ClearAck
  <2>3. ControlInv'
    BY <1>9 DEF BeginPause, PauseCall, ClearAck
  <2>4. SavingInv'
    <3>1. /\ main = "pausing" /\ main' = "progress" /\ call[Main] = "none"
          /\ UNCHANGED <<pc, stamp, checkpoint, iteration, runStatus, signalled,
                         stopRequested, finalSave>>
      BY <1>9 DEF BeginPause, PauseCall
    <3>2. /\ call'[Main] \in {"none", "pause"}
          /\ call'[Main] = "pause" => state' = "PAUSED"
      BY <1>9 DEF BeginPause, PauseCall
    <3>3. ASSUME call'[Main] = "none", ret'[Main] = "OK" PROVE pc = "idle"
      <4>1. CASE state = "RUNNING" /\ active
        BY <1>9, <4>1, <3>3 DEF BeginPause, PauseCall
      <4>2. CASE ~active
        BY <4>2
      <4>3. CASE state # "RUNNING"
        BY <1>9, <4>3, <3>3 DEF BeginPause, PauseCall
      <4> QED
        BY <4>1, <4>2, <4>3
    <3>4. finalSave = "NONE"
      BY <3>1
    <3> QED
      BY <3>1, <3>2, <3>3, <3>4 DEF SavingInv
  <2> QED
    BY <2>1, <2>2, <2>3, <2>4
<1>10. CASE AfterPause
  BY <1>10 DEF AfterPause
<1>11. CASE PeriodicSave
  BY <1>11 DEF PeriodicSave, SaveCall, MaySave
<1>12. CASE CheckDone
  BY <1>12 DEF CheckDone, AfterSave, NextDue
<1>13. CASE CheckStop
  BY <1>13 DEF CheckStop
<1>14. CASE ResumeRun
  BY <1>14 DEF ResumeRun, ResumeCall, Resumable, ClearAck
<1>15. CASE JoinRunner
  BY <1>15 DEF JoinRunner
<1>16. CASE ReleaseWatcher
  BY <1>16 DEF ReleaseWatcher
<1>17. CASE JoinWatcher
  BY <1>17 DEF JoinWatcher, SaveCall, MaySave, WatcherJoined
<1>18. CASE EndSave
  BY <1>18 DEF EndSave
<1>19. CASE Report
  BY <1>19 DEF Report, StrategyCall
<1>20. CASE Destroy
  BY <1>20 DEF Destroy, DestroyCall, MarkStop
<1> QED
  BY <1>1, <1>2, <1>3, <1>4, <1>5, <1>6, <1>7, <1>8, <1>9, <1>10,
     <1>11, <1>12, <1>13, <1>14, <1>15, <1>16, <1>17, <1>18, <1>19, <1>20 DEF MainStep

\* So do the steps a call takes on its own; the watcher's take none.
LEMMA SafeInCall == Inductive /\ PTypeOK /\ PSafe /\ InCall(Main) => PSafe'
<1> SUFFICES ASSUME Inductive, PTypeOK, PSafe, CallStep(Main), UNCHANGED toolVars
             PROVE PSafe'
  BY DEF InCall
<1> USE LifecycleAssumption, PreflopAssumption
    DEF Inductive, TypeOK, StateInv, AckInv, CounterInv, WaitInv, PTypeOK,
        DoneInv, PSafe, ThreadInv, CallInv, ControlInv, SavingInv, Still, Matches,
        Current, Unresumed, Return, Enter, Broadcast
<1>1. CASE PauseWake(Main)
  <2>1. ThreadInv'
    BY <1>1 DEF PauseWake, PauseHolds
  <2>2. CallInv'
    BY <1>1 DEF PauseWake, PauseHolds
  <2>3. ControlInv'
    BY <1>1 DEF PauseWake, PauseHolds
  <2>4. SavingInv'
    <3>1. /\ main = "progress" /\ call'[Main] \in {"none", "pause"}
          /\ UNCHANGED <<pc, state, iteration, runStatus, mixed, stamp,
                         checkpoint, toolVars>>
      BY <1>1 DEF PauseWake
    <3>2. ~signalled /\ call'[Main] = "pause" => state = "PAUSED"
      BY <1>1 DEF PauseWake, PauseHolds
    <3>3. ~signalled /\ call'[Main] = "none" => Still
      BY <1>1 DEF PauseWake, PauseHolds
    <3>4. finalSave = "NONE"
      BY <3>1
    <3> QED
      BY <3>1, <3>2, <3>3, <3>4 DEF SavingInv
  <2> QED
    BY <2>1, <2>2, <2>3, <2>4
<1>2. CASE StrategyReturn(Main)
  BY <1>2 DEF StrategyReturn
<1>3. CASE SaveStamp(Main)
  BY <1>3 DEF SaveStamp
<1>4. CASE SaveReturn(Main)
  BY <1>4 DEF SaveReturn
<1>5. CASE DestroyWake(Main)
  BY <1>5 DEF DestroyWake
<1> QED
  BY <1>1, <1>2, <1>3, <1>4, <1>5 DEF CallStep

\* So do the runner's.
LEMMA SafeRun ==
  Inductive /\ PTypeOK /\ PSafe /\ RunnerStep /\ UNCHANGED toolVars => PSafe'
<1> SUFFICES ASSUME Inductive, PTypeOK, PSafe, RunnerStep, UNCHANGED toolVars
             PROVE PSafe'
  OBVIOUS
<1> USE LifecycleAssumption, PreflopAssumption
    DEF Inductive, TypeOK, StateInv, AckInv, CounterInv, WaitInv, PTypeOK,
        DoneInv, PSafe, ThreadInv, CallInv, ControlInv, SavingInv, Still, Matches,
        Current, Unresumed, Goto, Quiet, SetState, FailRun, Broadcast
<1>1. CASE Validate
  BY <1>1 DEF Validate, ResumedFrom
<1>2. CASE Dispatch
  BY <1>2 DEF Dispatch, LastDone
<1>3. CASE Test
  BY <1>3 DEF Test, LeaveLoop, MustSleep, MayIterate
<1>4. CASE RunnerWake
  BY <1>4 DEF RunnerWake, LeaveLoop, MustSleep, MayIterate
<1>5. CASE Iterate
  BY <1>5 DEF Iterate
<1>6. CASE Publish
  BY <1>6 DEF Publish
<1>7. CASE Drop
  BY <1>7 DEF Drop, AfterMeasure
<1>8. CASE Measure
  BY <1>8 DEF Measure, AfterMeasure
<1>9. CASE CheckBudget
  BY <1>9 DEF CheckBudget
<1>10. CASE NameCause
  BY <1>10 DEF NameCause, LoopCause
<1>11. CASE ReadStopped
  BY <1>11 DEF ReadStopped, LeftStopped
<1>12. CASE ReadPaused
  BY <1>12 DEF ReadPaused
<1>13. CASE SyncStopped
  BY <1>13 DEF SyncStopped
<1>14. CASE Sync
  BY <1>14 DEF Sync
<1>15. CASE FinalMeasure
  BY <1>15 DEF FinalMeasure
<1>16. CASE Complete
  BY <1>16 DEF Complete
<1>17. CASE Finish
  BY <1>17 DEF Finish, LeaveRun
<1> QED
  BY <1>1, <1>2, <1>3, <1>4, <1>5, <1>6, <1>7, <1>8, <1>9, <1>10,
     <1>11, <1>12, <1>13, <1>14, <1>15, <1>16, <1>17 DEF RunnerStep

\* The program's inductive invariant holds in every state.
THEOREM ProgramInvariant == PSpec => []PInductive
<1>1. PInit => PTypeOK /\ PSafe
  <2> SUFFICES ASSUME PInit PROVE PTypeOK /\ PSafe
    OBVIOUS
  <2>1. TypeOK
    BY TypeInit DEF PInit
  <2>2. /\ stopRequested \in BOOLEAN /\ signalled \in BOOLEAN
        /\ interrupted \in BOOLEAN /\ runnerDone \in BOOLEAN
    BY Zenon DEF PInit
  <2>3. PTypeOK
    BY <2>1, <2>2, PreflopAssumption DEF PInit, PTypeOK
  <2>4. PSafe
    BY PreflopAssumption DEF PInit, Init, PSafe, ThreadInv, CallInv, ControlInv,
       SavingInv, Still, Matches, Current, Unresumed
  <2> QED
    BY <2>3, <2>4
<1>2. Inductive /\ PTypeOK /\ PSafe /\ [PNext]_pvars => PSafe'
  <2> SUFFICES ASSUME Inductive, PTypeOK, PSafe, [PNext]_pvars PROVE PSafe'
    OBVIOUS
  <2>1. CASE MainStep
    BY <2>1, SafeMain
  <2>2. CASE InCall(Main)
    BY <2>2, SafeInCall
  <2>3. CASE InCall(Watcher)
    BY <2>3 DEF PSafe, CallInv, InCall, CallStep, PauseWake, StrategyReturn,
       SaveStamp, SaveReturn, DestroyWake
  <2>4. CASE WatcherStop
    BY <2>4, LifecycleAssumption, PreflopAssumption
       DEF WatcherStop, StopCall, Stoppable, MarkStop, Free, Count, Return,
           Broadcast, Inductive, TypeOK, StateInv, PTypeOK, PSafe, ThreadInv, CallInv, ControlInv, SavingInv,
           Still, Matches, Current, Unresumed
  <2>5. CASE RunnerStep /\ UNCHANGED toolVars
    BY <2>5, SafeRun
  <2>6. CASE RunnerDone
    BY <2>6 DEF RunnerDone, PSafe, ThreadInv, CallInv, ControlInv, SavingInv, Still, Matches,
       Current, Unresumed, TypeOK,
       PTypeOK
  <2>7. CASE Signal
    BY <2>7 DEF Signal, PSafe, ThreadInv, CallInv, ControlInv, SavingInv, Still, Matches,
       Current, Unresumed, TypeOK,
       PTypeOK
  <2>8. CASE UNCHANGED <<solverVars, runnerVars, storageVars, callerVars,
                         toolVars>>
    BY <2>8 DEF PSafe, ThreadInv, CallInv, ControlInv, SavingInv, Still, Matches,
       Current, Unresumed
  <2> QED
    BY <2>1, <2>2, <2>3, <2>4, <2>5, <2>6, <2>7, <2>8
       DEF PNext, RunnerThread, Wake, SpuriousWake, Exited
<1>3. PTypeOK /\ PSafe => PInductive
  BY DEF PSafe, PInductive
<1> QED
  BY <1>1, <1>2, <1>3, ToolTypeStep, ProgramUsesTheLifecycle, InductiveInvariant,
     PTL DEF PSpec

\* A checkpoint is stamped with the number of iterations its storage holds.
THEOREM CheckpointsAreStamped == PSpec => []CheckpointMatches
<1>1. PInductive => CheckpointMatches
  BY DEF PInductive, SavingInv, Matches, CheckpointMatches
<1> QED
  BY <1>1, ProgramInvariant, PTL

\* Nobody is in the solver, or will call it, once it has been released.
THEOREM ThreadsEndFirst == PSpec => []NoThreadOutlivesSolver
<1>1. Inductive /\ PInductive => NoThreadOutlivesSolver
  BY PreflopAssumption
     DEF Inductive, WaitInv, PInductive, PTypeOK, TypeOK, ThreadInv, CallInv, Unresumed,
         NoThreadOutlivesSolver
<1> QED
  BY <1>1, ProgramInvariant, ProgramUsesTheLifecycle, InductiveInvariant, PTL

\* A run that returned OK leaves its final checkpoint behind.
THEOREM FinalCheckpointIsKept == PSpec => []FinalCheckpointSaved
<1>1. PInductive => FinalCheckpointSaved
  BY DEF PInductive, SavingInv, Current, FinalCheckpointSaved
<1> QED
  BY <1>1, ProgramInvariant, PTL
==============================================================================

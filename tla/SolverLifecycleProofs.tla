------------------------ MODULE SolverLifecycleProofs ------------------------
(***************************************************************************)
(* Invariance of the safety properties of SolverLifecycle, for every set   *)
(* of threads, any set of lanes, and every quota, interval and set of faults.   *)
(***************************************************************************)
EXTENDS SolverLifecycle, TLAPS

\* The definitions every step expands.
USE DEF Points, States, Causes, Statuses, InLoop, AfterLoop, MidIteration,
        solverVars, runnerVars, storageVars, callerVars, runVars, instance, vars

\* The runner's steps keep every variable in its range.
LEMMA TypeRunner == TypeOK /\ (RunCall \/ RunnerStep) => TypeOK'
<1> SUFFICES ASSUME TypeOK, RunCall \/ RunnerStep PROVE TypeOK'
  OBVIOUS
<1> USE LifecycleAssumption DEF TypeOK, Goto, Quiet, SetState, FailRun, Broadcast
<1>1. CASE RunCall
  BY <1>1 DEF RunCall
<1>2. CASE Validate
  BY <1>2 DEF Validate, ResumedFrom
<1>3. CASE Dispatch
  BY <1>3 DEF Dispatch, LastDone
<1>4. CASE Test
  <2>1. ack' \in BOOLEAN
    BY <1>4, Zenon DEF Test
  <2> QED
    BY <1>4, <2>1 DEF Test, LeaveLoop
<1>5. CASE RunnerWake
  BY <1>5 DEF RunnerWake, LeaveLoop
<1>6. CASE Iterate
  BY <1>6 DEF Iterate
<1>7. CASE Publish
  BY <1>7 DEF Publish
<1>8. CASE Drop
  BY <1>8 DEF Drop, AfterMeasure
<1>9. CASE Measure
  <2>1. measured' \in BOOLEAN /\ target' \in BOOLEAN
    BY <1>9, Zenon DEF Measure
  <2> QED
    BY <1>9, <2>1 DEF Measure, AfterMeasure
<1>10. CASE CheckBudget
  BY <1>10 DEF CheckBudget
<1>11. CASE NameCause
  BY <1>11 DEF NameCause, LoopCause
<1>12. CASE ReadStopped
  BY <1>12 DEF ReadStopped
<1>13. CASE ReadPaused
  BY <1>13 DEF ReadPaused
<1>14. CASE SyncStopped
  BY <1>14 DEF SyncStopped
<1>15. CASE Sync
  BY <1>15 DEF Sync
<1>16. CASE FinalMeasure
  <2>1. measured' \in BOOLEAN /\ target' \in BOOLEAN
    BY <1>16, Zenon DEF FinalMeasure
  <2> QED
    BY <1>16, <2>1 DEF FinalMeasure
<1>17. CASE Complete
  BY <1>17 DEF Complete
<1>18. CASE Finish
  <2>1. active' \in BOOLEAN
    BY <1>18, Zenon DEF Finish, LeaveRun
  <2> QED
    BY <1>18, <2>1 DEF Finish, LeaveRun
<1> QED
  BY <1>1, <1>2, <1>3, <1>4, <1>5, <1>6, <1>7, <1>8, <1>9, <1>10, <1>11,
     <1>12, <1>13, <1>14, <1>15, <1>16, <1>17, <1>18 DEF RunnerStep

\* So do the steps of the calls.
LEMMA TypeCaller ==
  ASSUME NEW t \in Threads PROVE TypeOK /\ CallerNext(t) => TypeOK'
<1> SUFFICES ASSUME TypeOK, CallerNext(t) PROVE TypeOK'
  OBVIOUS
<1> USE LifecycleAssumption DEF TypeOK, Free, Count, Return, Enter, Broadcast
<1>1. CASE PauseCall(t)
  <2>1. ack' \in BOOLEAN
    BY <1>1, Zenon DEF PauseCall, ClearAck
  <2> QED
    BY <1>1, <2>1 DEF PauseCall, ClearAck
<1>2. CASE PauseWake(t)
  BY <1>2 DEF PauseWake
<1>3. CASE ResumeCall(t)
  <2>1. ack' \in BOOLEAN
    BY <1>3, Zenon DEF ResumeCall, ClearAck
  <2> QED
    BY <1>3, <2>1 DEF ResumeCall, ClearAck
<1>4. CASE StopCall(t)
  BY <1>4 DEF StopCall, MarkStop
<1>5. CASE StrategyCall(t)
  BY <1>5 DEF StrategyCall
<1>6. CASE StrategyReturn(t)
  BY <1>6 DEF StrategyReturn
<1>7. CASE SaveCall(t)
  BY <1>7 DEF SaveCall
<1>8. CASE SaveStamp(t)
  BY <1>8 DEF SaveStamp
<1>9. CASE SaveReturn(t)
  <2>1. checkpoint' \in [whole : BOOLEAN, iteration : Nat, applied : Nat,
                         torn : BOOLEAN]
    <3>1. CASE checkpoint' = [whole |-> TRUE, iteration |-> stamp[t],
                              applied |-> applied, torn |-> torn]
      BY <3>1
    <3>2. CASE checkpoint' \in {checkpoint, [checkpoint EXCEPT !.whole = FALSE]}
      BY <3>2
    <3> QED
      BY <1>9, <3>1, <3>2 DEF SaveReturn
  <2> QED
    BY <1>9, <2>1 DEF SaveReturn
<1>10. CASE Load(t)
  <2>1. loaded' \in BOOLEAN
    BY <1>10, Zenon DEF Load
  <2>2. mixed' \in BOOLEAN /\ applied' \in Nat
    <3>1. CASE \E k \in LoadedIterations : Restored(k)
      BY <3>1 DEF Restored
    <3>2. CASE PartlyRestored
      <4>1. mixed' \in BOOLEAN
        BY <3>2, Zenon DEF PartlyRestored
      <4> QED
        BY <3>2, <4>1 DEF PartlyRestored
    <3>3. CASE UNCHANGED <<applied, mixed>>
      BY <3>3
    <3> QED
      BY <1>10, <3>1, <3>2, <3>3 DEF Load
  <2>3. state' \in States /\ iteration' \in Nat /\ waitSet' \subseteq waitSet
    BY <1>10 DEF Load
  <2> QED
    BY <1>10, <2>1, <2>2, <2>3 DEF Load
<1>11. CASE DestroyCall(t)
  BY <1>11 DEF DestroyCall, MarkStop
<1>12. CASE DestroyWake(t)
  <2>1. freed' \in BOOLEAN
    BY <1>12, Zenon DEF DestroyWake
  <2> QED
    BY <1>12, <2>1 DEF DestroyWake
<1> QED
  BY <1>1, <1>2, <1>3, <1>4, <1>5, <1>6, <1>7, <1>8, <1>9, <1>10, <1>11, <1>12
     DEF CallerNext, CallStep

\* The initial states are typed, and every step keeps them so.
LEMMA TypeInit == Init => TypeOK
<1> SUFFICES ASSUME Init PROVE TypeOK
  OBVIOUS
<1>1. /\ active \in BOOLEAN /\ ack \in BOOLEAN /\ loaded \in BOOLEAN
      /\ measured \in BOOLEAN /\ target \in BOOLEAN /\ torn \in BOOLEAN
      /\ mixed \in BOOLEAN /\ freed \in BOOLEAN
  BY Zenon DEF Init
<1>2. checkpoint \in [whole : BOOLEAN, iteration : Nat, applied : Nat,
                      torn : BOOLEAN]
  BY DEF Init
<1> QED
  BY <1>1, <1>2, LifecycleAssumption DEF Init, TypeOK

\* One step of anybody.
LEMMA TypeStep == TypeOK /\ [Next]_vars => TypeOK'
<1> SUFFICES ASSUME TypeOK, [Next]_vars PROVE TypeOK'
  OBVIOUS
<1>1. CASE RunCall \/ RunnerStep
  BY <1>1, TypeRunner
<1>2. CASE \E t \in Threads : CallerNext(t)
  BY <1>2, TypeCaller
<1>3. CASE SpuriousWake
  BY <1>3 DEF SpuriousWake, TypeOK
<1>4. CASE UNCHANGED vars
  BY <1>4 DEF TypeOK
<1> QED
  BY <1>1, <1>2, <1>3, <1>4 DEF Next, Finished

\* Type correctness.
THEOREM TypeCorrect == Spec => []TypeOK
  BY TypeInit, TypeStep, PTL DEF Spec

\* The parts of the inductive invariant beside the types.
Safe == StateInv /\ AckInv /\ CounterInv /\ StopInv /\ DoneInv

\* The runner's steps preserve the inductive invariant.
LEMMA SafeRunner == TypeOK /\ Safe /\ (RunCall \/ RunnerStep) => Safe'
<1> SUFFICES ASSUME TypeOK, Safe, RunCall \/ RunnerStep PROVE Safe'
  OBVIOUS
<1> USE LifecycleAssumption
    DEF Goto, Quiet, SetState, FailRun, Broadcast, LoopDone, TypeOK,
        Safe, StateInv, AckInv, CounterInv, StopInv, DoneInv
<1>1. CASE RunCall
  BY <1>1 DEF RunCall
<1>2. CASE Validate
  BY <1>2 DEF Validate, ResumedFrom
<1>3. CASE Dispatch
  BY <1>3 DEF Dispatch, LastDone
<1>4. CASE Test
  BY <1>4 DEF Test, LeaveLoop, MustSleep, MayIterate
<1>5. CASE RunnerWake
  BY <1>5 DEF RunnerWake, LeaveLoop, MustSleep, MayIterate
<1>6. CASE Iterate
  BY <1>6 DEF Iterate
<1>7. CASE Publish
  BY <1>7 DEF Publish
<1>8. CASE Drop
  BY <1>8 DEF Drop, AfterMeasure
<1>9. CASE Measure
  BY <1>9 DEF Measure, AfterMeasure
<1>10. CASE CheckBudget
  BY <1>10 DEF CheckBudget
<1>11. CASE NameCause
  BY <1>11 DEF NameCause
<1>12. CASE ReadStopped
  BY <1>12 DEF ReadStopped, LeftStopped
<1>13. CASE ReadPaused
  BY <1>13 DEF ReadPaused
<1>14. CASE SyncStopped
  BY <1>14 DEF SyncStopped
<1>15. CASE Sync
  BY <1>15 DEF Sync
<1>16. CASE FinalMeasure
  BY <1>16 DEF FinalMeasure
<1>17. CASE Complete
  BY <1>17 DEF Complete
<1>18. CASE Finish
  BY <1>18 DEF Finish, LeaveRun
<1> QED
  BY <1>1, <1>2, <1>3, <1>4, <1>5, <1>6, <1>7, <1>8, <1>9, <1>10, <1>11, <1>12, <1>13, <1>14, <1>15, <1>16, <1>17, <1>18 DEF RunnerStep

\* So do the steps of the calls.
LEMMA SafeCaller ==
  ASSUME NEW t \in Threads PROVE TypeOK /\ Safe /\ CallerNext(t) => Safe'
<1> SUFFICES ASSUME TypeOK, Safe, CallerNext(t) PROVE Safe'
  OBVIOUS
<1> USE LifecycleAssumption
    DEF Free, Broadcast, LoopDone, TypeOK,
        Safe, StateInv, AckInv, CounterInv, StopInv, DoneInv
<1>1. CASE PauseCall(t)
  BY <1>1 DEF PauseCall, ClearAck
<1>2. CASE PauseWake(t)
  BY <1>2 DEF PauseWake
<1>3. CASE ResumeCall(t)
  BY <1>3 DEF ResumeCall, ClearAck, Resumable
<1>4. CASE StopCall(t)
  BY <1>4 DEF StopCall, MarkStop, Stoppable
<1>5. CASE StrategyCall(t)
  BY <1>5 DEF StrategyCall
<1>6. CASE StrategyReturn(t)
  BY <1>6 DEF StrategyReturn
<1>7. CASE SaveCall(t)
  BY <1>7 DEF SaveCall
<1>8. CASE SaveStamp(t)
  BY <1>8 DEF SaveStamp
<1>9. CASE SaveReturn(t)
  BY <1>9 DEF SaveReturn
<1>10. CASE Load(t)
  BY <1>10 DEF Load, Restored, PartlyRestored
<1>11. CASE DestroyCall(t)
  BY <1>11 DEF DestroyCall, MarkStop
<1>12. CASE DestroyWake(t)
  BY <1>12 DEF DestroyWake
<1> QED
  BY <1>1, <1>2, <1>3, <1>4, <1>5, <1>6, <1>7, <1>8, <1>9, <1>10, <1>11, <1>12
     DEF CallerNext, CallStep

\* Who is inside the instance and who sleeps in it: the runner's steps ...
LEMMA WaitRunner == TypeOK /\ WaitInv /\ (RunCall \/ RunnerStep) => WaitInv'
<1> SUFFICES ASSUME TypeOK, WaitInv, RunCall \/ RunnerStep PROVE WaitInv'
  OBVIOUS
<1> USE LifecycleAssumption
    DEF Goto, Quiet, SetState, FailRun, Broadcast, LoopDone, TypeOK, WaitInv
<1>1. CASE RunCall
  BY <1>1 DEF RunCall
<1>2. CASE Validate
  BY <1>2 DEF Validate, ResumedFrom
<1>3. CASE Dispatch
  BY <1>3 DEF Dispatch, LastDone
<1>4. CASE Test
  BY <1>4 DEF Test, LeaveLoop, MustSleep, MayIterate
<1>5. CASE RunnerWake
  BY <1>5 DEF RunnerWake, LeaveLoop, MustSleep, MayIterate
<1>6. CASE Iterate
  BY <1>6 DEF Iterate
<1>7. CASE Publish
  BY <1>7 DEF Publish
<1>8. CASE Drop
  BY <1>8 DEF Drop, AfterMeasure
<1>9. CASE Measure
  BY <1>9 DEF Measure, AfterMeasure
<1>10. CASE CheckBudget
  BY <1>10 DEF CheckBudget
<1>11. CASE NameCause
  BY <1>11 DEF NameCause, LoopCause
<1>12. CASE ReadStopped
  BY <1>12 DEF ReadStopped, LeftStopped
<1>13. CASE ReadPaused
  BY <1>13 DEF ReadPaused
<1>14. CASE SyncStopped
  BY <1>14 DEF SyncStopped
<1>15. CASE Sync
  BY <1>15 DEF Sync
<1>16. CASE FinalMeasure
  BY <1>16 DEF FinalMeasure
<1>17. CASE Complete
  BY <1>17 DEF Complete
<1>18. CASE Finish
  BY <1>18 DEF Finish, LeaveRun
<1> QED
  BY <1>1, <1>2, <1>3, <1>4, <1>5, <1>6, <1>7, <1>8, <1>9, <1>10, <1>11, <1>12,
     <1>13, <1>14, <1>15, <1>16, <1>17, <1>18 DEF RunnerStep

\* ... and the steps of the calls.
LEMMA WaitCaller ==
  ASSUME NEW t \in Threads
  PROVE TypeOK /\ WaitInv /\ CallerNext(t) => WaitInv'
<1> SUFFICES ASSUME TypeOK, WaitInv, CallerNext(t) PROVE WaitInv'
  OBVIOUS
<1> USE LifecycleAssumption
    DEF Free, Enter, Broadcast, LoopDone, TypeOK, WaitInv
<1>1. CASE PauseCall(t)
  BY <1>1 DEF PauseCall, ClearAck
<1>2. CASE PauseWake(t)
  BY <1>2 DEF PauseWake, PauseHolds
<1>3. CASE ResumeCall(t)
  BY <1>3 DEF ResumeCall, ClearAck, Resumable
<1>4. CASE StopCall(t)
  BY <1>4 DEF StopCall, MarkStop, Stoppable
<1>5. CASE StrategyCall(t)
  BY <1>5 DEF StrategyCall
<1>6. CASE StrategyReturn(t)
  BY <1>6 DEF StrategyReturn
<1>7. CASE SaveCall(t)
  BY <1>7 DEF SaveCall
<1>8. CASE SaveStamp(t)
  BY <1>8 DEF SaveStamp
<1>9. CASE SaveReturn(t)
  BY <1>9 DEF SaveReturn
<1>10. CASE Load(t)
  BY <1>10 DEF Load, Restored, PartlyRestored
<1>11. CASE DestroyCall(t)
  BY <1>11 DEF DestroyCall, MarkStop, MustWait
<1>12. CASE DestroyWake(t)
  <2>1. CASE MustWait
    BY <1>12, <2>1 DEF DestroyWake, MustWait
  <2>2. CASE ~MustWait
    <3>1. /\ call[t] = "destroy" /\ t \notin waitSet
          /\ UNCHANGED <<pc, active, waitSet, call, state>>
      BY <1>12, <2>2 DEF DestroyWake
    <3>2. waitSet \subseteq {t}
      BY <3>1
    <3>3. waitSet = {}
      BY <3>1, <3>2
    <3> QED
      BY <2>2, <3>1, <3>3 DEF MustWait
  <2> QED
    BY <2>1, <2>2
<1> QED
  BY <1>1, <1>2, <1>3, <1>4, <1>5, <1>6, <1>7, <1>8, <1>9, <1>10, <1>11, <1>12
     DEF CallerNext, CallStep

\* Why a sampled run has ended: the runner's steps ...
LEMMA CauseRunner == TypeOK /\ Safe /\ CauseInv /\ (RunCall \/ RunnerStep) => CauseInv'
<1> SUFFICES ASSUME TypeOK, Safe, CauseInv, RunCall \/ RunnerStep PROVE CauseInv'
  OBVIOUS
<1> USE LifecycleAssumption
    DEF Goto, Quiet, SetState, FailRun, Broadcast, LoopDone, TypeOK,
        CauseInv, HonestCause,
        Safe, StateInv, CounterInv, StopInv, DoneInv
<1>1. CASE RunCall
  BY <1>1 DEF RunCall
<1>2. CASE Validate
  BY <1>2 DEF Validate, ResumedFrom
<1>3. CASE Dispatch
  BY <1>3 DEF Dispatch, LastDone
<1>4. CASE Test
  BY <1>4 DEF Test, LeaveLoop, MustSleep, MayIterate
<1>5. CASE RunnerWake
  BY <1>5 DEF RunnerWake, LeaveLoop, MustSleep, MayIterate
<1>6. CASE Iterate
  BY <1>6 DEF Iterate
<1>7. CASE Publish
  BY <1>7 DEF Publish
<1>8. CASE Drop
  BY <1>8 DEF Drop, AfterMeasure
<1>9. CASE Measure
  BY <1>9 DEF Measure, AfterMeasure
<1>10. CASE CheckBudget
  BY <1>10 DEF CheckBudget
<1>11. CASE NameCause
  BY <1>11 DEF NameCause, LoopCause
<1>12. CASE ReadStopped
  BY <1>12 DEF ReadStopped, LeftStopped
<1>13. CASE ReadPaused
  BY <1>13 DEF ReadPaused
<1>14. CASE SyncStopped
  BY <1>14 DEF SyncStopped
<1>15. CASE Sync
  BY <1>15 DEF Sync
<1>16. CASE FinalMeasure
  BY <1>16 DEF FinalMeasure
<1>17. CASE Complete
  BY <1>17 DEF Complete
<1>18. CASE Finish
  BY <1>18 DEF Finish, LeaveRun
<1> QED
  BY <1>1, <1>2, <1>3, <1>4, <1>5, <1>6, <1>7, <1>8, <1>9, <1>10, <1>11, <1>12,
     <1>13, <1>14, <1>15, <1>16, <1>17, <1>18 DEF RunnerStep

\* ... and the steps of the calls.
LEMMA CauseCaller ==
  ASSUME NEW t \in Threads
  PROVE TypeOK /\ Safe /\ CauseInv /\ CallerNext(t) => CauseInv'
<1> SUFFICES ASSUME TypeOK, Safe, CauseInv, CallerNext(t) PROVE CauseInv'
  OBVIOUS
<1> USE LifecycleAssumption
    DEF Free, Enter, Broadcast, LoopDone, TypeOK, CauseInv, HonestCause,
        Safe, StateInv, CounterInv, StopInv, DoneInv
<1>1. CASE PauseCall(t)
  BY <1>1 DEF PauseCall, ClearAck
<1>2. CASE PauseWake(t)
  BY <1>2 DEF PauseWake, PauseHolds
<1>3. CASE ResumeCall(t)
  BY <1>3 DEF ResumeCall, ClearAck, Resumable
<1>4. CASE StopCall(t)
  BY <1>4 DEF StopCall, MarkStop, Stoppable
<1>5. CASE StrategyCall(t)
  BY <1>5 DEF StrategyCall
<1>6. CASE StrategyReturn(t)
  BY <1>6 DEF StrategyReturn
<1>7. CASE SaveCall(t)
  BY <1>7 DEF SaveCall
<1>8. CASE SaveStamp(t)
  BY <1>8 DEF SaveStamp
<1>9. CASE SaveReturn(t)
  BY <1>9 DEF SaveReturn
<1>10. CASE Load(t)
  BY <1>10 DEF Load, Restored, PartlyRestored
<1>11. CASE DestroyCall(t)
  BY <1>11 DEF DestroyCall, MarkStop, MustWait
<1>12. CASE DestroyWake(t)
  BY <1>12 DEF DestroyWake, MustWait
<1> QED
  BY <1>1, <1>2, <1>3, <1>4, <1>5, <1>6, <1>7, <1>8, <1>9, <1>10, <1>11, <1>12
     DEF CallerNext, CallStep

\* It holds initially ...
LEMMA InductiveInit == Init => Inductive
<1> SUFFICES ASSUME Init PROVE Inductive
  OBVIOUS
<1>1. TypeOK
  BY TypeInit
<1>2. StateInv /\ AckInv /\ CounterInv /\ StopInv /\ DoneInv
  BY LifecycleAssumption
     DEF Init, StateInv, AckInv, CounterInv, StopInv, DoneInv
<1>3. WaitInv
  BY LifecycleAssumption DEF Init, WaitInv
<1>4. CauseInv
  BY DEF Init, CauseInv
<1> QED
  BY <1>1, <1>2, <1>3, <1>4 DEF Inductive

\* ... and every step preserves it.
LEMMA InductiveStep == Inductive /\ [Next]_vars => Inductive'
<1> SUFFICES ASSUME Inductive, [Next]_vars PROVE Inductive'
  OBVIOUS
<1>1. TypeOK /\ Safe /\ WaitInv /\ CauseInv
  BY DEF Inductive, Safe
<1>2. TypeOK'
  BY <1>1, TypeStep
<1>3. Safe' /\ WaitInv' /\ CauseInv'
  <2>1. CASE RunCall \/ RunnerStep
    BY <2>1, <1>1, SafeRunner, WaitRunner, CauseRunner
  <2>2. CASE \E t \in Threads : CallerNext(t)
    BY <2>2, <1>1, SafeCaller, WaitCaller, CauseCaller
  <2>3. CASE UNCHANGED <<solverVars, runnerVars, storageVars, callerVars,
                         instance, stopMark>> /\ waitSet' \subseteq waitSet
    BY <2>3, <1>1
       DEF Safe, StateInv, AckInv, CounterInv, StopInv, DoneInv, LoopDone,
           WaitInv, CauseInv, HonestCause
  <2> QED
    BY <2>1, <2>2, <2>3 DEF Next, Finished, SpuriousWake
<1> QED
  BY <1>2, <1>3 DEF Inductive, Safe

\* The inductive invariant of the lifecycle holds: where pe_solver_run may be in
\* each state, who holds the acknowledgement, how the counters move in step, who
\* is inside the instance, and why a run has ended.
THEOREM InductiveInvariant == Spec => []Inductive
  BY InductiveInit, InductiveStep, PTL DEF Spec

\* A pause is acknowledged only while the runner is at an iteration boundary,
\* for any number of threads pausing, resuming and stopping.
THEOREM AckIsQuiescent == Spec => []AckMeansQuiescent
<1>1. Inductive => AckMeansQuiescent
  BY DEF Inductive, AckInv, AckMeansQuiescent
<1> QED
  BY <1>1, InductiveInvariant, PTL

\* At most one iteration is applied and counted after the first stop.
THEOREM StopIsGraceful == Spec => []StopGrace
<1>1. Inductive => StopGrace
  BY DEF Inductive, TypeOK, CounterInv, StopInv, StopGrace
<1> QED
  BY <1>1, InductiveInvariant, PTL

\* The published iteration is the number of iterations the storage holds.
THEOREM StampIsRight == Spec => []CounterTracksStorage
<1>1. Inductive => CounterTracksStorage
  BY DEF Inductive, CounterInv, CounterTracksStorage
<1> QED
  BY <1>1, InductiveInvariant, PTL

\* COMPLETED means the quota or the target was met, on an intact storage.
THEOREM CompletionIsEarned == Spec => []CompletedMeansDone
<1>1. Inductive => CompletedMeansDone
  BY DEF Inductive, DoneInv, CompletedMeansDone
<1> QED
  BY <1>1, InductiveInvariant, PTL

\* The cause a sampled run records is the one that ended it.
THEOREM CauseIsTrue == Spec => []CauseIsHonest
<1>1. Inductive => CauseIsHonest
  BY DEF Inductive, CauseInv, CauseIsHonest
<1> QED
  BY <1>1, InductiveInvariant, PTL

\* pe_solver_destroy releases the instance only when no thread is inside it.
THEOREM DestroyIsSafe == Spec => []DestroySafe
<1>1. Inductive => DestroySafe
  BY DEF Inductive, WaitInv, DestroySafe
<1> QED
  BY <1>1, InductiveInvariant, PTL

(***************************************************************************)
(* The lifecycle implements the contract                                   *)
(***************************************************************************)

\* Every step is a step of the contract or leaves what it speaks of alone.
LEMMA ContractStep ==
  Inductive /\ [Next]_vars => [Contract!Next]_(Contract!cvars)
<1> SUFFICES ASSUME Inductive, [Next]_vars
             PROVE Contract!Next \/ UNCHANGED <<Phase, iteration, Owed>>
  BY DEF Contract!cvars
<1> USE LifecycleAssumption
    DEF Inductive, TypeOK, StateInv, CounterInv, DoneInv, LoopDone,
        Goto, Quiet, SetState, FailRun, Broadcast, Phase, Owed
<1>1. CASE RunCall
  BY <1>1 DEF RunCall
<1>2. CASE Validate
  BY <1>2 DEF Validate, ResumedFrom
<1>3. CASE Dispatch
  BY <1>3 DEF Dispatch, Contract!Next, Contract!Start
<1>4. CASE Test
  BY <1>4 DEF Test, MustSleep, MayIterate, LeaveLoop, Contract!Next,
              Contract!Begin
<1>5. CASE RunnerWake
  BY <1>5 DEF RunnerWake, MustSleep, MayIterate, LeaveLoop, Contract!Next,
              Contract!Begin
<1>6. CASE Iterate
  BY <1>6 DEF Iterate, Contract!Next, Contract!Abandon
<1>7. CASE Publish
  BY <1>7 DEF Publish, Contract!Next, Contract!Count
<1>8. CASE Drop
  BY <1>8 DEF Drop, AfterMeasure
<1>9. CASE Measure
  BY <1>9 DEF Measure, AfterMeasure, Contract!Next, Contract!Stop
<1>10. CASE CheckBudget
  BY <1>10 DEF CheckBudget, Contract!Next, Contract!Stop
<1>11. CASE NameCause
  BY <1>11 DEF NameCause
<1>12. CASE ReadStopped
  BY <1>12 DEF ReadStopped
<1>13. CASE ReadPaused
  BY <1>13 DEF ReadPaused
<1>14. CASE SyncStopped
  BY <1>14 DEF SyncStopped, Contract!Next, Contract!Stop
<1>15. CASE Sync
  BY <1>15 DEF Sync, Contract!Next, Contract!Stop
<1>16. CASE FinalMeasure
  BY <1>16 DEF FinalMeasure, Contract!Next, Contract!Stop
<1>17. CASE Complete
  BY <1>17 DEF Complete, Contract!Next, Contract!Complete
<1>18. CASE Finish
  BY <1>18 DEF Finish, LeaveRun
<1>19. ASSUME NEW t \in Threads, CallerNext(t)
       PROVE Contract!Next \/ UNCHANGED <<Phase, iteration, Owed>>
  <2>1. CASE PauseCall(t)
    BY <2>1 DEF PauseCall, ClearAck, Contract!Next, Contract!Pause
  <2>2. CASE PauseWake(t)
    BY <2>2 DEF PauseWake
  <2>3. CASE ResumeCall(t)
    BY <2>3 DEF ResumeCall, ClearAck, Resumable, Contract!Next, Contract!Resume
  <2>4. CASE StopCall(t)
    BY <2>4 DEF StopCall, Stoppable, Contract!Next, Contract!Stop
  <2>5. CASE StrategyCall(t)
    BY <2>5 DEF StrategyCall
  <2>6. CASE StrategyReturn(t)
    BY <2>6 DEF StrategyReturn
  <2>7. CASE SaveCall(t)
    BY <2>7 DEF SaveCall
  <2>8. CASE SaveStamp(t)
    BY <2>8 DEF SaveStamp
  <2>9. CASE SaveReturn(t)
    BY <2>9 DEF SaveReturn
  <2>10. CASE Load(t)
    BY <2>10 DEF Load, Restored, PartlyRestored, Contract!Next, Contract!Restore
  <2>11. CASE DestroyCall(t)
    BY <2>11 DEF DestroyCall, Contract!Next, Contract!Stop
  <2>12. CASE DestroyWake(t)
    BY <2>12 DEF DestroyWake
  <2> QED
    BY <1>19, <2>1, <2>2, <2>3, <2>4, <2>5, <2>6, <2>7, <2>8, <2>9, <2>10, <2>11, <2>12
       DEF CallerNext, CallStep
<1>20. CASE UNCHANGED <<solverVars, runnerVars, storageVars>>
  BY <1>20
<1> QED
  BY <1>1, <1>2, <1>3, <1>4, <1>5, <1>6, <1>7, <1>8, <1>9, <1>10, <1>11, <1>12, <1>13, <1>14, <1>15, <1>16, <1>17, <1>18, <1>19, <1>20
     DEF Next, RunnerStep, SpuriousWake, Finished

\* The lifecycle implements the contract of pe_solver.h.
THEOREM LifecycleImplementsContract == Spec => ImplementsContract
<1>1. Init => Contract!Init
  BY DEF Init, Contract!Init, Phase, Owed
<1> QED
  BY <1>1, ContractStep, InductiveInvariant, PTL DEF Spec, ImplementsContract, Contract!Spec
==============================================================================

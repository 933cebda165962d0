--------------------------- MODULE SolverLifecycle ---------------------------
(***************************************************************************)
(* The life of one pe_solver_t (src/src/solver/domain/solver.c): the       *)
(* blocking call pe_solver_run, executed by one thread (the runner), and   *)
(* the control and result calls other threads make while it runs.          *)
(*                                                                         *)
(* lifecycle_lock makes every critical section one action.  lifecycle_cond *)
(* is the set of the threads asleep in pthread_cond_wait: a broadcast      *)
(* empties it, a thread that is woken must take the lock again in a later  *)
(* step, and a thread may wake spuriously.  What the code reads without    *)
(* the lock, or under two separate acquisitions of it, is two steps.       *)
(***************************************************************************)
EXTENDS Integers, FiniteSets

CONSTANTS
    Threads,         \* the threads that make control and result calls
    Runner,          \* the thread inside pe_solver_run
    Lanes,           \* the lanes the plan may choose: "vector", "sampled"
    MaxIterations,   \* config.max_iterations, not 0
    Interval,        \* config.exploitability_interval, 0 for never
    TargetEnabled,   \* some convergence target is configured
    MemoryBudget,    \* execution.max_ram_bytes is set
    Faults,          \* the steps of a run, and the calls, that may fail
    LoadedIterations,\* iteration stamps of the checkpoints on disk
    MaxCalls         \* BOUND: calls each thread makes

FaultPoints == {"validate", "dispatch", "iterate", "measure", "sync", "load",
                "save"}

ASSUME LifecycleAssumption ==
    /\ Runner \notin Threads
    /\ Lanes \subseteq {"vector", "sampled"} /\ Lanes # {}
    /\ MaxIterations \in Nat \ {0}
    /\ Interval \in Nat
    /\ TargetEnabled \in BOOLEAN
    /\ MemoryBudget \in BOOLEAN
    /\ Faults \subseteq FaultPoints
    /\ LoadedIterations \subseteq Nat
    /\ MaxCalls \in Nat

VARIABLES
    state,       \* solver->state
    active,      \* solver->runner_active
    ack,         \* solver->pause_acknowledged
    iteration,   \* solver->iteration, the published counter
    loaded,      \* solver->checkpoint_loaded
    cause,       \* solver->stop_cause
    measured,    \* solver->metrics_available
    waitSet,     \* threads asleep on lifecycle_cond
    pc,          \* where the runner is in pe_solver_run
    iter,        \* the run loop's own counter: last iteration begun
    target,      \* the run loop's target_reached
    runStatus,   \* what pe_solver_run returned
    applied,     \* iterations whose update batch the storage holds
    mixed,       \* it also holds entries of a checkpoint that was not restored
                 \* alone and whole: of a load that failed, or of two loads
    torn,        \* an iteration failed after it had begun to change the storage
    call,        \* the call each thread is in
    ret,         \* the status each thread's last call returned
    calls,       \* how many calls each thread has made
    stamp,       \* the iteration a save in progress has read, 0 outside one
    checkpoint,  \* the file the last save has written
    lane,        \* the loop solver->plan dispatches to, fixed by the config
    freed,       \* pe_solver_destroy has released the instance
    stopMark     \* iteration when the first stop took effect, -1 before

solverVars == <<state, active, ack, iteration, loaded, cause, measured>>
runnerVars == <<pc, iter, target, runStatus>>
storageVars == <<applied, mixed, torn>>
callerVars == <<call, ret, calls, stamp, checkpoint>>
instance == <<lane, freed>>
vars == <<solverVars, waitSet, runnerVars, storageVars, callerVars, instance,
          stopMark>>

States == {"CREATED", "VALIDATED", "RUNNING", "PAUSED", "STOPPED", "COMPLETED"}
Causes == {"NONE", "ITERATIONS", "TARGET", "REQUESTED", "PAUSED",
           "MEMORY_BUDGET", "ERROR"}
Statuses == {"OK", "INVALID_STATE", "EXECUTION", "NOT_IMPLEMENTED",
             "INVALID_CONFIG"}

\* The runner has begun an iteration and has not reached the next boundary:
\* the traversal, the update batch, the counter and the eviction pass between
\* two calls of pe_solver_wait_until_running.
MidIteration == pc \in {"iterate", "publish", "drop"}

\* Points of pe_solver_run at which the loop is running or has been left.
InLoop == MidIteration \/ pc \in {"test", "asleep", "measure", "budget"}
AfterLoop == pc \in {"name_cause", "read_stopped", "read_paused",
                     "sync_stopped", "sync", "final_measure", "complete"}
Points == {"idle", "validate", "dispatch", "test", "asleep", "iterate",
           "publish", "drop", "measure", "budget", "name_cause",
           "read_stopped", "read_paused", "sync_stopped", "sync",
           "final_measure", "complete", "finish"}

Init ==
    /\ state = "CREATED" /\ active = FALSE /\ ack = FALSE
    /\ iteration = 0 /\ loaded = FALSE /\ cause = "NONE" /\ measured = FALSE
    /\ waitSet = {}
    /\ pc = "idle" /\ iter = 0 /\ target = FALSE /\ runStatus = "NONE"
    /\ applied = 0 /\ mixed = FALSE /\ torn = FALSE
    /\ call = [t \in Threads |-> "none"]
    /\ ret = [t \in Threads |-> "OK"]
    /\ calls = [t \in Threads |-> 0]
    /\ stamp = [t \in Threads |-> 0]
    /\ checkpoint = [whole |-> FALSE, iteration |-> 0, applied |-> 0,
                      torn |-> FALSE]
    /\ lane \in Lanes
    /\ freed = FALSE
    /\ stopMark = -1

Broadcast == waitSet' = {}

(***************************************************************************)
(* pe_solver_run, on the runner's thread                                   *)
(***************************************************************************)

\* The runner moves on without touching the shared fields.
Goto(p) == pc' = p
Quiet == UNCHANGED <<state, active, ack, loaded, waitSet, callerVars, instance,
                     stopMark>>

\* pe_solver_set_state from the runner
SetState(s) ==
    /\ state' = s
    /\ Broadcast
    /\ UNCHANGED <<active, ack, callerVars, instance, stopMark>>

\* An error path: the state becomes STOPPED whatever it was, and run returns.
FailRun ==
    /\ SetState("STOPPED")
    /\ Goto("finish")
    /\ runStatus' = "EXECUTION"
    /\ UNCHANGED <<iteration, loaded, measured, iter, target, applied, mixed>>

\* Accepted only in CREATED, and only by one caller at a time.  Nobody starts
\* a run on an instance that is being destroyed.
RunCall ==
    /\ \A t \in Threads : call[t] # "destroy"
    /\ pc = "idle" /\ state = "CREATED" /\ ~active
    /\ active' = TRUE
    /\ Goto("validate")
    /\ runStatus' = "IN_FLIGHT"
    /\ UNCHANGED <<state, ack, iteration, loaded, cause, measured, waitSet,
                   iter, target, storageVars, callerVars, instance, stopMark>>

\* Where the run starts: at 0 unless a checkpoint was loaded.
RestartFromZero == 0   \* mutant: the reset forgets the checkpoint
ResumedFrom == IF loaded THEN iteration ELSE 0

\* pe_solver_validate, then VALIDATED and the iteration reset.
Validate ==
    /\ pc = "validate"
    /\ \/ /\ SetState("VALIDATED")
          /\ Goto("dispatch")
          /\ iteration' = ResumedFrom
          /\ UNCHANGED <<loaded, cause, measured, iter, target, runStatus,
                         storageVars>>
       \/ /\ "validate" \in Faults
          /\ Goto("finish")
          /\ runStatus' = "INVALID_CONFIG"
          /\ Quiet
          /\ UNCHANGED <<iteration, cause, measured, iter, target, storageVars>>

\* The loop counter's first value, the last iteration already done.
OneBehind == iteration - 1   \* mutant: counts from the iteration before
LastDone == iteration

\* The lane's preamble: refuse before the first iteration, or enter the loop.
Dispatch ==
    /\ pc = "dispatch"
    /\ \/ /\ SetState("RUNNING")
          /\ Goto("test")
          /\ iter' = LastDone
          /\ cause' = IF lane = "sampled" THEN "NONE" ELSE cause
          /\ UNCHANGED <<iteration, loaded, measured, target, runStatus,
                         storageVars>>
       \/ /\ "dispatch" \in Faults
          /\ Goto("finish")
          /\ runStatus' \in {"NOT_IMPLEMENTED", "EXECUTION", "INVALID_CONFIG"}
          /\ Quiet
          /\ UNCHANGED <<iteration, cause, measured, iter, target, storageVars>>

LeaveLoop == IF lane = "sampled" THEN "name_cause" ELSE "read_stopped"

\* The loop condition up to the call of pe_solver_wait_until_running, which
\* its short-circuit makes only when another iteration is due.
OneTooMany == iter > MaxIterations \/ target   \* mutant: <= for <
LoopDone == iter >= MaxIterations \/ target

\* What pe_solver_wait_until_running waits for, and what it returns.
SleepUnlessRunning == state # "RUNNING"   \* mutant: a stop does not wake it
MustSleep == state = "PAUSED"
RunUnlessPaused == state # "PAUSED"       \* mutant: returns "no longer paused"
MayIterate == state = "RUNNING"

\* pe_solver_wait_until_running, first critical section.  The pause is
\* acknowledged here and only here, before the first wait.
Test ==
    /\ pc = "test"
    /\ \/ /\ LoopDone
          /\ Goto(LeaveLoop)
          /\ iter' = iter
          /\ Quiet
       \/ /\ ~LoopDone /\ MustSleep
          /\ ack' = TRUE
          /\ waitSet' = {Runner}
          /\ Goto("asleep")
          /\ UNCHANGED <<state, active, loaded, callerVars, instance, stopMark,
                         iter>>
       \/ /\ ~LoopDone /\ MayIterate
          /\ Goto("iterate")
          /\ iter' = iter + 1
          /\ Quiet
       \/ /\ ~LoopDone /\ ~MustSleep /\ ~MayIterate
          /\ Goto(LeaveLoop)
          /\ iter' = iter
          /\ Quiet
    /\ UNCHANGED <<iteration, cause, measured, target, runStatus, storageVars>>

\* The runner, woken, holds the lock again and tests the loop of its wait.
RunnerWake ==
    /\ pc = "asleep" /\ Runner \notin waitSet
    /\ \/ /\ MustSleep
          /\ waitSet' = waitSet \cup {Runner}
          /\ UNCHANGED <<pc, iter>>
       \/ /\ MayIterate
          /\ Goto("iterate")
          /\ iter' = iter + 1
          /\ UNCHANGED waitSet
       \/ /\ ~MustSleep /\ ~MayIterate
          /\ Goto(LeaveLoop)
          /\ UNCHANGED <<iter, waitSet>>
    /\ UNCHANGED <<solverVars, target, runStatus, storageVars, callerVars,
                   instance, stopMark>>

\* One iteration: traversal and apply_update_batch.  A failing apply may
\* leave part of the batch in the storage.
Iterate ==
    /\ pc = "iterate"
    /\ \/ /\ Goto("publish")
          /\ applied' = applied + 1
          /\ Quiet
          /\ UNCHANGED <<iteration, cause, measured, iter, target, runStatus,
                         mixed, torn>>
       \/ /\ "iterate" \in Faults
          /\ FailRun
          /\ cause' = IF lane = "sampled" THEN "ERROR" ELSE cause
          /\ torn' \in BOOLEAN /\ (torn => torn')

\* pe_solver_set_iteration
Publish ==
    /\ pc = "publish"
    /\ iteration' = iter
    /\ Goto("drop")
    /\ Quiet
    /\ UNCHANGED <<cause, measured, iter, target, runStatus, storageVars>>

\* Does the iteration just published end with a best-response measurement?
MeasureDue ==
    \/ Interval > 0 /\ iter % Interval = 0
    \/ /\ iter = MaxIterations
       /\ IF lane = "sampled" THEN Interval > 0 ELSE TargetEnabled

HeartbeatInterval == IF Interval = 0 THEN 16
                     ELSE IF Interval > 16 THEN Interval \div 16
                     ELSE Interval

\* The sampled lane compares its footprint with the budget at heartbeats.
BudgetDue ==
    /\ lane = "sampled" /\ MemoryBudget
    /\ iter = 1 \/ iter % HeartbeatInterval = 0

AfterMeasure == IF BudgetDue THEN "budget" ELSE "test"

\* pe_solver_drop_recomputable: the eviction pass that ends the iteration.
Drop ==
    /\ pc = "drop"
    /\ Goto(IF MeasureDue THEN "measure" ELSE AfterMeasure)
    /\ Quiet
    /\ UNCHANGED <<iteration, cause, measured, iter, target, runStatus,
                   storageVars>>

\* The best-response measurement may reach the configured targets.  The
\* sampled lane's failure leaves stop_cause alone.
Measure ==
    /\ pc = "measure"
    /\ \/ /\ Goto(AfterMeasure)
          /\ measured' = TRUE
          /\ target' \in BOOLEAN /\ (target' => TargetEnabled)
          /\ Quiet
          /\ UNCHANGED <<iteration, cause, iter, runStatus, storageVars>>
       \/ /\ "measure" \in Faults
          /\ FailRun
          /\ UNCHANGED <<cause, torn>>

\* The footprint is within the budget, or the run stops on it.
CheckBudget ==
    /\ pc = "budget"
    /\ \/ /\ Goto("test")
          /\ Quiet
          /\ UNCHANGED cause
       \/ /\ SetState("STOPPED")
          /\ cause' = "MEMORY_BUDGET"
          /\ Goto("name_cause")
          /\ UNCHANGED loaded
    /\ UNCHANGED <<iteration, measured, iter, target, runStatus, storageVars>>

\* Why a loop ended that nobody has given a cause yet.
CauseWithoutTarget ==        \* mutant: the target is not looked at
    CASE iter >= MaxIterations -> "ITERATIONS"
      [] iter < MaxIterations /\ state = "PAUSED" -> "PAUSED"
      [] OTHER -> "REQUESTED"
LoopCause ==
    CASE target -> "TARGET"
      [] ~target /\ iter >= MaxIterations -> "ITERATIONS"
      [] ~target /\ iter < MaxIterations /\ state = "PAUSED" -> "PAUSED"
      [] OTHER -> "REQUESTED"

\* The sampled lane names why its loop ended.
NameCause ==
    /\ pc = "name_cause"
    /\ cause' = IF cause = "NONE" THEN LoopCause ELSE cause
    /\ Goto("read_stopped")
    /\ Quiet
    /\ UNCHANGED <<iteration, measured, iter, target, runStatus, storageVars>>

\* state == STOPPED || state == PAUSED, each side its own locked read.
NeverStopped == FALSE   \* mutant: only the paused state is looked for
LeftStopped == state = "STOPPED"

ReadStopped ==
    /\ pc = "read_stopped"
    /\ Goto(IF LeftStopped THEN "sync_stopped" ELSE "read_paused")
    /\ Quiet
    /\ UNCHANGED <<iteration, cause, measured, iter, target, runStatus,
                   storageVars>>

ReadPaused ==
    /\ pc = "read_paused"
    /\ Goto(IF state = "PAUSED" THEN "sync_stopped" ELSE "sync")
    /\ Quiet
    /\ UNCHANGED <<iteration, cause, measured, iter, target, runStatus,
                   storageVars>>

\* The backend's sync before leaving; the state stays what it is, or not.
SyncStopped ==
    /\ pc = "sync_stopped"
    /\ \/ /\ Goto("finish")
          /\ runStatus' = "OK"
          /\ Quiet
          /\ UNCHANGED <<iteration, cause, measured, iter, target, storageVars>>
       \/ /\ "sync" \in Faults
          /\ FailRun
          /\ UNCHANGED <<cause, torn>>

Sync ==
    /\ pc = "sync"
    /\ \/ /\ Goto(IF lane = "sampled" /\ ~measured THEN "final_measure"
                                                  ELSE "complete")
          /\ Quiet
          /\ UNCHANGED <<iteration, cause, measured, iter, target, runStatus,
                         storageVars>>
       \/ /\ "sync" \in Faults
          /\ FailRun
          /\ UNCHANGED <<cause, torn>>

\* The sampled lane measures once if nothing has been measured yet.
FinalMeasure ==
    /\ pc = "final_measure"
    /\ \/ /\ Goto("complete")
          /\ measured' = TRUE
          /\ target' \in BOOLEAN /\ (target' => TargetEnabled)
          /\ Quiet
          /\ UNCHANGED <<iteration, cause, iter, runStatus, storageVars>>
       \/ /\ "measure" \in Faults
          /\ FailRun
          /\ UNCHANGED <<cause, torn>>

\* COMPLETED is stored whatever the state has become since it was read.
Complete ==
    /\ pc = "complete"
    /\ SetState("COMPLETED")
    /\ loaded' = (loaded /\ lane = "sampled")
    /\ runStatus' = "OK"
    /\ Goto("finish")
    /\ UNCHANGED <<iteration, cause, measured, iter, target, storageVars>>

\* run_finished: clear runner_active and wake everybody.
LeaveSilently == active' = FALSE /\ UNCHANGED waitSet   \* mutant: no broadcast
LeaveRun == active' = FALSE /\ Broadcast

Finish ==
    /\ pc = "finish"
    /\ LeaveRun
    /\ Goto("idle")
    /\ UNCHANGED <<state, ack, iteration, loaded, cause, measured, iter, target,
                   runStatus, storageVars, callerVars, instance, stopMark>>

RunnerStep ==
    \/ Validate \/ Dispatch \/ Test \/ RunnerWake \/ Iterate \/ Publish \/ Drop
    \/ Measure \/ CheckBudget \/ NameCause \/ ReadStopped \/ ReadPaused
    \/ SyncStopped \/ Sync \/ FinalMeasure \/ Complete \/ Finish

(***************************************************************************)
(* Control calls, on any other thread.  A thread makes one call at a time; *)
(* nobody calls an instance that is being or has been destroyed.           *)
(***************************************************************************)

runVars == <<active, iteration, loaded, cause, measured, runnerVars,
             storageVars>>

Free(t) ==
    /\ ~freed /\ call[t] = "none" /\ calls[t] < MaxCalls
    /\ \A u \in Threads : call[u] # "destroy"

Count(t) == calls' = [calls EXCEPT ![t] = @ + 1]
Return(t, status) == ret' = [ret EXCEPT ![t] = status]
Enter(t, c) == call' = [call EXCEPT ![t] = c]

\* A new request, or the end of one, withdraws the acknowledgement.
KeepAck == UNCHANGED ack   \* mutant: the acknowledgement outlives its pause
ClearAck == ack' = FALSE

\* What pe_solver_pause waits for.
PauseUntilResumed == state # "RUNNING" /\ ~ack   \* mutant: nor for the run's end
PauseHolds == active /\ state = "PAUSED" /\ ~ack

\* pe_solver_pause up to its first wait
PauseCall(t) ==
    /\ Free(t) /\ Count(t)
    /\ \/ /\ state = "PAUSED"
          /\ Return(t, "OK") /\ Broadcast
          /\ UNCHANGED <<state, ack, call>>
       \/ /\ state = "RUNNING"
          /\ ClearAck
          /\ state' = "PAUSED"
          /\ IF active
             THEN /\ Enter(t, "pause")
                  /\ waitSet' = waitSet \cup {t}
                  /\ UNCHANGED ret
             ELSE /\ Return(t, "OK") /\ Broadcast
                  /\ UNCHANGED call
       \/ /\ state \notin {"PAUSED", "RUNNING"}
          /\ Return(t, "INVALID_STATE") /\ Broadcast
          /\ UNCHANGED <<state, ack, call>>
    /\ UNCHANGED <<runVars, stamp, checkpoint, instance, stopMark>>

\* The pausing thread, woken, holds the lock again: wait on, or return OK.
PauseWake(t) ==
    /\ call[t] = "pause" /\ t \notin waitSet
    /\ IF PauseHolds
       THEN /\ waitSet' = waitSet \cup {t}
            /\ UNCHANGED <<call, ret>>
       ELSE /\ Broadcast
            /\ Enter(t, "none") /\ Return(t, "OK")
    /\ UNCHANGED <<state, ack, runVars, calls, stamp, checkpoint, instance,
                   stopMark>>

\* The state pe_solver_resume leaves for RUNNING
Resumable == state = "PAUSED"

\* pe_solver_resume
ResumeCall(t) ==
    /\ Free(t) /\ Count(t)
    /\ Broadcast
    /\ \/ /\ state = "RUNNING" /\ Return(t, "OK")
          /\ UNCHANGED <<state, ack>>
       \/ /\ Resumable /\ Return(t, "OK")
          /\ ClearAck /\ state' = "RUNNING"
       \/ /\ state # "RUNNING" /\ ~Resumable
          /\ Return(t, "INVALID_STATE")
          /\ UNCHANGED <<state, ack>>
    /\ UNCHANGED <<runVars, call, stamp, checkpoint, instance, stopMark>>

MarkStop == stopMark' = IF stopMark = -1 THEN iteration ELSE stopMark

\* The states pe_solver_stop leaves for STOPPED
StoppableRunning == state = "RUNNING"   \* mutant: a paused run is refused
Stoppable == state \in {"RUNNING", "PAUSED"}

\* pe_solver_stop
StopCall(t) ==
    /\ Free(t) /\ Count(t)
    /\ Broadcast
    /\ \/ /\ state = "STOPPED" /\ Return(t, "OK")
          /\ UNCHANGED <<state, stopMark>>
       \/ /\ Stoppable /\ Return(t, "OK")
          /\ state' = "STOPPED" /\ MarkStop
       \/ /\ state # "STOPPED" /\ ~Stoppable
          /\ Return(t, "INVALID_STATE")
          /\ UNCHANGED <<state, stopMark>>
    /\ UNCHANGED <<ack, runVars, call, stamp, checkpoint, instance>>

\* The guard of pe_solver_strategy: the state under the lock, the
\* acknowledgement after it.
MayReport == \/ state \in {"COMPLETED", "PAUSED"}
             \/ state = "STOPPED" /\ ack

\* pe_solver_strategy passes its guard and reads the average span.
StrategyCall(t) ==
    /\ Free(t) /\ Count(t)
    /\ IF MayReport
       THEN Enter(t, "strategy") /\ UNCHANGED ret
       ELSE Return(t, "INVALID_STATE") /\ UNCHANGED call
    /\ UNCHANGED <<state, ack, runVars, waitSet, stamp, checkpoint, instance,
                   stopMark>>

StrategyReturn(t) ==
    /\ call[t] = "strategy"
    /\ Enter(t, "none") /\ Return(t, "OK")
    /\ UNCHANGED <<solverVars, waitSet, runnerVars, storageVars, calls, stamp,
                   checkpoint, instance, stopMark>>

\* The guard of pe_solver_save
SaveUnlessStopped == state \in {"COMPLETED", "PAUSED"}   \* mutant
MaySave == state \in {"COMPLETED", "PAUSED", "STOPPED"}

\* pe_solver_save passes its guard ...
SaveCall(t) ==
    /\ Free(t) /\ Count(t)
    /\ IF MaySave
       THEN Enter(t, "stamp") /\ UNCHANGED ret
       ELSE Return(t, "INVALID_STATE") /\ UNCHANGED call
    /\ UNCHANGED <<state, ack, runVars, waitSet, stamp, checkpoint, instance,
                   stopMark>>

\* ... reads the published iteration ...
SaveStamp(t) ==
    /\ call[t] = "stamp"
    /\ Enter(t, "save")
    /\ stamp' = [stamp EXCEPT ![t] = iteration]
    /\ UNCHANGED <<solverVars, waitSet, runnerVars, storageVars, ret, calls,
                   checkpoint, instance, stopMark>>

\* ... and has the persistence port write the storage under that number, over
\* the file of the save before: a write that fails may leave it untouched, when
\* it fails to open, or cut short.
SaveReturn(t) ==
    /\ call[t] = "save"
    /\ Enter(t, "none")
    /\ stamp' = [stamp EXCEPT ![t] = 0]
    /\ \/ /\ Return(t, "OK")
          /\ checkpoint' = [whole |-> TRUE, iteration |-> stamp[t],
                            applied |-> applied, torn |-> torn]
       \/ /\ "save" \in Faults
          /\ Return(t, "EXECUTION")
          /\ checkpoint' \in {checkpoint, [checkpoint EXCEPT !.whole = FALSE]}
    /\ UNCHANGED <<solverVars, waitSet, runnerVars, storageVars, calls,
                   instance, stopMark>>

\* A whole checkpoint of k iterations enters the storage.  A load clears
\* nothing, so what an earlier one has left may stay beside it.
Restored(k) ==
    /\ applied' = k
    /\ mixed' \in BOOLEAN /\ (applied = 0 /\ ~mixed => ~mixed')

\* A load that fails has applied nothing, or the entries it got to: those are no
\* whole iterations, and applied does not count them.
PartlyRestored == UNCHANGED applied /\ (UNCHANGED mixed \/ mixed' = TRUE)

\* pe_solver_load: refused, or the storage and then the counter become the
\* checkpoint's, or the storage alone when the port fails.  It holds no lock; a
\* load while a run is in flight is the caller's error.
Load(t) ==
    /\ Free(t) /\ Count(t)
    /\ \/ /\ state \notin {"CREATED", "VALIDATED"}
          /\ Return(t, "INVALID_STATE")
          /\ UNCHANGED <<state, iteration, loaded, applied, mixed, waitSet>>
       \/ /\ state \in {"CREATED", "VALIDATED"} /\ pc = "idle"
          /\ \/ /\ \E k \in LoadedIterations : Restored(k) /\ iteration' = k
                /\ state' = "CREATED" /\ loaded' = TRUE
                /\ Broadcast
                /\ Return(t, "OK")
             \/ /\ "load" \in Faults
                /\ PartlyRestored
                /\ Return(t, "EXECUTION")
                /\ UNCHANGED <<state, iteration, loaded, waitSet>>
    /\ UNCHANGED <<active, ack, cause, measured, runnerVars, torn, call, stamp,
                   checkpoint, instance, stopMark>>

\* What pe_solver_destroy waits for.
MustWait == active

\* pe_solver_destroy: stop a run, wake everybody, wait until the runner has
\* left.  It asks nothing of the threads that are in a call ...
DestroyCall(t) ==
    /\ Free(t) /\ Count(t)
    /\ IF state \in {"RUNNING", "PAUSED"}
       THEN state' = "STOPPED" /\ MarkStop
       ELSE UNCHANGED <<state, stopMark>>
    /\ Enter(t, "destroy")
    /\ waitSet' = IF MustWait THEN {t} ELSE {}
    /\ UNCHANGED <<ack, runVars, ret, stamp, checkpoint, instance>>

\* ... and release the storage and the instance.
DestroyWake(t) ==
    /\ call[t] = "destroy" /\ t \notin waitSet
    /\ IF MustWait
       THEN waitSet' = waitSet \cup {t} /\ UNCHANGED instance
       ELSE freed' = TRUE /\ UNCHANGED <<waitSet, lane>>
    /\ UNCHANGED <<solverVars, runnerVars, storageVars, callerVars, stopMark>>

\* POSIX lets a condition wait return without a broadcast.
SpuriousWake ==
    /\ \E t \in waitSet : waitSet' = waitSet \ {t}
    /\ UNCHANGED <<solverVars, runnerVars, storageVars, callerVars, instance,
                   stopMark>>

\* The steps a call takes on its own once it has been made, while there is an
\* instance to take them on.
CallStep(t) ==
    /\ ~freed
    /\ \/ PauseWake(t) \/ StrategyReturn(t) \/ SaveStamp(t) \/ SaveReturn(t)
       \/ DestroyWake(t)

CallerNext(t) ==
    \/ PauseCall(t) \/ ResumeCall(t) \/ StopCall(t) \/ StrategyCall(t)
    \/ SaveCall(t) \/ Load(t) \/ DestroyCall(t) \/ CallStep(t)

\* Every thread is done: nothing is left to do, which is not a deadlock.
Finished ==
    /\ pc = "idle"
    /\ \A t \in Threads : call[t] = "none" \/ freed
    /\ UNCHANGED vars

Next ==
    \/ RunCall \/ RunnerStep
    \/ \E t \in Threads : CallerNext(t)
    \/ SpuriousWake
    \/ Finished

Spec == Init /\ [][Next]_vars

(***************************************************************************)
(* Fairness.  The scheduler runs every thread that is not blocked: the     *)
(* runner inside pe_solver_run, and a thread inside a call.  Nothing says  *)
(* that anybody makes a call, and no spurious wake is owed.                *)
(***************************************************************************)
Fairness == /\ WF_vars(RunnerStep)
            /\ \A t \in Threads : WF_vars(CallStep(t))

FairSpec == Spec /\ Fairness

(***************************************************************************)
(* Properties                                                              *)
(***************************************************************************)

\* Every variable stays in its range.
TypeOK ==
    /\ state \in States /\ active \in BOOLEAN /\ ack \in BOOLEAN
    /\ iteration \in Nat /\ loaded \in BOOLEAN /\ cause \in Causes
    /\ measured \in BOOLEAN
    /\ waitSet \subseteq Threads \cup {Runner}
    /\ pc \in Points /\ iter \in Nat /\ target \in BOOLEAN
    /\ runStatus \in Statuses \cup {"NONE", "IN_FLIGHT"}
    /\ applied \in Nat /\ mixed \in BOOLEAN /\ torn \in BOOLEAN
    /\ call \in [Threads -> {"none", "pause", "strategy", "stamp", "save",
                             "destroy"}]
    /\ ret \in [Threads -> Statuses]
    /\ calls \in [Threads -> Nat]
    /\ stamp \in [Threads -> Nat]
    /\ checkpoint \in [whole : BOOLEAN, iteration : Nat, applied : Nat,
                       torn : BOOLEAN]
    /\ lane \in {"vector", "sampled"}
    /\ freed \in BOOLEAN
    /\ stopMark \in Nat \cup {-1}

\* While a pause is acknowledged the runner is at an iteration boundary,
\* whatever mix of pause, resume and stop the other threads have made since:
\* "the run loop acknowledges only after its current iteration has reached
\* wait_until_running()" (solver.c, pe_solver_pause).
AckMeansQuiescent == ack => ~MidIteration

\* After the first effective stop at most the iteration in flight is still
\* applied and counted, and no other begins ("a graceful stop at the next safe
\* point").
StopGrace ==
    stopMark # -1 =>
        /\ iteration <= stopMark + 1
        /\ pc \in {"iterate", "publish"} => iteration = stopMark
        /\ ~mixed => applied <= stopMark + 1

\* Whenever the runner is not between the batch and the counter, the
\* published iteration is the number of iterations the storage holds, so a
\* checkpoint taken at a boundary carries the right stamp, resumed or not.  A
\* load that failed half way, or a second load over what another has left, is
\* the exception: the run that follows counts from where the last whole load,
\* or none, has put the counter, over entries of another (README, section 7).
CounterTracksStorage == pc # "publish" /\ ~mixed => iteration = applied

\* COMPLETED is reported only for a solve that met its quota or its target,
\* with an intact storage nobody is changing: the loop's three exits and the
\* two separate reads of the state after it never turn a stop into this.
CompletedMeansDone ==
    state = "COMPLETED" => /\ iteration >= MaxIterations \/ target
                           /\ ~InLoop /\ ~torn

\* What the recorded cause says, about the loop it names.
HonestCause ==
    /\ cause \in {"ITERATIONS", "TARGET", "REQUESTED", "MEMORY_BUDGET"}
    /\ cause = "TARGET" => target
    /\ cause = "ITERATIONS" => iteration >= MaxIterations
    /\ cause = "REQUESTED" => stopMark # -1 /\ iteration < MaxIterations

\* When a sampled run has returned OK its stop cause is the true one.
CauseIsHonest ==
    (lane = "sampled" /\ runStatus = "OK" /\ pc = "idle") => HonestCause

\* An instance is released only when the run has ended and no thread is asleep
\* on its condition variable, whatever pauses, saves and reads were in progress
\* when pe_solver_destroy was called.  A thread that is awake inside one of
\* those calls is not waited for (README, section 7).
DestroySafe == freed => pc = "idle" /\ ~active /\ waitSet = {}

\* A save reads the storage only at an iteration boundary ("Checkpoints can
\* only observe the storage at this boundary, never mid-iteration").
SaveAtBoundary ==
    \A t \in Threads : call[t] \in {"stamp", "save"} => ~MidIteration

\* A run returns, or it sleeps at a boundary because somebody holds it paused:
\* a stop or a resume is never lost on a runner that is asleep.
RunEndsOrIsHeld ==
    active ~> (~active \/ (state = "PAUSED" /\ pc = "asleep"))

\* pe_solver_destroy returns, whatever the runner is doing when it is called.
DestroyReturns == \A t \in Threads : call[t] = "destroy" ~> freed

\* pe_solver_pause returns ("may block until the current iteration reaches
\* that point").
PauseReturns == \A t \in Threads : call[t] = "pause" ~> call[t] # "pause"

\* A strategy may be read once a stopped run has returned ("graceful stops
\* (STOPPED) and pauses (PAUSED) must be reportable").
StoppedIsReportable ==
    (runStatus = "OK" /\ pc = "idle" /\ state = "STOPPED") => MayReport

\* The inductive invariant, in parts.  The state follows the runner: fresh
\* until the loop is entered, a solve in progress inside it, and COMPLETED
\* only from the end of the run.
StateInv ==
    /\ pc = "validate" => state = "CREATED"
    /\ pc = "dispatch" => state = "VALIDATED"
    /\ InLoop \/ AfterLoop => state \in {"RUNNING", "PAUSED", "STOPPED"}
    /\ state = "CREATED" => pc \in {"idle", "validate", "finish"}
    /\ (runStatus = "IN_FLIGHT") = (pc \notin {"idle", "finish"})
    /\ runStatus = "OK" => state \notin {"CREATED", "VALIDATED"}

\* Who holds the acknowledgement, and where the runner then is.
AckInv ==
    ack => \/ state = "PAUSED" /\ pc = "asleep"
           \/ /\ state = "STOPPED"
              /\ pc \in {"asleep", "name_cause", "read_stopped",
                         "sync_stopped", "finish", "idle"}

\* The loop's counter, the published one and the storage move in step.
CounterInv ==
    /\ pc \in {"iterate", "publish"} => iter = iteration + 1
    /\ ~mixed => applied = (IF pc = "publish" THEN iter ELSE iteration)
    /\ AfterLoop \/ pc \in {"test", "asleep", "drop", "measure", "budget"} =>
           iter = iteration
    /\ state = "CREATED" /\ ~loaded => iteration = 0

\* A stop is final, and leaves at most the iteration in flight.
StopInv ==
    stopMark # -1 =>
        /\ state \in {"STOPPED", "COMPLETED"}
        /\ IF pc \in {"iterate", "publish"} THEN iteration = stopMark
                                           ELSE iteration <= stopMark + 1

\* Which way a run left its loop.
DoneInv ==
    /\ target => measured /\ TargetEnabled
    /\ pc = "asleep" => ~LoopDone
    /\ pc \in {"name_cause", "read_stopped"} => LoopDone \/ state = "STOPPED"
    /\ pc \in {"read_paused", "sync", "complete"} => LoopDone
    /\ pc = "final_measure" => iter >= MaxIterations
    /\ state = "COMPLETED" => /\ pc \in {"finish", "idle"} /\ ~torn
                              /\ iteration >= MaxIterations \/ target
    /\ torn => /\ state = "STOPPED" /\ pc \in {"finish", "idle"}
               /\ runStatus = "EXECUTION"

\* Who is inside the instance, and who sleeps in it: the runner at its wait, a
\* thread in a pause, or the one that destroys it, and then nobody else.
WaitInv ==
    /\ active = (pc # "idle")
    /\ Runner \in waitSet => pc = "asleep"
    /\ \A t \in Threads :
          /\ t \in waitSet => call[t] \in {"pause", "destroy"}
          /\ call[t] = "destroy" =>
                /\ state # "PAUSED" /\ waitSet \subseteq {t}
                /\ \A u \in Threads \ {t} : call[u] # "destroy"
    /\ freed => /\ \E t \in Threads : call[t] = "destroy"
                /\ ~active /\ waitSet = {}

\* Why a sampled run has ended, from the end of its loop on.
CauseInv ==
    lane = "sampled" =>
        /\ InLoop => cause = "NONE"
        /\ pc = "name_cause" => cause \in {"NONE", "MEMORY_BUDGET"}
        /\ (InLoop \/ pc = "name_cause") /\ cause = "NONE" /\ state = "STOPPED" =>
               stopMark # -1
        /\ \/ AfterLoop /\ pc # "name_cause"
           \/ pc \in {"finish", "idle"} /\ runStatus = "OK"
           => HonestCause
        /\ pc = "final_measure" => ~measured

Inductive ==
    /\ TypeOK /\ StateInv /\ AckInv /\ CounterInv /\ StopInv /\ DoneInv
    /\ WaitInv /\ CauseInv

\* The lifecycle implements the contract of the header: its phase is the
\* state, and an iteration is owed from its beginning to its publication.
Phase == CASE state \in {"CREATED", "VALIDATED"} -> "new"
           [] state = "RUNNING" -> "running"
           [] state = "PAUSED" -> "paused"
           [] state = "STOPPED" -> "stopped"
           [] state = "COMPLETED" -> "completed"

Owed == pc \in {"iterate", "publish"}

Contract == INSTANCE SolveContract WITH
    Quota <- MaxIterations,
    MayStopEarly <- TargetEnabled,
    Restorable <- LoadedIterations,
    phase <- Phase,
    done <- iteration,
    owed <- Owed

ImplementsContract == Contract!Spec
==============================================================================

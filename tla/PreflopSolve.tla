----------------------------- MODULE PreflopSolve -----------------------------
(***************************************************************************)
(* The threads of pe-preflop-solve (src/tools/pe_preflop_solve.c) around   *)
(* one solver: the main thread, which starts the run, takes the periodic   *)
(* checkpoints and ends the program; the runner, inside pe_solver_run; the *)
(* watcher, which turns SIGINT and SIGTERM into pe_solver_stop.            *)
(*                                                                         *)
(* Every call on the solver is the action of SolverLifecycle; this module  *)
(* adds the program's own flags and where each thread is.                  *)
(***************************************************************************)
EXTENDS SolverLifecycle

CONSTANTS
    Main, Watcher,       \* the two threads that call the solver
    CheckpointInterval,  \* --checkpoint-interval, not 0; --checkpoint is given
    Resuming,            \* --resume is given
    SignalFrom           \* BOUND: "never", "running" (the solver has entered
                         \* its loop) or "start" (the handlers are installed)

ASSUME PreflopAssumption ==
    /\ Threads = {Main, Watcher} /\ Main # Watcher
    /\ CheckpointInterval \in Nat \ {0}
    /\ Resuming \in BOOLEAN
    /\ SignalFrom \in {"never", "running", "start"}

VARIABLES
    main,            \* where the main thread is
    watcher,         \* where the watcher is
    stopRequested,   \* g_stop_requested
    signalled,       \* a signal has been delivered
    interrupted,     \* the program's record of having been interrupted
    runnerDone,      \* runner.done
    nextCheckpoint,  \* next_checkpoint
    seen,            \* iteration of the last progress snapshot acted upon
    finalSave,       \* status of the final checkpoint
    report           \* status of the first strategy read of the report

mainVars == <<main, interrupted, nextCheckpoint, seen, finalSave, report>>
signalVars == <<stopRequested, signalled>>
toolVars == <<mainVars, signalVars, watcher, runnerDone>>
pvars == <<vars, toolVars>>

MainPoints == {"load", "install", "reset", "watch", "check", "spawn", "poll",
               "pausing", "progress", "saving", "check_done", "check_flag",
               "resume", "join", "flag", "join_watcher", "final_saving",
               "reporting", "destroy", "exit"}

PInit ==
    /\ Init
    /\ main = IF Resuming THEN "load" ELSE "install"
    /\ watcher = "none"
    /\ stopRequested = FALSE /\ signalled = FALSE /\ interrupted = FALSE
    /\ runnerDone = FALSE
    /\ nextCheckpoint = CheckpointInterval /\ seen = 0
    /\ finalSave = "NONE" /\ report = "NONE"

MainGoto(p) == main' = p
At(p) == main = p /\ call[Main] = "none"

\* The checkpoint of --resume could not be loaded: the program goes to fail:
\* without handlers, watcher or run.
Unresumed == main \in {"destroy", "exit"} /\ runStatus = "NONE"

\* i_on_signal: the handler only sets the flag.
Signal ==
    /\ ~signalled
    /\ \/ /\ SignalFrom = "start"
          /\ main \notin {"load", "install", "exit"} /\ ~Unresumed
       \/ SignalFrom = "running" /\ InLoop
    /\ stopRequested' = TRUE /\ signalled' = TRUE
    /\ UNCHANGED <<vars, mainVars, watcher, runnerDone>>

(***************************************************************************)
(* The main thread                                                         *)
(***************************************************************************)

\* pe_solver_load; a load that fails is the end of the program.
LoadCheckpoint ==
    /\ At("load") /\ Load(Main)
    /\ MainGoto(IF ret'[Main] = "OK" THEN "install" ELSE "destroy")
    /\ UNCHANGED <<interrupted, nextCheckpoint, seen, finalSave, report,
                   signalVars, watcher, runnerDone>>

InstallHandlers ==
    /\ At("install") /\ MainGoto("reset")
    /\ UNCHANGED <<vars, interrupted, nextCheckpoint, seen, finalSave, report,
                   signalVars, watcher, runnerDone>>

\* The flag is cleared after the handlers are in place.
ResetFlag ==
    /\ At("reset") /\ MainGoto("watch")
    /\ stopRequested' = FALSE
    /\ UNCHANGED <<vars, interrupted, nextCheckpoint, seen, finalSave, report,
                   signalled, watcher, runnerDone>>

StartWatcher ==
    /\ At("watch") /\ MainGoto("check")
    /\ watcher' = "poll"
    /\ UNCHANGED <<vars, interrupted, nextCheckpoint, seen, finalSave, report,
                   signalVars, runnerDone>>

CheckFlag ==
    /\ At("check") /\ MainGoto("spawn")
    /\ IF stopRequested THEN StopCall(Main) ELSE UNCHANGED vars
    /\ UNCHANGED <<interrupted, nextCheckpoint, seen, finalSave, report,
                   signalVars, watcher, runnerDone>>

\* pthread_create(i_solver_runner), whose first step is pe_solver_run
StartRunner ==
    /\ At("spawn") /\ MainGoto("poll")
    /\ RunCall
    /\ UNCHANGED <<interrupted, nextCheckpoint, seen, finalSave, report,
                   signalVars, watcher, runnerDone>>

\* The monitor loop: leave it, or look at the progress.
PollDone ==
    /\ At("poll")
    /\ runnerDone
    /\ MainGoto("join")
    /\ UNCHANGED <<vars, interrupted, nextCheckpoint, seen, finalSave, report,
                   signalVars, watcher, runnerDone>>

PollProgress ==
    /\ At("poll")
    /\ ~runnerDone
    /\ seen' = iteration
    /\ MainGoto(IF state = "RUNNING" /\ iteration >= nextCheckpoint
                THEN "pausing" ELSE "poll")
    /\ UNCHANGED <<vars, interrupted, nextCheckpoint, finalSave, report,
                   signalVars, watcher, runnerDone>>

\* pe_solver_pause; its wait and its return are PauseWake.
BeginPause ==
    /\ At("pausing") /\ PauseCall(Main)
    /\ MainGoto("progress")
    /\ UNCHANGED <<interrupted, nextCheckpoint, seen, finalSave, report,
                   signalVars, watcher, runnerDone>>

\* pe_solver_pause has returned: take the checkpoint's progress, or give up.
AfterPause ==
    /\ At("progress")
    /\ IF ret[Main] = "OK"
       THEN MainGoto("saving") /\ seen' = iteration
            /\ UNCHANGED nextCheckpoint
       ELSE MainGoto("poll") /\ nextCheckpoint' = seen + CheckpointInterval
            /\ UNCHANGED seen
    /\ UNCHANGED <<vars, interrupted, finalSave, report, signalVars, watcher,
                   runnerDone>>

\* i_save_checkpoint, whose result is ignored here
PeriodicSave ==
    /\ At("saving") /\ SaveCall(Main)
    /\ MainGoto("check_done")
    /\ UNCHANGED <<interrupted, nextCheckpoint, seen, finalSave, report,
                   signalVars, watcher, runnerDone>>

\* The iteration from which the next checkpoint is due.
NextDue == seen + CheckpointInterval

NeverResume == "poll"   \* mutant: the pause taken for the save is kept
AfterSave == IF runnerDone THEN "poll" ELSE "check_flag"

CheckDone ==
    /\ At("check_done")
    /\ nextCheckpoint' = NextDue
    /\ MainGoto(AfterSave)
    /\ UNCHANGED <<vars, interrupted, seen, finalSave, report, signalVars,
                   watcher, runnerDone>>

CheckStop ==
    /\ At("check_flag")
    /\ MainGoto(IF stopRequested THEN "poll" ELSE "resume")
    /\ UNCHANGED <<vars, interrupted, nextCheckpoint, seen, finalSave, report,
                   signalVars, watcher, runnerDone>>

ResumeRun ==
    /\ At("resume") /\ ResumeCall(Main)
    /\ MainGoto("poll")
    /\ UNCHANGED <<interrupted, nextCheckpoint, seen, finalSave, report,
                   signalVars, watcher, runnerDone>>

\* pthread_join(solver_thread), then the flag is read and reused.
JoinRunner ==
    /\ At("join") /\ MainGoto("flag")
    /\ interrupted' = stopRequested
    /\ UNCHANGED <<vars, nextCheckpoint, seen, finalSave, report, signalVars,
                   watcher, runnerDone>>

ReleaseWatcher ==
    /\ At("flag") /\ MainGoto("join_watcher")
    /\ stopRequested' = TRUE
    /\ UNCHANGED <<vars, interrupted, nextCheckpoint, seen, finalSave, report,
                   signalled, watcher, runnerDone>>

DetachWatcher == TRUE   \* mutant: the watcher is not joined
WatcherJoined == watcher = "done"

JoinWatcher ==
    /\ At("join_watcher") /\ WatcherJoined
    /\ SaveCall(Main)
    /\ MainGoto("final_saving")
    /\ UNCHANGED <<interrupted, nextCheckpoint, seen, finalSave, report,
                   signalVars, watcher, runnerDone>>

\* The final checkpoint is on disk, or its save has failed or was refused: the
\* result is not looked at.  A failed run goes to fail:
EndSave ==
    /\ At("final_saving")
    /\ finalSave' = ret[Main]
    /\ MainGoto(IF runStatus = "OK" THEN "reporting" ELSE "destroy")
    /\ UNCHANGED <<vars, interrupted, nextCheckpoint, seen, report, signalVars,
                   watcher, runnerDone>>

\* print_strategy_report reads the strategies one infoset after the other.
Report ==
    /\ At("reporting") /\ report = "NONE" /\ StrategyCall(Main)
    /\ report' = IF MayReport THEN "OK" ELSE "INVALID_STATE"
    /\ MainGoto("destroy")
    /\ UNCHANGED <<interrupted, nextCheckpoint, seen, finalSave, signalVars,
                   watcher, runnerDone>>

Destroy ==
    /\ At("destroy") /\ DestroyCall(Main)
    /\ MainGoto("exit")
    /\ UNCHANGED <<interrupted, nextCheckpoint, seen, finalSave, report,
                   signalVars, watcher, runnerDone>>

MainStep ==
    \/ LoadCheckpoint \/ InstallHandlers \/ ResetFlag \/ StartWatcher
    \/ CheckFlag \/ StartRunner \/ PollDone \/ PollProgress \/ BeginPause
    \/ AfterPause \/ PeriodicSave \/ CheckDone \/ CheckStop \/ ResumeRun
    \/ JoinRunner \/ ReleaseWatcher \/ JoinWatcher \/ EndSave \/ Report
    \/ Destroy

(***************************************************************************)
(* The other threads                                                       *)
(***************************************************************************)

\* i_stop_watcher: one call of pe_solver_stop, then the thread ends.
WatcherStop ==
    /\ watcher = "poll" /\ stopRequested
    /\ StopCall(Watcher)
    /\ watcher' = "done"
    /\ UNCHANGED <<mainVars, signalVars, runnerDone>>

\* i_solver_runner after pe_solver_run
RunnerDone ==
    /\ pc = "idle" /\ runStatus \notin {"NONE", "IN_FLIGHT"} /\ ~active
    /\ ~runnerDone
    /\ runnerDone' = TRUE
    /\ UNCHANGED <<vars, mainVars, signalVars, watcher>>

RunnerThread == \/ RunnerStep /\ UNCHANGED toolVars
                \/ RunnerDone

InCall(t) == CallStep(t) /\ UNCHANGED toolVars

Wake == SpuriousWake /\ UNCHANGED toolVars

Exited == main = "exit" /\ freed /\ UNCHANGED pvars

PNext == \/ MainStep \/ InCall(Main) \/ InCall(Watcher)
         \/ WatcherStop \/ RunnerThread \/ Signal \/ Wake \/ Exited

PSpec == PInit /\ [][PNext]_pvars

\* Each thread runs when it can; nothing obliges a signal.
PFairness == /\ WF_pvars(MainStep) /\ WF_pvars(InCall(Main))
             /\ WF_pvars(WatcherStop) /\ WF_pvars(RunnerThread)

PFairSpec == PSpec /\ PFairness

(***************************************************************************)
(* Properties                                                              *)
(***************************************************************************)

PTypeOK ==
    /\ TypeOK
    /\ main \in MainPoints
    /\ watcher \in {"none", "poll", "done"}
    /\ stopRequested \in BOOLEAN /\ signalled \in BOOLEAN
    /\ interrupted \in BOOLEAN /\ runnerDone \in BOOLEAN
    /\ nextCheckpoint \in Nat /\ seen \in Nat
    /\ finalSave \in Statuses \cup {"NONE"}
    /\ report \in Statuses \cup {"NONE"}

\* A checkpoint file that is whole is stamped with the number of iterations its
\* storage holds ("so persistence never races a storage update"): every one
\* when no signal comes, and after a signal the final one, which replaces any
\* the watcher's stop has torn.  One that holds part of a batch is left only by
\* a run that has reported its failure.
CheckpointMatches ==
    checkpoint.whole =>
        /\ (signalled => finalSave = "OK") =>
               checkpoint.iteration = checkpoint.applied
        /\ checkpoint.torn => runStatus = "EXECUTION"

\* Nobody calls the solver, or waits inside it, once it has been released: the
\* watcher and the runner have ended by then, if they were ever started, and
\* no call is in progress but the release.  pe_solver_destroy itself does not
\* see to the last.
NoThreadOutlivesSolver ==
    freed => /\ watcher # "poll"
             /\ runStatus # "NONE" => runnerDone
             /\ \A t \in Threads : call[t] # "none" => t = Main /\ call[t] = "destroy"

\* The program ends, signalled or not.
ProgramEnds == <>(main = "exit" /\ freed)

\* A signal ends the program (docs_chantier_stop_resume.md: SIGTERM -> the run
\* stops cleanly -> checkpoint -> partial report -> clean exit).
SignalEnds == signalled ~> (main = "exit" /\ freed)

\* A whole file that holds the solver's storage as it is, under its number.
Current == checkpoint = [whole |-> TRUE, iteration |-> iteration,
                         applied |-> iteration, torn |-> FALSE]

\* A run that returned OK leaves its last iteration on disk in a final
\* checkpoint ("the final checkpoint still works"), whatever the signal and the
\* monitor's pauses did to the solver's state: the save is never refused, and
\* only a failure of the persistence port, which the program does not report in
\* its exit status, leaves no such file.
FinalCheckpointSaved ==
    (main = "exit" /\ runStatus = "OK") =>
        \/ finalSave = "OK" /\ Current
        \/ finalSave = "EXECUTION" /\ "save" \in Faults

\* The inductive invariant of the program, in parts.  Which of the other two
\* threads exist, for each place of the main thread.
Starting == {"load", "install", "reset", "watch", "check", "spawn"}
Ending == {"final_saving", "reporting", "destroy", "exit"}

ThreadInv ==
    /\ main \in Starting => pc = "idle" /\ runStatus = "NONE" /\ ~runnerDone
    /\ main \notin Starting => runStatus # "NONE" \/ Unresumed
    /\ runnerDone => pc = "idle" /\ runStatus # "NONE"
    /\ main \in {"join", "flag", "join_watcher"} \cup Ending =>
           runnerDone \/ Unresumed
    /\ main \in Starting \ {"check", "spawn"} => watcher = "none"
    /\ watcher = "done" => stopRequested
    /\ main \in Ending => watcher = "done" \/ Unresumed
    /\ Unresumed => pc = "idle" /\ ~runnerDone /\ watcher = "none"
    /\ main \in {"load", "install"} \/ Unresumed => ~signalled
    /\ main = "load" => applied = 0
    /\ mixed => Unresumed

\* The calls each thread may be in, and from where the main one makes them.
CallInv ==
    /\ call[Watcher] = "none"
    /\ call[Main] = "pause" => main = "progress"
    /\ call[Main] \in {"stamp", "save"} => main \in {"check_done", "final_saving"}
    /\ call[Main] = "strategy" => main = "destroy"
    /\ call[Main] = "destroy" => main = "exit"

\* What the two controlling threads leave of each other's state: only the main
\* thread pauses, and a resume it has decided on before the watcher's stop comes
\* too late to undo it.
ControlInv ==
    /\ main \in {"pausing", "progress", "saving", "check_done", "check_flag",
                 "resume"} => state \notin {"CREATED", "VALIDATED"}
    /\ main = "pausing" => state # "PAUSED"
    /\ main = "resume" /\ watcher = "done" => state \in {"STOPPED", "COMPLETED"}
    /\ pc = "sync_stopped" \/ (pc \in {"finish", "idle"} /\ runStatus = "OK") =>
           (watcher = "done" => state \in {"PAUSED", "STOPPED", "COMPLETED"})

\* The runner does not touch the storage again unless the main thread lets it.
Still == pc \in {"finish", "idle"} \/ AfterLoop \/ (pc = "asleep" /\ state = "PAUSED")

Matches == checkpoint.whole => checkpoint.iteration = checkpoint.applied

\* What the main thread holds while it takes a checkpoint that no signal
\* disturbs, and what it knows of the final one in any case.
SavingInv ==
    /\ ~signalled /\ main \notin {"join_watcher"} \cup Ending => ~stopRequested
    /\ ~signalled =>
          /\ call[Main] = "pause" => state = "PAUSED" \/ Still
          /\ At("progress") /\ ret[Main] = "OK" => Still
          /\ main = "saving" => Still
          /\ call[Main] \in {"stamp", "save"} => Still
          /\ Matches
    /\ call[Main] = "save" /\ (~signalled \/ main = "final_saving") =>
           stamp[Main] = iteration
    /\ At("final_saving") =>
          /\ runStatus = "OK" => \/ ret[Main] = "OK"
                                 \/ ret[Main] = "EXECUTION" /\ "save" \in Faults
          /\ ret[Main] = "OK" => Matches /\ (runStatus = "OK" => Current)
    /\ finalSave # "NONE" => main \in {"reporting", "destroy", "exit"}
    /\ finalSave = "OK" => Matches /\ (runStatus = "OK" => Current)
    /\ main \in {"reporting", "destroy", "exit"} /\ runStatus = "OK" =>
           \/ finalSave = "OK"
           \/ finalSave = "EXECUTION" /\ "save" \in Faults
    /\ checkpoint.torn => runStatus = "EXECUTION"

PInductive == PTypeOK /\ ThreadInv /\ CallInv /\ ControlInv /\ SavingInv
==============================================================================

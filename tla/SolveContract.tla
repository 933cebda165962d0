---------------------------- MODULE SolveContract ----------------------------
(***************************************************************************)
(* What pe_solver.h promises of a solve, seen through pe_solver_progress:  *)
(* a phase and a count of whole iterations.  Iterations begin only while   *)
(* the solve is running; a pause or a stop lets the one in flight complete *)
(* and no other begin; a solve is reported complete only when its quota    *)
(* (or its target) has been met; one that has ended never runs again.      *)
(***************************************************************************)
EXTENDS Naturals

CONSTANTS
    Quota,          \* config.max_iterations
    MayStopEarly,   \* a convergence target is configured
    Restorable      \* iteration numbers a checkpoint may restore

VARIABLES
    phase,          \* "new", "running", "paused", "stopped" or "completed"
    done,           \* whole iterations
    owed            \* an iteration has begun and is not yet counted

cvars == <<phase, done, owed>>

Init == phase = "new" /\ done = 0 /\ owed = FALSE

Restore == /\ phase = "new"
           /\ done' \in Restorable
           /\ UNCHANGED <<phase, owed>>

Start == /\ phase = "new"
         /\ phase' = "running"
         /\ UNCHANGED <<done, owed>>

Begin == /\ phase = "running" /\ ~owed /\ done < Quota
         /\ owed' = TRUE
         /\ UNCHANGED <<phase, done>>

Count == /\ owed
         /\ owed' = FALSE
         /\ done' = done + 1
         /\ UNCHANGED phase

\* A failed iteration is never counted, and ends the solve.
Abandon == /\ owed
           /\ owed' = FALSE
           /\ phase' = "stopped"
           /\ UNCHANGED done

Pause == /\ phase = "running"
         /\ phase' = "paused"
         /\ UNCHANGED <<done, owed>>

Resume == /\ phase = "paused"
          /\ phase' = "running"
          /\ UNCHANGED <<done, owed>>

Stop == /\ phase \in {"running", "paused"}
        /\ phase' = "stopped"
        /\ UNCHANGED <<done, owed>>

Complete == /\ phase \in {"running", "paused", "stopped"}
            /\ ~owed
            /\ done >= Quota \/ MayStopEarly
            /\ phase' = "completed"
            /\ UNCHANGED <<done, owed>>

Next == \/ Restore \/ Start \/ Begin \/ Count \/ Abandon
        \/ Pause \/ Resume \/ Stop \/ Complete

Spec == Init /\ [][Next]_cvars
==============================================================================

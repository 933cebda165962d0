---------------------------- MODULE MCWorkDispatch ----------------------------
(* WorkDispatch with values for TLC. *)
EXTENDS WorkDispatch

TwoWorkers == 1..2
NoQuota == -1
Worker(r, q) == [rate |-> r, quota |-> q]

\* Equal and unequal speeds, a worker that leaves after its second unit, one
\* that announces no backend and one that refuses to announce.
SomeFleets == {<<Worker(1, NoQuota), Worker(1, NoQuota)>>,
               <<Worker(1, NoQuota), Worker(2, 2)>>,
               <<Worker(0, 1), Worker(1, NoQuota)>>,
               <<Worker(1, NoQuota), Worker(0, NoQuota)>>}
Unit(s, b, e) == [state |-> s, begin |-> b, end |-> e]

\* One state in two ranges and another, listed against the canonical order; and
\* a job whose ranges overlap.
Job == <<Unit(2, 0, 1), Unit(1, 1, 2), Unit(1, 0, 1)>>
Overlapping == <<Unit(1, 0, 2), Unit(1, 1, 3)>>
SomeJobs == {Job, Overlapping}
TwoEqual == {<<Worker(1, NoQuota), Worker(1, NoQuota)>>}
OneJob == {Job}
CrashOnly == {"crash"}
AllFaults == FaultKinds
===============================================================================

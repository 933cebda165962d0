----------------------------- MODULE WorkDispatch -----------------------------
(***************************************************************************)
(* Distributed solving (src/src/solver/domain/work_*.c): one coordinator   *)
(* accepts a batch of workers, splits a job's units over them, keeps one   *)
(* unit in flight per channel, checks every result and files it in the     *)
(* reducer, whose deltas are finally applied in a canonical order; the     *)
(* workers run pe_work_worker_serve or serve_forever.                      *)
(*                                                                         *)
(* A channel is a pair of bounded byte streams.  A frame is a number of    *)
(* chunks, written and read chunk by chunk, so both sides block where the  *)
(* sockets do.  A unit carries the number of the call that sent it, which  *)
(* the protocol does not: a result echoes only the unit's state and range. *)
(***************************************************************************)
EXTENDS Sums, SequencesExt

CONSTANTS
    Workers,      \* worker ids, in the order in which they connect
    Fleets,       \* what connects: for each worker the speed of its best
                  \* backend (0: none is usable) and its quota of units
    Forever,      \* the quota of a worker that runs serve_forever
    Jobs,         \* the unit arrays a caller may pass
    UnitSize, ResultSize, SocketSize,   \* in chunks
    Faults,       \* what may go wrong: a member of FaultKinds
    MaxCalls,     \* BOUND on the calls of dispatch_and_collect
    MaxCrashes    \* BOUND on the faults

\* A worker dies, its callback fails or names another backend than its own,
\* an allocation fails, the caller's array has no channel for a worker.
FaultKinds == {"crash", "execute", "backend", "memory", "channel"}

ASSUME DispatchAssumption ==
    /\ IsFiniteSet(Workers) /\ Workers = 1..Cardinality(Workers) /\ Workers # {}
    /\ Forever \notin Nat
    /\ \A f \in Fleets : f \in [Workers -> [rate : Nat, quota : Nat \cup {Forever}]]
    /\ \A job \in Jobs : /\ job \in Seq([state : Nat, begin : Nat, end : Nat])
                         /\ Len(job) > 0
    /\ {UnitSize, ResultSize, SocketSize} \subseteq Nat \ {0}
    /\ Faults \subseteq FaultKinds
    /\ {MaxCalls, MaxCrashes} \subseteq Nat

VARIABLES
    fleet,        \* the workers that connect
    registry,     \* coordinator->workers
    channels,     \* the channel array, in the order of acceptance
    open,         \* the coordinator's ends that are open
    down, up,     \* the two streams of each channel
    pc,           \* where the coordinator is
    at,           \* the loop index of the first sends and of shutdown
    left,         \* chunks of the frame being sent
    ready,        \* the assignments select has marked and the loop not visited
    batch, units, \* the call and its units
    assign,       \* out[]: which worker, which range, by place in the registry
    remaining,    \* inflight[].remaining
    rc,           \* what the last call returned
    records,      \* the reducer
    applied,      \* what the last reducer_apply wrote, in its order
    wpc, hand, wleft, served,  \* a worker's place, unit, chunks, count
    owed,         \* units sent on a channel and not answered (ghost)
    tainted,      \* channels a failed call left an answer owed on (ghost)
    faults        \* faults so far

registryVars == <<registry, channels, open>>
callVars == <<batch, units, assign>>
loopVars == <<pc, at, left, ready, remaining, rc>>
resultVars == <<records, applied>>
workerVars == <<wpc, hand, wleft, served>>
streamVars == <<down, up>>
ghostVars == <<owed, tainted, faults>>
dvars == <<fleet, registryVars, callVars, loopVars, resultVars, workerVars,
           streamVars, ghostVars>>

NoUnit == [state |-> 0, begin |-> 0, end |-> 0, batch |-> 0]
Stamped(unit, b) == [state |-> unit.state, begin |-> unit.begin, end |-> unit.end,
                     batch |-> b]
Key(unit) == <<unit.state, unit.begin, unit.end>>
Chunk(type, unit, last) == [type |-> type, unit |-> unit, last |-> last]
Frame(type, unit, size) == [k \in 1..size |-> Chunk(type, unit, k = size)]

DInit ==
    /\ fleet \in Fleets
    /\ registry = <<>> /\ channels = <<>> /\ open = Workers
    /\ down = [w \in Workers |-> <<>>] /\ up = [w \in Workers |-> <<>>]
    /\ pc = "accept" /\ at = 0 /\ left = 0 /\ ready = {}
    /\ batch = 0 /\ units = <<>> /\ assign = <<>> /\ remaining = <<>>
    /\ rc = "none" /\ records = <<>> /\ applied = <<>>
    /\ wpc = [w \in Workers |-> "away"] /\ hand = [w \in Workers |-> NoUnit]
    /\ wleft = [w \in Workers |-> 0] /\ served = [w \in Workers |-> 0]
    /\ owed = [w \in Workers |-> 0] /\ tainted = {} /\ faults = 0

Rate(w) == fleet[w].rate
ServesForever(w) == fleet[w].quota = Forever
Closed(w) == wpc[w] = "ended"
Room(stream) == Len(stream) < SocketSize
MayFault(kind) == kind \in Faults /\ faults < MaxCrashes

-------------------------------------------------------------------------------
\* The registry and the schedule.

\* MUTANT of Without: worker_count is not decremented.
WithoutCount(reg, w) ==
    [i \in DOMAIN reg |-> IF reg[i] = w THEN Last(reg) ELSE reg[i]]

\* unregister moves the last worker into the gap.
Without(reg, w) ==
    IF w \notin Range(reg) THEN reg
    ELSE Front([i \in DOMAIN reg |-> IF reg[i] = w THEN Last(reg) ELSE reg[i]])

\* The places of the registry that hold a worker with a usable backend.
Candidates == {i \in DOMAIN registry : Rate(registry[i]) > 0}
Rates == [i \in DOMAIN registry |-> Rate(registry[i])]
TotalRate == SumTo(Rates, Len(registry))
Floored(n) == [i \in DOMAIN registry |-> (n * Rates[i]) \div TotalRate]
Fraction(n) == [i \in DOMAIN registry |-> (n * Rates[i]) % TotalRate]

\* The units the floors leave over go to the largest fractions, the lowest id
\* first.
Favoured(n, j, i) ==
    \/ Fraction(n)[j] > Fraction(n)[i]
    \/ Fraction(n)[j] = Fraction(n)[i] /\ registry[j] < registry[i]
LeftOver(n) == n - SumTo(Floored(n), Len(registry))
InFront(n, i) == Cardinality({j \in Candidates : Favoured(n, j, i)})

\* MUTANT of Shares: every fraction is rounded up.
SharesRoundedUp(n) ==
    [i \in DOMAIN registry |-> Floored(n)[i] + IF Fraction(n)[i] > 0 THEN 1 ELSE 0]

Shares(n) ==
    [i \in DOMAIN registry |->
        Floored(n)[i] +
            IF i \in Candidates /\ InFront(n, i) < LeftOver(n) THEN 1 ELSE 0]

\* Consecutive ranges in the order of the registry, none of them empty.
Schedule(n) ==
    [i \in {c \in Candidates : Shares(n)[c] > 0} |->
        [worker |-> registry[i], count |-> Shares(n)[i],
         first |-> 1 + SumTo(Shares(n), i - 1)]]

NextUnit(i) == assign[i].first + assign[i].count - remaining[i]

-------------------------------------------------------------------------------
\* The reducer.

Overlap(a, b) ==
    a.state = b.state /\ a.begin < b.end /\ b.begin < a.end

RecordBefore(a, b) ==
    \/ a.unit.state < b.unit.state
    \/ /\ a.unit.state = b.unit.state
       /\ \/ a.unit.begin < b.unit.begin
          \/ /\ a.unit.begin = b.unit.begin
             /\ \/ a.unit.end < b.unit.end
                \/ a.unit.end = b.unit.end /\ a.worker < b.worker

MayAccept(unit) == \A k \in DOMAIN records : ~Overlap(records[k].unit, unit)

\* MUTANT of Sorted: the deltas are applied as they arrived.
AsArrived(recs) == recs

\* The insertion sort: it leaves records that neither goes before the other as
\* they arrived.
SortsBefore(recs, i, j) ==
    \/ RecordBefore(recs[i], recs[j])
    \/ ~RecordBefore(recs[j], recs[i]) /\ i < j
Place(recs, j) == 1 + Cardinality({i \in DOMAIN recs : SortsBefore(recs, i, j)})
Sorted(recs) ==
    [k \in DOMAIN recs |-> recs[CHOOSE j \in DOMAIN recs : Place(recs, j) = k]]

-------------------------------------------------------------------------------
\* Accepting the workers.

\* accept_tcp: the next connection, its announcement, its registration.
AcceptWorker(w) ==
    /\ pc = "accept" /\ w = Len(channels) + 1 /\ up[w] # <<>>
    /\ registry' = Append(registry, w)
    /\ channels' = Append(channels, w)
    /\ up' = [up EXCEPT ![w] = Tail(@)]
    /\ pc' = IF w + 1 \in Workers THEN "accept" ELSE "idle"
    /\ UNCHANGED <<fleet, open, callVars, at, left, ready, remaining, rc,
                   resultVars, workerVars, down, ghostVars>>

\* One of the batch gives no announcement: its socket is closed ...
RejectBatch(w) ==
    /\ pc = "accept" /\ w = Len(channels) + 1 /\ up[w] = <<>> /\ Closed(w)
    /\ pc' = "reject" /\ at' = 1 /\ open' = open \ {w}
    /\ UNCHANGED <<fleet, registry, channels, callVars, left, ready, remaining,
                   rc, resultVars, workerVars, streamVars, ghostVars>>

\* MUTANT of UndoAccepted: the accepted channels stay open.
UndoWithoutClosing ==
    /\ pc = "reject"
    /\ IF at <= Len(channels)
       THEN /\ registry' = Without(registry, channels[at])
            /\ at' = at + 1
            /\ UNCHANGED <<channels, open, pc>>
       ELSE /\ channels' = <<>> /\ open' = Range(channels)
            /\ at' = 0 /\ pc' = "closed" /\ UNCHANGED registry
    /\ UNCHANGED <<fleet, callVars, left, ready, remaining, rc, resultVars,
                   workerVars, streamVars, ghostVars>>

\* ... and then each channel accepted before it, whose worker is unregistered.
\* The caller gives up and closes the listener.
UndoAccepted ==
    /\ pc = "reject"
    /\ IF at <= Len(channels)
       THEN /\ open' = open \ {channels[at]}
            /\ registry' = Without(registry, channels[at])
            /\ at' = at + 1
            /\ UNCHANGED <<channels, pc>>
       ELSE /\ channels' = <<>> /\ open' = {}
            /\ at' = 0 /\ pc' = "closed" /\ UNCHANGED registry
    /\ UNCHANGED <<fleet, callVars, left, ready, remaining, rc, resultVars,
                   workerVars, streamVars, ghostVars>>

-------------------------------------------------------------------------------
\* dispatch_and_collect.

\* The call's locals are gone, and what it wrote to out[] means nothing unless
\* it returned its count.
Returns(result) ==
    /\ pc' = "idle" /\ rc' = result
    /\ at' = 0 /\ left' = 0 /\ ready' = {} /\ remaining' = <<>>
    /\ assign' = IF result = "ok" THEN assign ELSE <<>>
    /\ units' = IF result = "ok" THEN units ELSE <<>>
    /\ tainted' = IF result = "failed"
                  THEN tainted \cup {w \in Workers : owed'[w] > 0} ELSE tainted

\* The caller starts a call; with no worker to give a unit to it returns 0.
StartCall(job) ==
    /\ pc = "idle" /\ batch < MaxCalls
    /\ batch' = batch + 1
    /\ LET out == Schedule(Len(job))
       IN IF DOMAIN out = {}
          THEN /\ rc' = "nothing" /\ units' = <<>> /\ assign' = <<>>
               /\ UNCHANGED <<pc, at, left, remaining>>
          ELSE /\ assign' = out
               /\ units' = job
               /\ remaining' = [i \in DOMAIN out |-> out[i].count]
               /\ pc' = "send" /\ rc' = "none" /\ left' = UnitSize
               /\ at' = Min(DOMAIN out)
    /\ UNCHANGED <<fleet, registryVars, ready, resultVars, workerVars,
                   streamVars, ghostVars>>

\* MUTANT of AfterVisit: the outer loop is not repeated.
AfterOneRound(rest, todo) ==
    IF rest = {} THEN Returns("ok")
    ELSE /\ ready' = rest /\ remaining' = todo /\ left' = 0 /\ pc' = "recv"
         /\ UNCHANGED <<at, rc, units, assign, tainted>>

\* After the visit of one ready channel: the next one, or the outer loop.
AfterVisit(rest, todo) ==
    IF rest = {} /\ \A i \in DOMAIN todo : todo[i] = 0
    THEN Returns("ok")
    ELSE /\ ready' = rest /\ remaining' = todo /\ left' = 0
         /\ pc' = IF rest # {} THEN "recv" ELSE "select"
         /\ UNCHANGED <<at, rc, units, assign, tainted>>

\* The assignment whose unit is being sent: the first sends go round all of
\* them before anything is read.
Sending == IF pc = "send" THEN at ELSE Min(ready)

ToSend == {i \in DOMAIN assign : i > at}
SentUnit ==
    IF pc = "send"
    THEN /\ IF ToSend # {} THEN at' = Min(ToSend) /\ left' = UnitSize /\ pc' = pc
                           ELSE at' = 0 /\ left' = 0 /\ pc' = "select"
         /\ UNCHANGED <<ready, remaining, rc, units, assign, tainted>>
    ELSE AfterVisit(ready \ {Min(ready)}, remaining)

\* The frame is allocated before the first unit; the channel of an assignment is
\* looked up when its turn of the first sends comes.
FirstChunk == pc = "send" /\ left = UnitSize
FirstUnit == FirstChunk /\ at = Min(DOMAIN assign)

SendUnit ==
    /\ pc \in {"send", "resend"}
    /\ LET i == Sending
           w == assign[i].worker
           frame == Frame("UNIT", Stamped(units[NextUnit(i)], batch), UnitSize)
       IN \/ \* into the stream, or nowhere when the peer is gone
             /\ Room(down[w]) \/ Closed(w)
             /\ down' = IF Closed(w) THEN down
                        ELSE [down EXCEPT ![w] =
                                 Append(@, frame[UnitSize - left + 1])]
             /\ owed' = [owed EXCEPT ![w] = IF left = UnitSize THEN @ + 1 ELSE @]
             /\ IF left = 1 THEN SentUnit
                ELSE /\ left' = left - 1
                     /\ UNCHANGED <<at, pc, ready, remaining, rc, units, assign,
                                    tainted>>
             /\ UNCHANGED faults
          \/ \* EPIPE
             /\ Closed(w) /\ UNCHANGED <<down, owed, faults>>
             /\ Returns("failed")
          \/ \* nothing to send it with: the frame, or the worker's channel
             /\ \/ MayFault("memory") /\ FirstUnit
                \/ MayFault("channel") /\ FirstChunk
             /\ faults' = faults + 1 /\ UNCHANGED <<down, owed>>
             /\ Returns("failed")
    /\ UNCHANGED <<fleet, registryVars, batch, resultVars, workerVars, up>>

\* MUTANT of Readable: a closed peer is not noticed.
ReadableData(i) == up[assign[i].worker] # <<>>

Readable(i) == LET w == assign[i].worker IN up[w] # <<>> \/ Closed(w)
Waiting == {i \in DOMAIN assign : remaining[i] > 0}

Select ==
    /\ pc = "select" /\ \E i \in Waiting : Readable(i)
    /\ ready' = {i \in Waiting : Readable(i)}
    /\ pc' = "recv"
    /\ UNCHANGED <<fleet, registryVars, callVars, at, left, remaining, rc,
                   resultVars, workerVars, streamVars, ghostVars>>

\* MUTANT of Answers: a result is taken for the answer unseen.
AnswersAnything(i, unit) == TRUE

\* What the call checks of a result.  Its backend is the one assigned as well,
\* unless the worker's callback has replaced it: both sides choose from the same
\* announcement by the same rule.
Answers(i, unit) == Key(unit) = Key(units[NextUnit(i)])

\* A whole result: checked against the unit sent, filed, and the next unit of
\* the range sent; or the call fails.
Judge(i, unit) ==
    LET w == assign[i].worker
        todo == [remaining EXCEPT ![i] = @ - 1]
    IN \/ /\ Answers(i, unit) /\ MayAccept(unit)
          /\ records' = Append(records, [worker |-> w, unit |-> unit,
                                         call |-> batch])
          /\ IF todo[i] > 0
             THEN /\ pc' = "resend" /\ left' = UnitSize /\ remaining' = todo
                  /\ UNCHANGED <<at, ready, rc, units, assign, tainted>>
             ELSE AfterVisit(ready \ {i}, todo)
          /\ UNCHANGED faults
       \/ /\ ~(Answers(i, unit) /\ MayAccept(unit))
          /\ Returns("failed")
          /\ UNCHANGED <<records, faults>>
       \/ \* its backend is not the one assigned, or the copy of its delta
          \* cannot be allocated
          /\ MayFault("backend") \/ MayFault("memory")
          /\ faults' = faults + 1
          /\ Returns("failed")
          /\ UNCHANGED records

Receive ==
    /\ pc = "recv"
    /\ LET i == Min(ready)
           w == assign[i].worker
       IN \/ /\ up[w] # <<>>
             /\ up' = [up EXCEPT ![w] = Tail(@)]
             /\ IF Head(up[w]).last
                THEN /\ owed' = [owed EXCEPT ![w] = @ - 1]
                     /\ Judge(i, Head(up[w]).unit)
                ELSE UNCHANGED <<owed, loopVars, units, assign, records, tainted,
                                 faults>>
          \/ \* end of file
             /\ up[w] = <<>> /\ Closed(w)
             /\ UNCHANGED <<up, owed, records, faults>>
             /\ Returns("failed")
    /\ UNCHANGED <<fleet, registryVars, batch, applied, workerVars, down>>

-------------------------------------------------------------------------------
\* The caller between two calls.

\* After a call that returned its count: reducer_apply, then a new reducer.  A
\* delta that cannot be applied stops it: those before it have been.
Apply ==
    /\ pc = "idle" /\ rc = "ok"
    /\ units' = <<>> /\ assign' = <<>>
    /\ \/ /\ applied' = Sorted(records)
          /\ records' = <<>> /\ rc' = "none" /\ UNCHANGED faults
       \/ /\ MayFault("memory") /\ faults' = faults + 1
          /\ \E n \in 0..(Len(records) - 1) : applied' = SubSeq(Sorted(records), 1, n)
          /\ records' = Sorted(records) /\ rc' = "failed"
    /\ UNCHANGED <<fleet, registryVars, batch, pc, at, left, ready, remaining,
                   workerVars, streamVars, owed, tainted>>

\* After a failed one: drop a worker, drop the reducer, or neither.
Unregister(w) ==
    /\ pc = "idle" /\ rc = "failed" /\ w \in Range(registry)
    /\ registry' = Without(registry, w)
    /\ UNCHANGED <<fleet, channels, open, callVars, loopVars, resultVars,
                   workerVars, streamVars, ghostVars>>

DropResults ==
    /\ pc = "idle" /\ rc = "failed" /\ records # <<>>
    /\ records' = <<>>
    /\ UNCHANGED <<fleet, registryVars, callVars, loopVars, applied, workerVars,
                   streamVars, ghostVars>>

Shutdown ==
    /\ pc = "idle"
    /\ pc' = "shutdown" /\ at' = 1
    /\ UNCHANGED <<fleet, registryVars, callVars, left, ready, remaining, rc,
                   resultVars, workerVars, streamVars, ghostVars>>

\* One frame per channel up to the first that fails; the caller then closes
\* them all.
SendShutdown ==
    /\ pc = "shutdown"
    /\ IF at > Len(channels)
       THEN pc' = "closed" /\ open' = {} /\ UNCHANGED <<down, at>>
       ELSE LET w == channels[at]
            IN \/ /\ Room(down[w]) \/ Closed(w)
                  /\ down' = IF Closed(w) THEN down
                             ELSE [down EXCEPT ![w] =
                                      Append(@, Chunk("SHUTDOWN", NoUnit, TRUE))]
                  /\ at' = at + 1 /\ UNCHANGED <<pc, open>>
               \/ /\ Closed(w) /\ pc' = "closed" /\ open' = {}
                  /\ UNCHANGED <<down, at>>
    /\ UNCHANGED <<fleet, registry, channels, callVars, left, ready, remaining,
                   rc, resultVars, workerVars, up, ghostVars>>

-------------------------------------------------------------------------------
\* The workers.

WorkerGoto(w, p) == wpc' = [wpc EXCEPT ![w] = p]

\* A closed socket loses what its owner has not read; what the peer has not
\* read of it is lost as well when something was unread.
End(w) ==
    /\ WorkerGoto(w, "ended")
    /\ down' = [down EXCEPT ![w] = <<>>]
    /\ \/ UNCHANGED up
       \/ down[w] # <<>> /\ up' = [up EXCEPT ![w] = <<>>]

\* serve_forever refuses to announce without a backend; serve announces first.
Announce(w) ==
    /\ wpc[w] = "away"
    /\ IF w \in open /\ ~(ServesForever(w) /\ Rate(w) = 0)
       THEN /\ up' = [up EXCEPT ![w] = Append(@, Chunk("CAPABILITIES", NoUnit, TRUE))]
            /\ WorkerGoto(w, "recv") /\ UNCHANGED down
       ELSE End(w)
    /\ UNCHANGED <<fleet, registryVars, callVars, loopVars, resultVars, hand,
                   wleft, served, ghostVars>>

\* MUTANT of MayServe: one unit over the quota.
MayServeOneMore(w) ==
    ServesForever(w) \/ (served[w] <= fleet[w].quota /\ Rate(w) > 0)

\* serve_forever goes on; serve while units of its quota are left, and
\* run_once while there is a backend.
MayServe(w) ==
    ServesForever(w) \/ (served[w] < fleet[w].quota /\ Rate(w) > 0)

\* run_batch is over, or run_once has no backend: serve closes the socket.
LeaveServe(w) ==
    /\ wpc[w] = "recv" /\ ~MayServe(w)
    /\ End(w)
    /\ UNCHANGED <<fleet, registryVars, callVars, loopVars, resultVars, hand,
                   wleft, served, ghostVars>>

\* A chunk of a frame; a unit is taken up, a SHUTDOWN or end of file ends it.
WorkerReceive(w) ==
    /\ wpc[w] = "recv" /\ MayServe(w)
    /\ \/ /\ down[w] # <<>> /\ Head(down[w]).type = "UNIT"
          /\ down' = [down EXCEPT ![w] = Tail(@)]
          /\ IF Head(down[w]).last
             THEN /\ WorkerGoto(w, "execute")
                  /\ hand' = [hand EXCEPT ![w] = Head(down[w]).unit]
             ELSE UNCHANGED <<wpc, hand>>
          /\ UNCHANGED up
       \/ /\ down[w] # <<>> /\ Head(down[w]).type = "SHUTDOWN"
          /\ End(w) /\ UNCHANGED hand
       \/ /\ down[w] = <<>> /\ w \notin open
          /\ End(w) /\ UNCHANGED hand
    /\ UNCHANGED <<fleet, registryVars, callVars, loopVars, resultVars, wleft,
                   served, ghostVars>>

\* The callback, which may fail: the worker then leaves.
Execute(w) ==
    /\ wpc[w] = "execute"
    /\ \/ /\ WorkerGoto(w, "send") /\ wleft' = [wleft EXCEPT ![w] = ResultSize]
          /\ UNCHANGED <<streamVars, faults>>
       \/ /\ MayFault("execute") /\ faults' = faults + 1
          /\ End(w) /\ UNCHANGED wleft
    /\ UNCHANGED <<fleet, registryVars, callVars, loopVars, resultVars, hand,
                   served, owed, tainted>>

WorkerSend(w) ==
    /\ wpc[w] = "send"
    /\ IF w \notin open THEN End(w) /\ UNCHANGED <<hand, wleft, served>>
       ELSE /\ Room(up[w])
            /\ up' = [up EXCEPT ![w] = Append(@,
                  Frame("RESULT", hand[w], ResultSize)[ResultSize - wleft[w] + 1])]
            /\ wleft' = [wleft EXCEPT ![w] = @ - 1]
            /\ IF wleft[w] = 1
               THEN /\ WorkerGoto(w, "recv")
                    /\ hand' = [hand EXCEPT ![w] = NoUnit]
                    /\ served' = [served EXCEPT ![w] =
                                     IF ServesForever(w) THEN @ ELSE @ + 1]
               ELSE UNCHANGED <<wpc, hand, served>>
            /\ UNCHANGED down
    /\ UNCHANGED <<fleet, registryVars, callVars, loopVars, resultVars, ghostVars>>

Crash(w) ==
    /\ MayFault("crash") /\ faults' = faults + 1
    /\ ~Closed(w) /\ End(w)
    /\ UNCHANGED <<fleet, registryVars, callVars, loopVars, resultVars, hand,
                   wleft, served, owed, tainted>>

WorkerStep(w) ==
    \/ Announce(w) \/ LeaveServe(w) \/ WorkerReceive(w)
    \/ Execute(w) \/ WorkerSend(w)

CoordinatorStep ==
    \/ \E w \in Workers : AcceptWorker(w) \/ RejectBatch(w)
    \/ UndoAccepted
    \/ SendUnit \/ Select \/ Receive \/ SendShutdown

CallerStep ==
    \/ \E job \in Jobs : StartCall(job)
    \/ Apply \/ DropResults \/ Shutdown
    \/ \E w \in Workers : Unregister(w)

DNext ==
    \/ CoordinatorStep \/ CallerStep
    \/ \E w \in Workers : WorkerStep(w) \/ Crash(w)

DSpec == DInit /\ [][DNext]_dvars

\* Inside a call the coordinator keeps going, and so does a worker; the caller
\* may stop calling.
DFairSpec ==
    /\ DSpec
    /\ WF_dvars(CoordinatorStep)
    /\ \A w \in Workers : WF_dvars(WorkerStep(w))

-------------------------------------------------------------------------------
\* Properties.

InCall == pc \in {"send", "select", "recv", "resend"}
Busy(w) == wpc[w] \in {"execute", "send"}

\* A unit some call has sent.
IsUnit(u) ==
    \E job \in Jobs, b \in 1..MaxCalls : \E k \in DOMAIN job : u = Stamped(job[k], b)
Spans == [state : Nat, begin : Nat, end : Nat, batch : Nat]
Frames(types) == [type : types, unit : Spans, last : BOOLEAN]
Assignments == [worker : Workers, count : Nat \ {0}, first : Nat \ {0}]

CoordinatorTypes ==
    /\ fleet \in Fleets
    /\ registry \in Seq(Workers) /\ channels \in Seq(Workers) /\ open \subseteq Workers
    /\ pc \in {"accept", "reject", "idle", "send", "select", "recv", "resend",
               "shutdown", "closed"}
    /\ rc \in {"none", "ok", "failed", "nothing"}
    /\ batch \in 0..MaxCalls /\ at \in Nat /\ left \in 0..UnitSize
    /\ units \in Jobs \cup {<<>>}
    /\ assign \in [DOMAIN assign -> Assignments] /\ DOMAIN assign \subseteq DOMAIN registry
    /\ ready \subseteq DOMAIN assign
    /\ remaining \in [IF InCall THEN DOMAIN assign ELSE {} -> Nat]
    /\ records \in Seq([worker : Workers, unit : {u \in Spans : IsUnit(u)},
                        call : 1..batch])
    /\ owed \in [Workers -> Int] /\ tainted \subseteq Workers /\ faults \in 0..MaxCrashes
Bounded(w) ==
    /\ Len(down[w]) <= SocketSize /\ Len(up[w]) <= SocketSize
    /\ wpc[w] = "send" => wleft[w] > 0
    /\ ~ServesForever(w) => served[w] <= fleet[w].quota
    /\ ~ServesForever(w) /\ Busy(w) => served[w] < fleet[w].quota
ChannelTypes ==
    /\ down \in [Workers -> Seq(Frames({"UNIT", "SHUTDOWN"}))]
    /\ up \in [Workers -> Seq(Frames({"CAPABILITIES", "RESULT"}))]
    /\ wpc \in [Workers -> {"away", "recv", "execute", "send", "ended"}]
    /\ hand \in [Workers -> Spans] /\ wleft \in [Workers -> 0..ResultSize]
    /\ served \in [Workers -> Nat]
    /\ \A w \in Workers : Bounded(w)

\* Types of the coordinator's, the workers' and the channels' state: what is in
\* a reducer is always a unit some call has sent, no stream holds more than the
\* socket takes, and serve computes no more units than its quota.
DTypeOK == CoordinatorTypes /\ ChannelTypes

\* Every unit of a job is given to exactly one worker that can compute it,
\* whatever the speeds and however the registry was reordered by unregister
\* (pe_work_coordinator_schedule).
UnitRange(a) == a.first..(a.first + a.count - 1)
UnitsAreDealtOnce ==
    DOMAIN assign # {} =>
      /\ \A k \in DOMAIN units :
            Cardinality({i \in DOMAIN assign : k \in UnitRange(assign[i])}) = 1
      /\ \A i \in DOMAIN assign : /\ UnitRange(assign[i]) \subseteq DOMAIN units
                                 /\ Rate(assign[i].worker) > 0

\* A call that returns its count has filed one record for every unit of the
\* job, from the worker the unit was assigned to, and nothing else
\* (pe_work_coordinator_dispatch_and_collect).
Mine == {k \in DOMAIN records : records[k].call = batch}
MineFrom(w) == {k \in Mine : records[k].worker = w}
OkMeansAnswered ==
    rc = "ok" =>
      /\ \A k \in Mine : \E i \in DOMAIN assign : records[k].worker = assign[i].worker
      /\ \A i \in DOMAIN assign :
            /\ Cardinality(MineFrom(assign[i].worker)) = assign[i].count
            /\ \A u \in UnitRange(assign[i]) :
                  \E k \in MineFrom(assign[i].worker) :
                      Key(records[k].unit) = Key(units[u])

\* A result echoes the unit's state and range and not the call: what a call
\* files was computed for that call, except over a channel on which an earlier,
\* failed call left an answer owed (work_coordinator.c:467-478).  On the other
\* channels at most one unit is unanswered: "bounds in-flight protocol data to
\* one unit per channel".
AnswersAreCurrent ==
    /\ \A k \in DOMAIN records :
          records[k].unit.batch = records[k].call \/ records[k].worker \in tainted
    /\ \A w \in Workers \ tainted : owed[w] <= 1

\* No iteration of a public state is filed twice, and what is applied to the
\* destination is in the order of state and range, whatever order the results
\* arrived in (pe_work_reducer_accept, pe_cfr_work_reducer_apply).
AppliedIsCanonical ==
    \A i, j \in DOMAIN applied : i < j =>
        /\ ~RecordBefore(applied[j], applied[i])
        /\ ~Overlap(applied[i].unit, applied[j].unit)

\* A registered worker has an open channel: a batch that is refused half-way
\* unregisters everything it had registered, each worker once, although every
\* removal reorders the registry (pe_work_coordinator_accept_tcp_batch).
RegisteredIsConnected ==
    pc # "closed" \/ channels = <<>> =>
        /\ Range(registry) \subseteq Range(channels) \cap open
        /\ IsInjective(registry)

\* A call returns: no worker and coordinator wait for each other, even when a
\* result is larger than the socket's buffer: it "cannot deadlock when result
\* deltas are larger than the socket buffers".
CallReturns == InCall ~> ~InCall

\* Once the coordinator shuts down, or gives up accepting, every worker leaves.
WorkersLeave ==
    pc \in {"shutdown", "closed"} ~> \A w \in Workers : Closed(w)
-------------------------------------------------------------------------------
\* The inductive invariant.

\* While workers are accepted, the registry is what has been accepted; while a
\* batch is undone, what is still to be undone; afterwards a part of it.
RegistryInv ==
    /\ IsInjective(registry)
    /\ pc \in {"accept", "reject"} => channels = [i \in 1..Len(channels) |-> i]
    /\ pc = "accept" => /\ registry = channels /\ Len(channels) + 1 \in Workers
                        /\ tainted = {}
    /\ pc = "reject" => /\ at \in 1..(Len(channels) + 1)
                        /\ Range(registry) = {channels[k] : k \in at..Len(channels)}
                        /\ Range(registry) \subseteq open
    /\ pc \notin {"accept", "reject", "closed"} => Range(registry) \subseteq Range(channels)
    /\ pc = "shutdown" => at > 0
    /\ pc \notin {"reject", "closed"} => open = Workers
    /\ pc = "closed" /\ channels = <<>> => registry = <<>>

\* What select, the sends and the visits leave of each other's state.
Assigned == InCall \/ rc = "ok"
LoopInv ==
    /\ InCall \/ pc \in {"accept", "reject"} => rc = "none"
    /\ Assigned => units \in Jobs /\ batch > 0 /\ DOMAIN assign # {}
    /\ ~Assigned => DOMAIN assign = {} /\ units = <<>>
    /\ \A i \in DOMAIN assign : assign[i].worker = registry[i]
    /\ InCall => \A i \in DOMAIN assign : remaining[i] <= assign[i].count
    /\ pc = "send" => /\ at \in DOMAIN assign
                      /\ \A i \in DOMAIN assign : remaining[i] = assign[i].count
    /\ left > 0 <=> pc \in {"send", "resend"}
    /\ ready # {} <=> pc \in {"recv", "resend"}
    /\ \A i \in ready : remaining[i] > 0

Has(stream, type) == \E k \in DOMAIN stream : stream[k].type = type
EndsWith(stream, type) ==
    \A k \in DOMAIN stream : stream[k].type = type /\ stream[k].last => k = Len(stream)
Ended(stream, type) == \E k \in DOMAIN stream : stream[k].type = type /\ stream[k].last

\* A worker announces itself once, before anything else.
Announced(w) ==
    /\ wpc[w] = "away" => up[w] = <<>>
    /\ pc = "accept" /\ w \notin Range(channels) => Len(up[w]) <= 1
    /\ w \in Range(channels) => wpc[w] # "away" /\ ~Has(up[w], "CAPABILITIES")
AnnounceInv == \A w \in Workers : Announced(w)

\* The coordinator is writing a unit to w, and has written some of it.
Halfway(w) ==
    pc \in {"send", "resend"} /\ assign[Sending].worker = w /\ left < UnitSize
Traffic(w) == Has(down[w], "UNIT") \/ Busy(w) \/ Has(up[w], "RESULT")

\* On a channel no failed call has left an answer owed on there is at most one
\* unit, on its way out, in the worker's hand or on its way back, and it is of
\* the current call.
Flight(w) ==
    /\ owed[w] \in {0, 1} /\ (Traffic(w) \/ Halfway(w) => owed[w] = 1)
    /\ Has(down[w], "UNIT") => ~Busy(w) /\ ~Has(up[w], "RESULT")
    /\ EndsWith(down[w], "UNIT") /\ EndsWith(up[w], "RESULT")
    /\ Busy(w) => ~Ended(up[w], "RESULT")
    /\ Halfway(w) => ~Ended(down[w], "UNIT") /\ ~Busy(w) /\ ~Has(up[w], "RESULT")
    /\ Busy(w) => hand[w].batch = batch
    /\ \A k \in DOMAIN down[w] : down[w][k].type = "UNIT" => down[w][k].unit.batch = batch
    /\ \A k \in DOMAIN up[w] : up[w][k].type = "RESULT" => up[w][k].unit.batch = batch
FlightInv == \A w \in Workers \ tainted : Flight(w)

\* Who owes an answer, at each place of the call.
OwedInv ==
    \A w \in Workers \ tainted : owed[w] # 0 =>
        /\ InCall
        /\ \E i \in DOMAIN assign : assign[i].worker = w /\ remaining[i] > 0
        /\ pc = "send" => \A i \in DOMAIN assign :
               assign[i].worker = w => i < at \/ (i = at /\ left < UnitSize)
        /\ pc = "resend" /\ assign[Sending].worker = w => left < UnitSize

\* Units in the hands of a channel are units of some job.
HoldsUnits(w) ==
    /\ Busy(w) => IsUnit(hand[w])
    /\ \A k \in DOMAIN down[w] : down[w][k].type = "UNIT" => IsUnit(down[w][k].unit)
    /\ \A k \in DOMAIN up[w] : up[w][k].type = "RESULT" => IsUnit(up[w][k].unit)
UnitInv == \A w \in Workers : HoldsUnits(w)

\* A call has filed what is no longer remaining.
Unanswered(i) == IF InCall THEN remaining[i] ELSE 0
AnsweredInv ==
    Assigned =>
      /\ \A k \in Mine : \E i \in DOMAIN assign : records[k].worker = assign[i].worker
      /\ \A i \in DOMAIN assign :
            /\ Cardinality(MineFrom(assign[i].worker)) = assign[i].count - Unanswered(i)
            /\ \A u \in assign[i].first..(assign[i].first + assign[i].count - Unanswered(i) - 1) :
                  \E k \in MineFrom(assign[i].worker) :
                      Key(records[k].unit) = Key(units[u])

\* The reducer holds no two results for the same iteration of a public state.
ReducerInv ==
    \A i, j \in DOMAIN records : i # j => ~Overlap(records[i].unit, records[j].unit)

DInductive ==
    /\ DTypeOK /\ RegistryInv /\ LoopInv /\ UnitsAreDealtOnce /\ AnnounceInv
    /\ FlightInv /\ OwedInv /\ UnitInv /\ AnswersAreCurrent /\ AnsweredInv
    /\ ReducerInv /\ AppliedIsCanonical
===============================================================================

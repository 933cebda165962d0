# Verification of poker-eval: the solver and its neighbours

poker-eval is a C library: hand evaluation, equity, betting engines, CFR
solvers and the tools built on them. This directory holds TLA+ models of the
parts of it whose correctness depends on order, concurrency, failure or
boundary cases, the TLC runs that check them on small instances, and TLAPS
proofs of what matters most for every value of the parameters.

Sources are named relative to the repository (`src/...` is the repository's own
`src` directory inside the checkout; library code lives under `src/src/`).

Every definition that stands for code is listed in `PROJECT.json` under `map`
with its file and lines; every property is listed with a mutant, a small change
of one such definition that makes the property fail.

## 1. Inventory of the system

| component | state | operations | talks to | hard behaviour |
|---|---|---|---|---|
| **solver lifecycle** `src/src/solver/domain/solver.c` | lifecycle state, iteration, pause acknowledgement, runner flag, stop cause, metrics, one mutex and one condition variable | create, destroy, run, pause, resume, stop, progress, strategy, metrics, save, load | compute port, storage port, persistence port, telemetry | control calls race the run loop; state read twice; one condition variable for two kinds of waiter |
| **pe-preflop-solve** `src/tools/pe_preflop_solve.c` | `g_stop_requested`, `interrupted`, `runner.done`, `next_checkpoint` | main and monitor, runner thread, watcher thread, signal handler, report, queries | solver lifecycle | four actors; a flag used twice; periodic checkpoints against a moving run |
| **work distribution** `src/src/solver/domain/work_*.c` | channels, registry of sockets, accepted results, worker shutdown flag | schedule, dispatch, collect, reduce, serve, accept, register, swap | one TCP connection per worker | partial failure and retry, bounded sockets, results of a previous batch |
| **traversals and chance** `traversal_*.c`, `chance.c`, `batch.c`, best response | update batches | one traversal per iteration | storage, games | floating-point sums |
| **CFR engine** `src/src/engine/solvers/cfr/` | regret and strategy storage, lock stripes, worker storages | run, run in parallel, merge, save, load | storage, locks, game adapters | merge order, failure of one worker, more workers than iterations |
| **solver storage** `storage_v2.c`, `storage_ram.c` | open-addressed map from key to id, value arrays (exact or compact), decoded spans and their marks | resolve, find, values, const values, drop, report | traversals, compute port, persistence | a span outlives what it was decoded from; growth; every allocation may fail |
| **compute ports** `compute_cpu_ref.c`, `compute_cpu_par.c`, `compute_simd.c`, GPU ports | staged update batches | apply batch, sync | storage | partly applied batch |
| **persistence** `persist_checkpoint.c` | a file | save, load, legacy load | storage, solver | truncated or foreign files, a crash while saving, failure half-way through a load |
| **betting state of the solver** `betting_state.c`, `preflop_betting.c`, `pots.c`, `actions.c` | stacks, contributions, actor, minimum raise, folded and all-in seats | legal actions, apply, street end, pots | traversals | rounds that end early, short all-ins, side pots |
| **game engines** `engine/game_engine.c`, `engine/betting_engine.c` | stacks, bets, investments, seats, pot, turn, cards dealt | set up, deal, act, advance, showdown, distribute | evaluator, mixed game | sequences of legal actions, side pots, odd chips, high and low halves |
| **equity** `enumerate.c`, `RangeEquity_MT*.c`, `batched_montecarlo.c`, `run_it_twice.c`, `sidepots.c` | accumulators, thread-local results | enumerate, sample, run it n times, award | evaluator, RNG | chips conserved over several boards, odd chips, weighting of several boards |
| **economics** `icm`, `rake`, `hrc`, `pko`, `tournament` | none or small tables | value and fee calculations | engines | rounding |
| **games and rotation** `mixed_game.c`, `triple_draw.c`, `rules_*` | rotation index, draw round, muck | advance, draw, discard | evaluators | long sequences of rotations |
| **core evaluation** `core/` | lookup tables, an LRU cache, per-thread contexts | evaluate, cache get and put | everything | cache at its limit |
| **ranges and distributions** `range/`, `distributions/` | parsed ranges | parse, combine | equity, solver | text formats |
| **OFC** `ofc/` | placed cards, fantasyland flag | place, score | evaluator | foul and bonus rules |
| **GPU evaluation** `gpu/` | device buffers, per-device queues | batch evaluation | drivers | device failure |
| **readers** `monker_*.c`, `range_ppt.c` | none | read third-party files | solver | formats |
| **other tools** `src/tools/` | none shared | command lines and user interfaces | library | none |
| **bindings, examples, benchmarks, scripts** | none of their own | wrap the library | library | none |

The behaviours worth a model are in the rows down to the game engines. Evaluation, economics
and ranges are pure functions over large tables: a reference definition would
repeat the table, and they have unit tests over their whole domains.

## 2. What makes each part correct

* **Solver lifecycle.** An iteration is atomic to everybody outside the run
  loop: a strategy, a checkpoint or a counter never shows half of one. A pause
  returns at a boundary, a stop ends the run within one iteration and is never
  undone, COMPLETED is earned, the cause reported is the true one, destroy frees
  nothing that is in use, and every call returns.
* **pe-preflop-solve.** A periodic checkpoint is whole and rightly stamped; a
  signal ends the program, with a final checkpoint and a report; nothing uses
  the solver after it has been released.
* **Work distribution.** Every iteration of the batch is computed exactly once,
  whatever the number of workers and the order of the answers; a failed batch
  leaves nothing that a later one could mistake for its own.
* **Parallel CFR.** All iterations are merged or none is, in an order that does
  not depend on the threads.
* **Solver storage.** What is written through a pointer is what is read later,
  to the rounding of the precision, whatever is evicted, decoded or grown in
  between; an infoset is found under its key as long as the storage lives.
* **Persistence.** A solve starts from exactly the state some save wrote, of
  the same configuration, or from nothing; no crash makes a third case.
* **Betting and pots.** No chip is created or lost, the actor is always a player
  who can act, a round ends exactly when everybody has matched or cannot, and
  every pot goes to players who paid for it.

## 3. The modules

| module | what it is | models |
|---|---|---|
| `SolverLifecycle` | one `pe_solver_t`: the runner inside `pe_solver_run` and the threads that call it | `solver.c` |
| `SolveContract` | what `pe_solver.h` promises, as a small state machine | the abstract specification of `SolverLifecycle` |
| `SolverLifecycleProofs` | theorems about `SolverLifecycle` | |
| `PreflopSolve` | the three threads of `pe-preflop-solve` and the signal, EXTENDS `SolverLifecycle` | `src/tools/pe_preflop_solve.c` |
| `PreflopSolveProofs` | theorems about `PreflopSolve`, EXTENDS `SolverLifecycleProofs` | |
| `WorkDispatch` | a coordinator, its workers and their sockets | `work_coordinator.c`, `work_executor.c`, `work_protocol.c`, `work_reducer.c`, `cfr_work_adapter.c` |
| `Sums` | the running total of an array, the sum over a set of numbers | the totals of `pe_work_coordinator_schedule`, `pe_pot_distribute` and `game_engine_distribute_pot` |
| `SumsProofs` | induction over the naturals, lemmas about totals, sums and ranks | |
| `WorkDispatchProofs` | theorems about `WorkDispatch`, EXTENDS `SumsProofs` | |
| `BettingState` | the one-street betting engine as functions from a state to the next | `betting_state.c`, `actions.c`, `holdem_round.c` |
| `PotSlices` | the division of a pot, in both forms the code has, EXTENDS `BettingState` | `pots.c`, the payoffs of `preflop_allin_game.c` |
| `HoldemBetting` | the preflop game as a state machine, EXTENDS `PotSlices` | `preflop_allin_game.c`, `preflop_betting.c` |
| `BettingStateProofs` | lemmas about the operators of `BettingState` | |
| `HoldemBettingProofs` | theorems about `HoldemBetting` and its payouts, EXTENDS `BettingStateProofs`, `SumsProofs` | |
| `SolverStorage` | the infoset storage: its map, arrays and decoded spans | `storage_v2.c` |
| `Checkpoint` | the checkpoint file and the processes that write and read it, EXTENDS `SolverStorage` | `persist_checkpoint.c`, the storage calls of `solver.c` |
| `CheckpointProofs` | theorems about `Checkpoint` and its storage, EXTENDS `SumsProofs` | |
| `GameEngine` | hands on the table engine under the rotation of a mixed game | `game_engine.c`, `mixed_game.c` |
| `GameEngineProofs` | theorems about `GameEngine`, EXTENDS `SumsProofs` | |
| `MC...` | values of the constants for TLC | |

### SolverLifecycle and SolveContract

`lifecycle_lock` makes a critical section one action; what the code reads
without the lock, or under two acquisitions of it, is two actions.
`lifecycle_cond` is the set `waitSet` of sleeping threads: a broadcast empties
it, a woken thread takes the lock again in a step of its own, and a thread may
wake spuriously. `pc` is the runner's place in `pe_solver_run`; `lane`, chosen
once from the constant `Lanes`, selects the vector loop, whose counter starts at the next iteration, or
the sampled loop, whose counter starts at the last one. An iteration is three
steps (the traversal with its update batch, the counter, the eviction), so that
a control call may fall between any two. `applied` counts the batches the
storage holds, `torn` says that an iteration failed in the middle of one, and
the step at which a run fails is chosen from `Faults`, and so are failing loads
and saves. A load that fails has put nothing, or a part of a checkpoint, into the
storage (`mixed`) and leaves the counter at 0; a second load goes over what is
there. A save that fails leaves the file as it was or cut short. `stopMark` is
the only other ghost: the iteration at which the first stop took effect.

Metrics, plans and configuration checks appear as outcomes (a run may fail
there, a target may be met there). The destroy call is modelled with its wait
for the runner and with whatever calls of other threads are in progress when it
is made. Two rules are put on callers, because the code holds no lock that would
order these calls: nobody starts a new call on an instance somebody else is
destroying, and nobody loads while a run is in flight (`pe_solver_load` refuses
by the state alone, which is still VALIDATED while a run prepares itself).

### PreflopSolve

Every call the program makes on the solver is the action of `SolverLifecycle`;
the module adds where main, watcher and runner thread are and the program's own
flags. A load that fails leads straight to the release, a final save that fails
to the report. `SignalFrom` bounds when a signal may come: never, from the moment the
loop has been entered, or as soon as the handlers are installed.

### WorkDispatch

A channel is a pair of bounded streams. A frame is a number of chunks written
and read one by one, so that both ends block where a socket would; the frame's
type, unit and end-mark are its data. The coordinator's `pc` follows
`dispatch_and_collect`: the first sends, `select`, the visit of each readable
channel, the next send on it, the return. A worker is away, receiving,
executing, sending or ended. `Faults` are a worker's death, a failing
execution, an answer from another backend, and at the coordinator missing memory
or a missing channel. The caller may start a call (also after a failed one),
apply the reduction, which may fail with the first deltas already added,
unregister a worker, drop the results or shut down. After a failed application
the caller does not apply again: the deltas added would count twice, and nothing
in the code tells which they were.
Rates are integers and largest remainders are exact where the code uses `long
double`. A unit carries the number of its call, which the protocol does not, so
that a property can say whose answer has been filed; `owed`, the answers a
channel still has to bring, and `tainted`, the channels a failed call left one
owed on, are ghosts too.

### BettingState, PotSlices, HoldemBetting

`pe_betting_state_t` is one record. The operations are functions on it, as in
the code, where each copies its input. The sum over the seats (`Chips`) is written
out for the six seats a game can have (`PE_PREFLOP_ALLIN_MAX_PLAYERS`), so that
it can be proved about. Chips are whole numbers: the code adds,
subtracts and compares with a tolerance, and whole chips need none. Payouts are
counted in sixtieths of a chip, so that a pot divides evenly between up to six
winners, as the doubles of the code do.

`HoldemBetting` adds what the game keeps beside the betting state: the street,
whether cards come next, whether the holes have been dealt, whether a tree
still guides the play. Its actions are the private deal, a decision, the
roll-out of the board without betting, and the next street. Cards occur only
where they decide something, so a hand is an arbitrary weak order of the
players. A tree is a set of edges and the free choice, after each action,
whether the tree goes on and what its next node is (`fit`): one of the player to
act, of another seat, or of a street. Only the first offers its edges; before the
flop the others leave nothing to do (`Astray`), after it the generated actions.
A tree keeps its fold edge where a check is free, as the code does. `spoke`,
`capped`, `cut` and `freely`, whether somebody has taken such a fold, are ghosts.

### SolverStorage and Checkpoint

One slab, the values of one infoset in one array, is one value; committing it
to a compact array replaces it by its compact form, `Round`, of which the model
only knows that it is idempotent and keeps zero. The map is modelled slot by
slot, with colliding probe paths and the doubling of the table, since that is
where an infoset could be lost. A probe for an unknown key in a full table never
returns in the code and is no step of the model (`Returns`). A caller holds the pointers it was given
(`held`) until the storage says they are gone: under exact precision when a new
infoset may move the arrays, under compact precision at the end of the
iteration. `Write` goes through any of them, at any time. `written`, what was
last put into each slab, is the abstract storage the promises are stated
against. Each allocation that may fail is a member of `Shortages`, and the
functions leave behind what the code leaves behind: a failing span keeps the
array it was for, a failing rehash the denser table, a failing growth the arrays
it has moved.

`Checkpoint` adds processes. A save truncates the file, writes one record after
the other and closes it with the footer; `whole` stands for footer and checksum,
and `snapshot`, a ghost, is what the storage held when the save ended. A
process may die between any two steps; the next has the file only, and may have
another precision or another configuration. A load reads and checks the whole
file before it applies an entry, and applies them one by one; whatever it
returned, the run may begin.

### GameEngine

The engine does not lead a hand, its caller does. What the model asks of the
caller is written in the guards: a hand is set up when the last one is over, the
hole cards are dealt before anybody acts, the board is not dealt beyond five, a
seat that cannot act is skipped, and a hand is completed when one seat is left,
when all the cards are out, or at any time in a game without a board. Within
that, every legal action is tried. Cards occur as a showing, the rank of each
seat's high and low hand; the sort that decides who gets the odd chips is the
code's, exchange by exchange, because it is not stable. `gone` counts chips in no stack
and no pot, which exist: see section 7.

## 4. The runs

| run | instance | shows |
|---|---|---|
| `Lifecycle` | both loops, 2 iterations, an exploitability check after each, checkpoints of iterations 1 and 2 to restore, 2 callers with 2 calls each, every fault but that of a save (703 000 states, no symmetry) | the invariant of the proofs, safety of pause, stop, counter, completion, cause and destruction, the contract, and liveness |
| `Preflop` | the resumed program, 3 iterations, an exploitability check every 2, a checkpoint of iteration 1 or 3 to restore, one written every iteration, a signal at any time in the loop or none, every fault (64 200 states) | the invariant of the proofs, pauses return, the program ends, whole and rightly stamped checkpoints, no use after release |
| `WorkDispatch` | 2 workers (4 fleets), jobs of 2 and 3 units, 2 calls, 1 fault anywhere, results of 3 chunks in a socket of 2 (373 000 states) | the invariant of the proofs, units dealt and answered once, canonical reduction, calls return, workers leave |
| `HoldemBetting` | 3 players, 7 games, nodes that do not fit, free folds (50 100 states) | the invariant of the proofs, chips, turns, rounds, raises, termination, payouts |
| `Checkpoint` | 2 colliding infosets, 2 arrays, exact and compact precision, 5 storage operations, 1 save, 1 restart, any allocation failing but that of a read (981 000 states) | the invariant of the proofs, no write lost, every infoset found, loads that are exact or, failing, the beginning of a file, across crashes and configurations |
| `GameEngine` | 3 seats with 2, 1 and 3 chips, blinds 1 and 2, a high-low game with a board and a draw game, 3 rotations, 2 hands (197 000 states) | the invariant of the proofs: the pot is what was put in, no chip is made, the rules are the variant's on turn; a pot is paid to those who may win it, no further, once, under the right variant |
| `PauseAfterResume`, `ReportAfterStop`, `PreflopEarlySignal`, `PreflopStopDuringPause`, `WorkRetry`, `TreeBets` | | one disagreement between code and documentation each, section 7 |

Why the bounds are enough:

* Two callers suffice for every race on the lifecycle: each property speaks of
  the runner and at most two others. Two calls each make four, of which pause,
  resume and pause again, with a stop or a destroy from the other side, is the
  longest race known; the calls of one caller are in any order with the other's.
  Two iterations tell the first from the last, and a restored first, or whole quota, from none.
  `Preflop`, whose callers are the program's, has three, with one in between, an
  interval of 2 that does not divide them and a checkpoint at the quota itself.
  MaxCalls is the only counter that is cut. In `PreflopSolve` MaxCalls = 30 is
  never reached: the program makes fewer. A save that fails is left to `Preflop`,
  whose properties are about the file.
* Two infosets whose probe paths meet in a table of two slots make the table
  double at the second; two arrays separate what an access to one does to the
  other. Three slabs that differ after rounding tell a lost write from a
  rounded one. The shortest way to lose a write (resolve, access, write, evict
  or access again, read) takes 5 operations; a load and a save are not counted.
  One restart gives a writer and a reader, in both orders of the precisions and
  the configurations. The failure of the span a *read* needs is left out of the
  run; see section 7.
* Stacks of 2, 1 and 3 give two side pots, a blind that cannot be posted, an
  all-in below and above the bet, and layers whose halves do not divide among
  two or three winners; three showings give a sole winner, a tie and a
  qualifying low shared by others than the high. Two hands let the rotation move
  under the stacks the first hand has left. Chips bound the length of a hand.
* Two workers give every order of two answers, the death of one while the other
  computes, a registry whose order has been changed, and both roundings. A
  result longer than a socket is the point of the protocol; 2 and 3 chunks are
  the smallest sizes with a full buffer in the middle of a frame. Two calls are
  needed for anything to be left over from a first one. One fault per behaviour
  (MaxCrashes) still falls at every step.
* Three players are the fewest with a folded, an all-in and a live seat at once
  and with two levels of side pot; the games were chosen so that stacks differ,
  an all-in is short of a full raise, a post covers a stack, money is dead and
  money is carried, and a tree meets stacks short of the blinds, where its fold
  is free. Stacks of 2 to 11 chips against a minimum raise of 1 or 2
  bound the length of a hand; no counter is cut.

`CHECK_DEADLOCK FALSE` appears where the system may stop: `WorkDispatch` (the
caller may stop calling), `HoldemBetting` and `GameEngine` (a hand ends),
`Checkpoint` (the bounds are used up), and the violation runs of the first two. The lifecycle and the program have an explicit final stutter instead.

## 5. Fairness

Weak fairness of the runner's step and of each thread that is inside a call: a
thread that can run is run by the scheduler. Nothing obliges anybody to make a
call, no spurious wake-up is owed and no signal. In `WorkDispatch` the
coordinator inside a call and each worker are weakly fair; the caller and the
faults are not. Weak fairness is enough because a lock is held only for one
action and is therefore never kept from a thread for ever by the model, which
the code justifies by holding no lock across a wait, an iteration or I/O.
`Checkpoint` and `GameEngine` state safety only: nothing obliges a caller to go
on. `HoldemBetting` has no liveness property: that every hand ends is stated as a
measure each step decreases (`EveryStepNearsTheEnd`), together with the
invariant that every decision offers something (`OfferedActionsApply`). Both
are stronger than a leads-to and need no fairness.

## 6. What is proved

`SolverLifecycleProofs` holds for any set of calling threads, either loop, any
quota, interval, fault set and set of restorable checkpoints.

* `TypeCorrect`, `AckIsQuiescent`, `StopIsGraceful`, `StampIsRight` and
  `CompletionIsEarned` prove `[]TypeOK`, `[]AckMeansQuiescent`, `[]StopGrace`,
  `[]CounterTracksStorage` and `[]CompletedMeansDone`.
* `LifecycleImplementsContract` proves the refinement of `SolveContract`: the
  phase is the state, an iteration is owed between its beginning and its
  publication.

None of the five invariants is inductive. The proofs use `Inductive`, which
adds where the runner can be in each state (`StateInv`), who holds the
acknowledgement while the runner is asleep or has left the loop after a stop
(`AckInv`), how the three counters of an iteration move in step
(`CounterInv`), that a stop is final and leaves at most the iteration in flight
(`StopInv`), and by which exit a loop was left (`DoneInv`). `AckInv`, for
instance, is needed because a stop of a paused run leaves the acknowledgement
set while the runner wakes up: what keeps it from meeting an iteration is that
the loop, STOPPED, has only exits left. Three more parts carry the last two
theorems, `CauseIsTrue` and `DestroyIsSafe`: at which place of the run which cause
may stand already, and that the one recorded last is true (`CauseInv`,
`HonestCause`), and who may be asleep in the instance and in which call, and that
the broadcast of a destroy leaves nobody asleep but itself (`WaitInv`). A pausing
thread it finds inside is woken and may not go back to sleep, since the state is
no longer PAUSED; that is what `DestroyIsSafe` rests on, not that there is none.
`CounterInv` and `StampIsRight` do not speak of a storage that is `mixed`. `Inductive` is itself an invariant of
the run `Lifecycle` and of the theorem `InductiveInvariant`. Types
and the rest are separate lemmas, each split into the runner's steps
(`TypeRunner`, `SafeRunner`) and the callers' (`TypeCaller`, `SafeCaller`);
`InductiveInvariant` combines them, and `ContractStep` maps each step to a step
of the contract or a stutter.

The assumptions are `LifecycleAssumption` and nothing else.

`PreflopSolveProofs` rests on the lifecycle's theorems: `ProgramUsesTheLifecycle`
shows that each step of the program is a step of `SolverLifecycle` or leaves it
alone, so `Inductive` holds in the program. What the program adds is
`PInductive`, an invariant of the run `Preflop`:

* `ThreadInv`, which threads exist at each place of the main thread;
* `CallInv`, the calls each thread may be in and from which place;
* `ControlInv`, what main and watcher leave of each other's state: only main
  pauses, and a resume decided before the watcher's stop comes too late to undo
  it;
* `SavingInv`, that the runner leaves the storage alone (`Still`) while an
  undisturbed checkpoint is taken, and why each kept checkpoint matches.

`CheckpointsAreStamped`, `ThreadsEndFirst` and `FinalCheckpointIsKept` follow
for any quota, interval, fault set, and for a signal at any time. The last says
that the final save is never refused and, when the port writes it, is the last
iteration; that the port may fail, and the program exit with 0 all the same, is
part of the statement. A failed load never gets as far as a run in this program,
so its storage is never `mixed` while it counts.

`BettingStateProofs` states, once, what each function of the betting engine
does to a state that is `Sound`: which fields `Pay` and `Raised` touch and by
how much (`PayFields`, `RaisedFields`, `PayKeepsChips`), what a legal action may
commit (`LegalCommitment`), who has answered after it (`MovedAnswers`), that
`NextActor` is the nearest live seat (`NextActorIsNearest`), and that finishing
passes the turn or closes the round (`TurnPasses`, `ActionApplies`).

`HoldemBettingProofs` holds for two to six players and any games, stacks,
posts, raise sizes and tree edges. `BInductive`, an invariant of the run
`HoldemBetting`, consists of

* the types, and `ChipInv`: all in is to have nothing left, nobody has put in
  more than the bet;
* `AnswerInv`: the engine's acted flags and contributions say who has spoken
  since the bet rose (the ghost `spoke`), and the flag of a player who has spoken since the
  last full raise still stands (`capped`);
* `StageInv`: cards, decisions and the end of the hand exclude one another;
* `TurnInv`: counting seats from the actor, those who owe a decision come before
  those who have spoken;
* `SettledInv`: after a round that no tree has cut short nobody owes anything;
* `StakeInv`: stacks only move into the pot; whoever may still act has put in as
  much on the earlier streets as anybody, and an active player, all in or not,
  has put in the most, unless a tree let such a player fold for free (`freely`).

`TurnInv` is why the right player acts: without it the next live seat could be
one who has answered, while somebody further round has not. From `BInductive`
follow `ChipsStay`, `RightPlayerActs`, `RoundsClose`, `ShortAllInsReopenNothing`
and `HandsEnd` (a step's measure, so termination is proved without fairness), and
`OffersAreCarriedOut`. The last assumes that a tree may offer a call
(`Call \in Edges`): a tree whose nodes offer raises only may leave a short
stack without a legal action, in the code as in the model; and where a node
before the flop is of another seat or street nothing is offered (`Astray`). Without a tree the
first candidate, fold or check, is always legal. The assumptions are
`PlayerCountAssumption`, `GamesAssumption` (what
`pe_preflop_allin_game_create` checks) and `EdgesAssumption`.

`PotsArePaidOut`, `WinningsAreCovered` and `SlicesAndLayersPayTheSame` are about
the payouts. They are proved of any betting state in which somebody is active
(`Payable`). The layers between consecutive levels hold what was put in up to the
highest (`LayersHold`, from `LayersAddUp`: each player's chips climb the levels as
stairs, and summing by player or by level is the same, `SumOfExchange`). Up to
the deepest active stake every layer has somebody to win it (`ClaimedLayers`) and
is paid in full (`PartsAddUp`), from layers a player has paid into
(`LayeredPayoutIsCovered`); what lies above has none, and `PotsArePaidOut` says
that exactly this, `Unclaimed`, is not paid. That it is nothing unless somebody
folded for free (`EverythingIsClaimed`) is the clause of `StakeInv` about the
active player who has put in the most; off a tree's nodes only who owes something
is offered a fold (`OnlyDebtsAreFolded`), and a tree's fold that is not owed is
what `freely` records. The code pays such a free fold wrongly; see section 7. The lowest
layer has everybody left in the hand, so the carried money may join it
(`SlicesAndLayersAgree`). That needs that everybody left at the showdown has put
something in, or nobody has (`ShowdownIsPaidFor`).

`WorkDispatchProofs` holds for any number of workers, any rates and quotas, any
jobs, any sizes of units, results and sockets, any faults and any number of
calls, under `DispatchAssumption`. `DInductive`, an invariant of the run
`WorkDispatch`, consists of the run's own `UnitsAreDealtOnce`,
`AnswersAreCurrent` and `AppliedIsCanonical` and of

* the types, with what fits a socket and the quota a worker serves at most;
* `RegistryInv`: while workers are accepted the registry is what was accepted,
  while a batch is undone it is what is still to be undone, later a part of it;
  this is what makes `RegisteredIsConnected` true in the middle of an undo;
* `LoopInv`: what the first sends, `select` and the visits leave of each other's
  state;
* `AnnounceInv`: a worker sends its capabilities once, before all else, so the
  coordinator never takes them for an answer;
* `FlightInv`: a channel that is not tainted carries at most one unit, going
  out, in the worker's hand or coming back, and it is of the current call;
* `OwedInv`: such a channel owes an answer only for a unit that is remaining, so
  a call that returns its count leaves nothing on the way;
* `UnitInv`, `AnsweredInv` and `ReducerInv`: what travels and what is filed are
  units of a job, a call has filed exactly what is no longer remaining, and no
  two records overlap.

`AnswersAreCurrent` alone is not inductive: that the result being read belongs
to the call rests on the whole round trip (`FlightInv`), and that no second one
follows it on `OwedInv`. `DealtOnce` is the arithmetic of the largest-remainder
method: the floors miss the total by fewer units than there are candidates
(`LeftOverFits`), the ranks by remainder and place are distinct and without gaps
(`RanksDiffer`, `RanksAreTaken`), so each unit left over goes to one candidate
(`LeftOverIsDealt`), the shares add up (`SharesAddUp`), and ranges that start
where the last one ended cut up 1..n (`SumCutsUp`). `AppliedInOrder` needs that
`record_before` orders any two records that do not overlap (`RecordOrder`).

These sums are recursive functions over any number of workers. The library's
induction theorems take an operator and cannot be used here; `SetInduction`
proves induction for a set of natural numbers from the pigeonhole principle,
and `SumSteps` the equations of `SumTo` from it. It would serve any other
recursive function on the naturals.

`CheckpointProofs` holds for any infosets, placement of the keys, arrays, slabs
and rounding, any pressure streets, any failing allocations, any files left by
older programs and any number of saves, loads and processes, under
`StorageAssumption` and `CheckpointAssumption`.

* `WritesAreKept` proves `[]NoWriteIsLost`. It is not inductive: a commit keeps
  what was written only if a span that exists is marked, a write through a held
  pointer only if that pointer still leads to a span, and committing twice only
  if a compact array holds rounded values. That is `SpansOK`, a part of the
  type invariant.
* `SafeAlways` proves `SpansOK`, `NoWriteIsLost` and `FileOK` together: a load
  puts what the file holds into the arrays, so what a save wrote into the file,
  now or in an earlier process, has to be a slab as well.
* `InfosetsAreFound`, `FailedLoadsAddNothing` and `LoadsAreExact` prove
  `[]EveryInfosetIsFound`, `[]FailedLoadIsPartOfTheFile` and `[]LoadIsExact`.

These need `CInductive`, an invariant of the run `Checkpoint` and of the
theorem `CheckpointInvariant`, which adds to the types and `NoWriteIsLost`

* `MapInv`: no key has two infosets, and each infoset sits at the first place on
  its path that is empty or its own (`WellPlaced`). Being found is not enough to
  stay found: an entry made earlier on the path of another one would hide it;
* `LiveInv`: an array nobody asked for holds nothing, so leaving it out of a file
  loses nothing;
* `FileInv`: a whole file has one entry for each infoset of the storage it was
  saved from, and the entry tells what was in it;
* `SavingInv`: what an unfinished save has written is what the storage still
  holds. Reading a compact slab commits and decodes it again, so this is a
  property of `ReadConst`, not of the pause alone;
* `OrderInv`: before the run the infosets are the first of the file, in its order,
  and all but the last are complete. A load only meets an unknown infoset when
  those of the entries before it are all there (`PassedAreAll`), however far the
  failed loads before it got;
* `LoadingInv`: before the run, every infoset comes from an entry of an accepted
  file, holding the entry's values or nothing, and those a load has passed hold
  all of it, also when an earlier load of the same process failed half way.

`SlabBySlab` reduces every step that leaves the infosets alone to one slab, and
`NewInfosetStep` is the growth of the arrays. For the map, `EntryIsPlaced` enters
one infoset into a table with room, `FreePlace` finds the room by counting,
`RehashIsFill` gives the recursion of `pe_rehash` its equations, by `SetInduction`,
and `RehashIsPlaced` enters them all. A failed rehash needs room for one more in
the old table only, which the probe that returned has found.

`LoadsAreExact` and `FailedLoadsAddNothing` assume that no read fails for want of
memory (`"read" \notin Shortages`): where one does, a save leaves the array out and
reports success (section 7), and the theorems are false. The other theorems do
not need this. Of older files, `CheckpointAssumption` says that they hold one record per
infoset, as the table they were written from did.

`GameEngineProofs` holds for any number of seats, any stacks, blinds and antes,
any variants and rotations, and any hands shown, under `TableAssumption`.
`TableInvariant` proves `GInductive`, the invariant of the run `GameEngine`: the
types, `Accounts` and `RotationOK`. The accounts need the rest: a bet comes out
of a stack and goes into the pot only because the seat on turn is one of the
table's (`AdvanceFindsASeat`), and the pot stays what the seats have invested
only because no action of a seat ends a hand with two seats in it
(`PlayingMeans`). `FilingKeeps` is the rotation's part.

`PotsArePaidExactly` proves `AwardIsExact`, in four parts. The layers between
consecutive levels hold what the seats put in up to the highest (`LayersHold`,
from `LayersAddUp`, which the proofs of the solver's pots use too). The exchange
sort loses no investor and names none twice after any number of exchanges
(`ExchangeLists`, `SortedLists`, by `SetInduction` over the comparisons made), so
the places of the winners have distinct ranks without gaps and exactly as many
of them are below the remainder as there are odd chips (`SharesAddUp`). A layer
is therefore paid in full when anybody may win it, in one part or in two
(`TakesAddUp`, `SomebodyWins`), and somebody may up to the deepest seat left in the
hand and no further (`DeepestEligible`). Summing by seat or by layer is the same
(`SumOfExchange`), which leaves `Uncontested` as the only chips not paid
(`AwardPays`). How well the sort sorts does not matter to this: only who gets
an odd chip depends on it.

Only model-checked: everything under fairness (`RunEndsOrIsHeld`,
`DestroyReturns`, `ProgramEnds`, `CallReturns`, ...), since the prover handles
neither ENABLED nor fairness. Every other invariant and action property of a
passing run is proved.

## 7. Disagreements between the code and its documentation

Each is a run that TLC shows violated; `PROJECT.json` quotes the line.

* `PauseAfterResume`: pause, resume and pause again before the sleeping runner
  has taken the lock back: the second pause is never acknowledged
  (`solver.c:171`).
* `ReportAfterStop`: the strategy of a run that was stopped while running is
  refused, although the comment above the check says it must be reportable
  (`solver.c:2209`).
* `PreflopEarlySignal`: a signal before the loop is entered uses up the
  watcher's only stop; the next periodic checkpoint then leaves the run paused
  for ever (`pe_preflop_solve.c:824`).
* `PreflopStopDuringPause`: `pe_solver_pause` returns OK when a stop ends its
  wait, and the periodic checkpoint is written inside an iteration
  (`pe_preflop_solve.c:2100`).
* `WorkRetry`: after a failed call a retry over a surviving channel has two
  messages in flight and can block both ends (`work_coordinator.c:412`).
* `TreeBets`: a tree's raise where nobody has bet becomes a bet of as many chips
  as the number of its size, whatever the unit of the size was
  (`preflop_allin_game.c:256`).

Seen while modelling, without a run of their own:

* `pe_solver_destroy` waits for the runner only: a thread it has woken out of a
  pause, or one inside a save or a strategy, goes on with an instance that may be
  gone (`solver.c:333`). The header does not ask callers to prevent it.
* A final checkpoint that cannot be written is reported on stderr and nowhere
  else (`pe_preflop_solve.c:2138`); the program exits as if it had been.
* A tree keeps its fold edge where a check is free
  (`preflop_allin_game.c:391`). When the others are all in for less and the last
  player who covers them takes it, line 951 pays the top layer to nobody, and
  heads-up line 1098 pays the shorter stack the whole pot, more than he covered.
* A tree whose node before the flop is of another seat or street offers no action
  at all (`preflop_allin_game.c:408`).
* `pe_cfr_work_reducer_apply` may fail with the first deltas already added
  (`cfr_work_adapter.c:146`); the caller is not told which.
* `pe_solver_save` right after a stop may read the storage in the middle of an
  iteration; after a failed iteration it writes the torn batch.
* A second stop is documented as idempotent but the end of the run may turn
  STOPPED into COMPLETED, after which it is refused (`pe_solver.h:434`).
* A pause during the last iteration can leave PAUSED without a runner, and a
  periodic pause that meets it has the finished run's report refused.
* The vector loop never sets `stop_cause`.
* A strategy may be read while another thread's pause is still pending.
* Destroying an instance whose run has not entered its loop stops nothing: it
  waits for the run to end.
* `pe_work_coordinator_shutdown` stops at the first failing channel, while its
  header speaks of all supplied channels; a call without a usable worker returns
  0 having done nothing.
* The generated game offers its sizes as raises only, so where nobody has bet
  they are all filtered out and the only wager left is all in
  (`preflop_allin_game.c:451`).
* When a tree ends a round early and money was carried into it, `pots.c` gives
  that money to those who invested at the lowest level, the preflop payoff to
  everybody still active; `SlicesPayTheSame` therefore leaves cut rounds out.
* `raise_cap` limits bets and raises only: an all-in that raises in full counts
  towards it but is never refused because of it.
* On later streets a lone player with chips is asked to act against opponents
  who are all in; at the root of a game he is not.

* Compact storage: the const accessor documents that it never allocates
  (`pe_storage.h:226`), but decodes into a span; when that span cannot be had
  during a save, the array passes for absent and the save returns success.
* `pe_rehash` may fail again and again; the comment that probing ends "because
  the count never reaches capacity" (`storage_v2.c:692`) then no longer holds.
* A storage in which no array was ever used saves entries with an empty array
  mask, which every load refuses.
* A load that fails leaves what it has applied; nothing marks the solver, whose
  run then starts from iteration 0 over part of a checkpoint (`solver.c:2418`).
  `FailedLoadIsPartOfTheFile` says which part; `mixed` and `PartlyRestored` are
  the lifecycle's view of it. `pe-preflop-solve` releases the solver instead.
* `cfr_parallel.c:169`: with fewer iterations than workers the idle ones are not
  ready, and the merge reports a failure after having merged the others, while
  the header knows no such failure.
* `game_engine.c:667`: a seat that has put nothing in may check, or bet, against
  any bet; the comment says "Can check if no bet to call".
* `game_engine_complete_hand` without a hand to show (everybody else folded
  before the flop, or a stud variant with its two hole cards) fails once, and
  pays when called again, since the failed showdown counts as reached.
* `game_engine_distribute_pot` drops a layer of the pot that only folded seats
  have paid for, and setting up a hand drops a pot that was not distributed:
  `gone` in `GameEngine`. Called twice it pays twice; the model's caller does not.
* The pot-limit and fixed-limit maxima are computed but not enforced by
  `game_engine_validate_action`; a winner of a side pot or of a low half is
  neither `is_winner` nor in the winnings a mixed game's statistics sum up.

## 8. Plan

Modules are written in order of how much depends on the ordering they capture;
those in *italics* are still to be written.

1. `SolverLifecycle`, `SolveContract`, `SolverLifecycleProofs`: written.
2. `PreflopSolve`, composing the lifecycle with the program's threads, and
   `PreflopSolveProofs`: written.
3. `WorkDispatch`: written. Worth adding: the older pair dispatch and
   collect_results. `Sums`, `SumsProofs`, `WorkDispatchProofs`: written; liveness
   is left to TLC.
4. `BettingState`, `PotSlices`, `HoldemBetting`, `BettingStateProofs`,
   `HoldemBettingProofs`: written; every property of the run is proved.
5. `SolverStorage`, `Checkpoint`, `CheckpointProofs`: written; every invariant of
   the run is proved.
6. `GameEngine`, `GameEngineProofs`: written; every property of the run is proved.
7. *CfrParallel*: partition, independent workers, ordered merge and its
   failure paths; abstract specification: one merge of the whole batch or none.
8. *EvalCache*: reachability of entries in probe chains.
9. `betting_engine.c`, the older betting engine beside `game_engine.c`.

## 9. What is not modelled

`PROJECT.json` lists each component with its status. In short: evaluation,
equity, economics and ranges are pure functions over tables or floating-point
sums, tested over their domains; traversals and regret updates are numerical and
appear as the steps they are to the other components; GPU code, readers,
bindings and user interfaces have no state of the library's own. Of the
modelled components, what is left out is the wording and parsing of the tool,
the plan and the metrics of the solver, the split of a state space into units
and their priorities, the wire encoding beyond its framing, the quantisation of
compact values and the bytes of a checkpoint, and the cards.

Most of the repository's lines are tables of evaluation results, generated
bindings and user interfaces, which no model could translate; the models cover
the parts whose behaviour depends on more than their arguments.

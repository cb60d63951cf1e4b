# A verification of Axionomy in TLA+

Axionomy is an engine for closed economies: accounts hold integer quantities of
assets, a fixed rate book says which exchanges exist, and one operation,
`apply`, moves balances. Search sessions plan over forks of an economy, fourteen
reference problems are rate books with solvers of their own, a Studio server
runs them in the background while a page follows along, and an MCP server offers
economies, searches and runs as tools. This directory models those parts in
TLA+, model-checks them with TLC on small instances, and proves what matters
most about them with TLAPS for every instance.

## Inventory of the system

| component | state | operations | what is hard about it |
|---|---|---|---|
| kernel (`src/src`) | balances per account, rate book, declared invariants | `assess`, `apply`, `simulate`, `fork`, `replay`, `replayed` | roles that alias one account, batches, preserved versus consumed baskets, checked arithmetic at its bounds, invariants checked on deltas only, replays that fail half way |
| Studio run lifecycle (`axionomy-studio-server`) | run summary, event history, generation, control flags, counters; the executor task and the worker thread; the event streams | `create_run`, `cancel_run`, `pause_run`, `resume_run`, `run_events`, `execute_run` | three-step emission under separate locks, check-then-write handlers, cancellation against completion, handlers dropped at an await, a bounded channel, lagging streams |
| service (`axionomy-service`) | `RunControl`; the progress sink with its error, its ring of observations and the documents whose frames were shown | `run_with`, `checkpoint`, one adapter per problem, `artifact` | pause and cancel between any two reports of any solver, a ring shared by several solvers, frames shown live by an adapter or afterwards |
| search sessions (`axionomy-search`) | retained states, frontier, visited or best map, counters, result | `new`, `advance`, `status` | interruption between any two expansions, a heap with stale entries, saturating costs, two places that detect exhaustion, exactness of a Pareto front |
| Monte Carlo, MCTS, ISMCTS (`axionomy-search`) | tallies, trees keyed by world or by information, a stream of random words | `new`, `advance`, `finish` | transpositions and cycles in a shared tree, hidden worlds, Nature's turns, errors in the middle of an iteration, chunk independence |
| MCP server (`axionomy-mcp`) | snapshot store by content hash, tasks, worker threads | `economy_put`, `exchange_apply`, `trace_replay`, search and run tasks, `cancel_task` | hashes that collide, calls interleaved between read and store, cancellation polled between chunks or only in an idle branch, a `select!` that takes any ready branch |
| reference problems (`axionomy-problems`) | one economy each, and what a solver keeps beside it: beliefs, indexes, agendas, counters | rates, candidates, policies, solvers | the same facts kept twice, hidden truth, rounding, dead ends, protocols with more than one actor |
| adapters, views, units, time, CLI, Wasm, page | mostly data | construction, conversion, rendering | rounding and conversion at the boundary |

How they interact: a session forks an economy and applies candidates to the
fork, so all it can do to balances is what the kernel lets it; a reference
problem supplies the candidates, goals and costs. The service
calls the solvers and, through its progress sink, looks at `RunControl` before
every emission. The Studio server runs the service on a blocking thread that
sends updates over a channel to an executor task, which turns them into
numbered events; HTTP handlers change the control flags, the generation and the
summary while that goes on, and emit events of their own. The page follows a
broadcast of those events. The MCP server runs a breadth-first session inside an
asynchronous task, and a problem on a blocking thread with the same `RunControl`;
its tools meet only in the snapshot store.

What makes each correct is the list of hazards in `PROJECT.json`: every entry
names the line where it bites and the properties that would notice.

## Modules

| module | models | state and actions |
|---|---|---|
| `Economy` | the kernel | `live`, `fork`, `replay` (the trace, how far it got and what it works on), `answer` (what the last call told its caller); one action per public operation that changes balances. `Analyze` is `Economy::analyze` in its order: structure, conditions, effects, shortfall, settlement, invariants |
| `KernelContract` | abstract: what the caller of a whole operation sees, each call one step, whatever an exchange is | `Apply`, `Replay` (up to the first refused exchange), `Replayed` (all or nothing), and the branch |
| `StudioRun` | one run of the Studio server | the fields of `RunRecord`, the worker, the channel, the program counters of the executor and of each request, the streams; an action per stretch of code between two locks, atomics or awaits |
| `McpServer` | the MCP server, over `BfsSession` | `snapshots`, calls that have read their economy (`pending`), what clients were told (`answers`), one search task, one problem run with its worker thread; an action per stretch of code between two awaits |
| `SearchProblem` | what a graph search is given: worlds, exchanges, candidates, goals | the declarative notions `Replays`, `Unreachable`, `NoneNearer` |
| `BfsSession`, `AStarSession`, `ParetoSearch` | the resumable graph searches | the fields of each session and the advance in progress; an action per turn of the expansion loop and of the candidate loop |
| `BestFirst` | `best_first`, in one call | the heap and the best ranks; an action per popped state |
| `TreeProblem` | what a tree search is given besides: players, values, Nature's weights, a tape of random words | the selection score as a table |
| `MctsSession`, `IsmctsSession` | the resumable tree searches | nodes, path, position of the random stream, decision; an action per turn of selection, expansion, Nature, rollout and back-up |
| `Sampling`, `Rollout` | weighted choice; a trajectory under a controller | operators |
| `MonteCarlo` | the resumable evaluation of policies | tallies, the sample under way; an action per experiment and per way it fails |
| `RateBook` | the kernel as reference problems use it | bound exchanges over sparse baskets, `Accepted`, `Settled`, `Replay` |
| `Marketplace`, `LivingMarket`, `Bridge`, `Workshop`, `ExactCover`, `Sokoban`, `Maze`, `Scheduling`, `Rescue`, `ConnectFour`, `Logistics`, `Mission`, `Perishables`, `WorkLeague` | one reference problem each | the balances of its economy and what its solver or controller keeps beside them; the rates as operators, one action per kind of exchange or per turn of its controller |
| `ServiceRun` | one run of the service, for every adapter | the request, what is left of the adapter's work, the sink, the documents, the two control flags; an action per look at the control, report, kept observation, replay, frame and assembly, and pause, resume and cancel by the other party |
| `Leaderboards` | the standings that the work league's adapter computes | operators over `WorkLeague` |
| `EconomyProofs`, `StudioRunProofs`, `McpProofs` | theorems about the module they extend | |
| `GraphSearchProofs` | theorems about `BfsSession`, `ParetoSearch`, `BestFirst` and `AStarSession` | |
| `StatisticsProofs` | theorems about `MonteCarlo`, `MctsSession` and `IsmctsSession` | |
| `ChunkingProofs` | theorems about the composition in `MCSearch` of each session with its twin | |
| `ServiceRunProofs` | the theorem about `ServiceRun`, as `MCProblems` plays it | |
| `FiniteSums` | no code: lemmas about sums over finite sets and folds, which the other proofs cite | |
| `MCEconomy`, `MCStudioRun`, `MCSearch`, `MCMcp`, `MCProblems` | instances for TLC | `MCSearch` also runs every session next to a twin that nobody interrupts; `MCProblems` draws one problem and plays it, or one request and serves it |

### How data is abstracted

Quantities keep a bound (`MaxQuantity`), measures too (`MaxMeasure`), costs
saturate at `MaxCost`, ticket weights are bounded by `MaxWeight`; the bounds are
small but the checks at them are the code's. Assets, accounts, rates and
exchanges are members of small sets. Merging effects of roles is replaced by
totals, because a sequence of checked additions of naturals fails at some point
exactly when its total is out of range; for an invariant with weights of both
signs the code may refuse where the total would fit, so the model is exact for
weights of one sign. When a proposal has several structural faults the model
keeps the set of them. In the search modules a world stands for an economy up to
its `state_key`, and the caller's closures are functions of the world. In
`StudioRun` messages, progress counts and payloads are left out; an event is its
kind and number. `finish_cancelled` is one definition for the two places that
call it.

In the tree searches the exploration term is a table in thousandths (`Bonus`),
computed in `MCSearch` from logarithms and integer square roots; the random
generator is a tape of words that repeats, so that a seed is a tape and a
session that consumed a different number of words than its twin is noticed.
Means are compared as totals where visits are equal. A small operator that says
one thing inside another (`Located`, `Credited`, `RewardedEdges`) is mapped to the
lines of the one that uses it.

In the problems an asset is a tuple of its constructor and arguments, and a world
is equal to another when the code's state keys are. Identity assets that never
move and that every proposal binds to the account they name are left out; each
module says so where it does. In `Bridge` they are kept, since who may act is the
question there. Declared invariants are checked on every step, as the kernel does.

In `ServiceRun` an adapter is the list of what it does with its sink, in the
code's order; a solver is how often it reports, and finds what it looks for, as
it does on the fixtures of the catalogue. Observations are named by the
algorithm that made them, a frontier and its solution alike. The observations
that are copied into frames after the frames were shown are left out, as are
scenes and telemetry.

In `McpServer` a hash is a function on worlds that may send two of them to one
handle; the kernel is a table; one search task and one run stand for all, because
tasks share nothing but the store. `answers` is a history variable: it records
what clients have been told, and no action reads it.

Each candidate definition that carries a comment starting "Mutant:" is a
plausible mistake in the operation that follows it. No specification uses them;
they are there to show that each property notices such a mistake.

## Runs

| run | bounds | what it shows |
|---|---|---|
| `economy_owner` | two accounts, four assets, quantities to 4, measures to 5, some 40 proposals over eight rates | in every state one owner can reach: preserved baskets survive aliasing, a batch is its firings, a shortfall is an exact distance |
| `economy_branches` | quantities to 3, three live rates, four traces | type correctness, conservation on the live economy, the branch and the replay, and refinement of `KernelContract`: a replay keeps the longest prefix that applies or, on a branch, all or nothing, and says so |
| `studio_requests` | two symmetric requests of any kind, one unit of work, channel of 1 | numbering, fetchability of what is announced, visibility of a closed gate, the executor never cancels |
| `studio_liveness` | two requests in sequence, one may be dropped, two units of work, channel of 1 | cancellation ends a run; a run ends or is held paused |
| `studio_stream` | one client, one reconnection, two units of work | nothing missed, in order, the client learns of the end |
| `search_sessions` | 1152 graph problems on five worlds with two exchanges, budgets 0, 1, 2, one idle advance, costs to 5; tree searches on 84 games with one or two players, 4 iterations, depths to 4, and 9 faulty ones; evaluations of two policies by up to 3 samples of two dimensions, two of which may fail and one be refused for either value or its length | see below |
| `mcp_server` | two clients, three calls, four worlds of which two share a hash, five traces, 23 requests with limits 0 to 5 and chunks 0 to 4, two reports of the worker | see below |
| `reference_problems` | each problem on its micro fixture and, where it is small enough, on its showcase; 4 trades, 7 free steps of the work league; every request of the catalogue and two wrong ones, solvers that report up to 6 times to a sink of 5, traces of 2, one pause | see below |
| `studio_order`, `studio_missed`, `studio_paused`, `pareto_exact` | as small as the counterexample allows | the four disagreements below |

`search_sessions` asks of the graph searches that what a session reports is true
(`BfsTellsTheTruth`, `AStarTellsTheTruth`: solutions replay and are optimal, an
exhausted session leaves no goal within reach), that a front is incomparable and,
when exact, covers first goals (`FrontIsIncomparable`, `ExactCoversFirstGoals`),
and that best-first search takes the lowest pass (`BestFirstTakesTheLowestPass`).
Of the tree searches, `MctsTellsTheTruth`: edges are exchanges the economy
accepts and lead to the one node of their world, the visits of the root are the
iterations, values of children and rollouts reach the root, and the action
decided on is a most visited one, after all iterations; `IsmctsTellsTheTruth`:
nodes and edges are visited and offered as often as they say, nothing is offered
that was not proposed for what the player sees, and the decision is the most
visited action and one the real economy accepts; and `HiddenTruthStaysHidden`
(the twin searches from another world that looks the same to the player: tree,
random draws and decision are equal). Of evaluations: `EvidenceIsCommon` (each
policy is judged on the same sample indices, and an estimate only exists when all
of them were seen; values that statistics have taken of a vector before they
refused it, monte_carlo.rs:493, are in no completed estimate, because nobody gets
past that sample). Of all of them: `ChunkingIsInvisible` and `SearchEnds`.

`mcp_server` asks of the store: `HandlesKeepTheirEconomy` and
`StoreMatchesAnswers` (what a client was told stays true, and nothing is stored
that nobody was told of). Of a search task, `SearchKeepsItsWord`: it expands no
more than its limit and says that the limit stopped it only when it used all of
it and had more to do; it answers truly of the economy its caller named; after a
request to stop it expands at most one more chunk. Of a run, `CancelledRunStops`:
its worker makes at most the one report it was about to make, and a run that was
cancelled is never reported as failed. Of both, `TasksSettle`.

`reference_problems` gathers what each problem's module states by the promise it
is an instance of; the comment before each part names the code.

| property | parts |
|---|---|
| `NothingIsHeldTwice` | orders settle once, selected sets are disjoint, schedules are feasible, jobs have one owner, nobody impersonates and priority is allotted once, Nature owes one answer |
| `NothingForNothing` | no profit from the pool alone, only honest recipes, scores are earned, spoilage is never skipped and what is usable is edible |
| `RecordsAgree` | line counters and pieces, claim index and balances, packages and orders, mission phase and agents, key and gate |
| `SolversAreRight` | clearing, price attribution, least waste, Algorithm X, makespan, scenario evaluation, storage front and standings, each against a definition that does not know how it works |
| `BeliefsAreFair` | proposals do not depend on what is hidden, the truth stays among the beliefs, only a lying sensor explains a wrong one |
| `OnlyKnownDeadEnds` | where a play can stop short of its goal, and only there; of a run of the service, only a pause that nobody ends holds it up |
| `RunsKeepTheirWord` | every strategy offered is served under a name of its own, live frames are the replay that was asked for, after a cancellation there is at most one more report and none ends as cancelled that was not, of a run that succeeds every document has observations, those of its own algorithm where it should |
| `StepsKeepTheirPotential` | the product of the reserves, dead crates, guidance distances that fall no faster than the cost |

Why the bounds are enough for what they are asked. Two accounts alias in every
way two roles can; `MaxQuantity` 4 lets balances, batches and requirements reach
and pass the bound, and `MaxMeasure` 5 makes measures overflow before and after
settlement. Two requests give every pairing of cancel, pause and resume with
each other and with the executor; a channel of one makes the worker wait. In
`studio_stream` the broadcast capacity is larger than the number of events: a
stream that lags loses events in the code too, and that is listed as a hazard.
Five worlds are the fewest in which depth-first order would find a longer
solution than breadth-first; the cost tables and the misleading heuristic make
heap entries stale, worlds be expanded again, and costs saturate. The games have
a transposition, a cycle back to the root, chance nodes and two worlds that look
alike; four iterations visit a node again, and five-word tapes wrap around.
`MaxIdle` bounds advances that do nothing, which otherwise could be repeated for
ever. In `mcp_server` three calls are a store, a read and a second store between
read and settling, with a collision among them; limits and chunks are chosen so
that the last chunk is short, exact, or the limit is larger than the economy.
In `ServiceRun` the sink keeps 5
observations (256 in the code) and solvers report 1 to 6 times, so that it drops
nothing, some of a solver's observations, or all of them; two exchanges per trace
tell frames that are repeated or skipped, and after one pause the flags have been
in all four positions.
`MaxReports` 2 lets a worker report before and after it is abandoned. Problems
end by themselves except the market trades and the free work league, which
`MaxTrades` and `MaxSteps` end; within 7 steps one agent of the league can claim,
begin, fail and repair a job while the other interferes.

Deadlock checking is off where the system stops by design: a settled run with
no requests left, a session that is over, a finished play.

## Fairness

`StudioRun!Fairness` is weak fairness for the worker, for the executor, for each
started handler and emission, and for following an open stream: the tokio
runtime polls every ready task, and blocking threads are scheduled. Nothing is
assumed of clients: whether a request, a subscription, a disconnection comes is
open. `MCSearch!Spec` is weakly fair: the callers in the repository advance a
session in a loop until it is over. `McpSpec` is weakly fair for the search
task, for the worker thread, and for taking a result that is there: each poll of
the `select!` flips a coin among ready branches, and the result stays ready.
It assumes nothing of clients and nothing of the 10 ms sleep that looks at the
cancellation, because each report starts it anew. No strong fairness is used.

## Disagreements between the code and what it says of itself

* `studio_order`: lib.rs:366 promises "ordered" events. A sequence number is
  taken before `emit` gets its locks, so an event of a handler and one of the
  executor can be pushed and broadcast in the other order.
* `studio_missed`: engine.ts:75 says "reconnecting remains safe by sequence".
  `run_events` drops live events that are not numbered above the last of the
  history it copied; an event numbered earlier but pushed later is never shown
  to that client. The page's de-duplication by number cannot bring it back.
* `studio_paused`: App.tsx:755 describes a paused run as a computation that
  waits. `pause_run` checks the status under one lock and writes it under
  another, so a run that ended in between is reported as paused.
* `pareto_exact`: pareto.rs:339 says a front becomes exact only when every
  reachable state has been exhausted. Goal states are not expanded, so an exact
  front may lack an outcome reachable through another goal. What does hold is
  checked and named `ExactCoversFirstGoals`.

Seen while modelling, consistent with what the code says of itself or too small
for a run of their own, and kept here for whoever changes that code:

* An MCP search that was asked to stop but has its answer reports it as
  completed; `axionomy-mcp/README.md` speaks of cancelled tasks settling as
  cancelled. A run that reports faster than every 10 ms is not cancelled before
  it ends, and a run that was asked to stop may complete.
* `ExactCover`: Algorithm X covers all elements again in a matrix that is partly
  covered, and what it proposes from there is refused by the replay: it gives no
  proposal for states in the middle of a play.
* `Sokoban`: candidates list the crates in cell order while finish rates bind
  them in identity order, so crates that crossed have no finish to propose
  although the rate is installed (`OnlyCrossedFinishesAreMissed`).
* `ConnectFour`: the kernel accepts a move after a line is complete; only the
  generation of candidates ends the game.
* `Bridge`: a bid for a turn that the other agent then claims can neither be
  withdrawn nor lead on (`OnlyOrphanedBidsBlock`).
* `Logistics`: at the junction the planner is offered the way back with cargo
  aboard, and can run dry on the road.
* `ServiceRun`: adapters.rs:884 says the live stream is "not permission to relabel
  one algorithm's observations as every alternative", yet logistics, sokoban,
  connect four and the work league keep none of their own and so get the whole
  stream for each document; and of a mission with a budget of about 1024 or more
  the ring has dropped every `monte_carlo` observation before the adapter keeps
  them, so that `direct_north` gets the planner's. `EvidenceIsTheDocumentsOwn`
  states what does hold.
* `MctsSession`: on a cycle a node is on the path twice and its value is backed
  up twice; visits then count passages, not iterations.
* `BestFirst`: the test for stale heap entries never holds, since a rank is a
  function of the world.

## What is proved

From the assumptions named `...Assumption` in the modules, for every value of
the constants that satisfies them:

* `EconomyProofs`, for every rate book, set of proposals, traces and bounds:
  `TypeCorrect` and `PreservedAlwaysSurvives`. The type
  invariant is inductive because the only new balances are `Settled(...)` of an
  applicable proposal, and `SettlementIssue` lets those pass only within range
  (`SettledInBalances`). Preservation follows state by state: an applicable
  proposal has no shortfall, so each balance covers consumption plus
  preservation (`CoveredWithoutShortfall`), and settling takes only consumption.
  `AlwaysConserved`: the code sums an invariant over the gross deltas of the
  touched accounts, the promise is about the net balances of all accounts. A
  measure is a sum and sums are linear (`MeasuresAdd`), so balances after
  settling measure what they did before plus the deltas, which
  `NoInvariantIssue` says cancel. `EconomyKeepsContract`: each call is one step of
  `KernelContract`, for every rate book and trace. A replay takes many steps here
  and one there, so what it has done must be known when it ends: `ReplayInv` says
  that its first `done` exchanges were all accepted and led from the balances it
  set out from to those it has now. (These, `origin`, are remembered for this
  purpose; the code keeps no such copy of a replay in place. They are also what the
  contract's economy still is until the call returns: nobody else can look at it
  while the call has it borrowed.) A refusal then ends
  exactly at the longest prefix and an exhausted trace is the whole; every other
  step of a replay on a branch is a stutter, and `StepIsCall` has a case for each
  action. `ShortfallAlwaysDistance`: with the shortfall
  added the requirement is met, with any unit less it is not.
  `BatchAlwaysSequential`: an applicable batch can be fired unit by unit
  and ends in the same balances; where production feeds nothing back, a batch whose
  firings all succeed lacks nothing. Effects and measures of a
  batch scale (`StaticEffectScales`, `MeasuresScale`), what holds at both
  ends of a batch holds on the way (`OnTheWay`), and the firings are followed one
  by one (`BatchFires`). It is about rates without generated flows: the others may
  read the balances.
* `StudioRunProofs`: `TypeCorrect`; `SequencesAlwaysNameEvents`, from
  `SequenceInv` (a number is in the history or with one actor, never both) and
  `CoverInv` (while nobody hung up, each number taken is in one of the two);
  `ExecutorNeverCancelsAtAll`, from `CancelInv` (the cancelled flag implies that
  the generation moved on, which the executor checks before it settles);
  `CompletionAlwaysFetchable`, from `ArtifactInv` along the executor's steps;
  `ClosedGateAlwaysVisible`, from `GateInv`, for runs in which no handler is
  dropped. None of the five properties is inductive alone: each speaks of
  settled states, and the strengthening says what actors in the middle of a
  handler still owe. `NothingEverMissed` and `AlwaysDeliveredInOrder` are about the
  clients of a run that no request interferes with (`Callers = {}`) and that emits no
  more events than the broadcast buffer holds (`MostEvents <= BroadcastCapacity`, where
  `MostEvents` follows from `Work`; `EventsInv` keeps the account). The executor is
  then the only emitter and an event's number its place in the history (`PlaceInv`); a
  client has a prefix of the history, the copy goes on where that ends or before, and
  the queue where the copy ends or before (`StreamInv`), however the stream was dropped
  and taken up again. Requests break both properties (`studio_order`,
  `studio_missed`), and a buffer that overflows loses events.
* `GraphSearchProofs`, about breadth-first search: `SolutionAlwaysReplays`, `SolutionAlwaysShortest` and
  `ExhaustedAlwaysUnreachable`, together `BfsAlwaysTellsTheTruth`, for every problem, finite or not, every sequence
  of budgets and every interruption. The inductive invariant `BfsInv` says what
  the queue is: retained states have increasing depths, those before the
  frontier are opened, and a successor of an opened state is retained at most
  one step deeper or still to be scanned (`OpenedInv`). When a goal is found, the
  depths of the retained worlds, and one more than the depth being expanded for
  all others, are a measure that rules out shorter traces (`NothingNearer`);
  when the frontier is empty, the visited worlds are closed under the
  candidates (`ExhaustedIsClosed`).
  About Pareto search: `FrontAlwaysIncomparable` and
  `ExactAlwaysCovers`, for every problem, order of outcomes and interruption. An
  insertion rejects what is dominated or equal and removes what the new entry
  dominates (`InsertionFacts`), so a front stays incomparable even where objectives
  are not numbers; the removal loop swaps while it scans and still removes them all
  (`RemainingPrefixes`). Coverage needs objectives that compare, because then
  dominance is transitive (`NoWorseTransitive`): what covered an outcome is replaced
  only by what covers it too (`OfferedIsCovered`). The inductive invariant `ParetoInv`
  says of every retained state that it waits, is being scanned with all it still has
  to do, or is done with: a goal is covered, another state's successors are visited
  (`WorkInv`). When nothing waits, a walk along any trace ends in a first goal that
  is covered.
  About best-first search: `BestFirstAlwaysTakesTheLowestPass`. `RankedInv` names the
  height that the search has climbed to: no way to a goal stays below it, and the way
  to each state climbs no higher than that or than the state itself (`Climbed`). A turn
  raises the height to the rank popped, which was the least of the heap, and any way
  to a goal leaves the expanded states through an entry of the heap (`ClimbOn`).
  About A*: `AStarAlwaysTellsTheTruth`, for every problem, heuristic, table of
  costs and interruption. In the inductive invariant `AStarInv` every known world is
  `Pending`, with an entry in the heap that nothing has superseded, or `Closed`: it
  is no goal, and each of its candidates leads to a world known to be as cheap, or is
  still due in the scan under way (`OpenInv`); entries point at retained states with
  the priority the heuristic gives them (`HeapInv`), and the world being scanned is
  not reached more cheaply meanwhile (`ScanInv`). When a goal is popped, the price of
  a world, the lesser of its best known cost and the cost found less what it is
  still known to take (a bound `Admissible` puts above the heuristic), cannot rise by more than a step costs along any trace (`NothingCheaper`): the
  heuristic has to be admissible and need not be consistent, and saturated sums do
  no harm.
* `McpProofs`: `HandlesAlwaysKeepTheirEconomy`, from the fact that storing only
  extends the map (`StoredGrows`); `StoreAlwaysMatchesAnswers`, with `PendingInv`
  (a call under way has read what its handle still stands for), because an answer
  that is true of a store is true of every larger one (`TrueWhenGrown`);
  `CancelledRunAlwaysStops`, from `WorkerInv` (the flag is set just when the task
  is over, so a report can be late only if it was under way); and
  `SearchAlwaysKeepsItsWord`, whose invariant `TaskInv` composes `BfsInv` of
  `GraphSearchProofs` with the accounts of the task: between chunks, what was expanded
  and what remains are the limit, within one, what the session may still expand
  is part of what remains (`BudgetInv`); a request to stop came after the chunk
  began (`StopInv`); a session that used its budget up knows whether anything is
  left (`ReturnInv`). They hold for any number of clients, calls and reports,
  any hash function, any traces, limits and chunk sizes, and any store the
  others leave behind.
* `StatisticsProofs`, about evaluations: `EvidenceAlwaysCommon`, from `McInv`: the
  place of the next sample and the number of completed ones determine each other, and
  each policy's evidence is its first samples in order, through failed experiments,
  refused observations and interruptions; only the policy under way can hold values of
  a refused vector, and only of the sample it waits for. About MCTS: `MctsAlwaysTellsTheTruth`, for
  every game, tape of random words, budgets, interruption and failing closure. The
  inductive invariant `MctsInv` says that the transposition table is the tree's
  (`TreeInv`); that the walk under way is a way of edges from the root (`WalkInv`);
  that every node but the root is led to and was visited, except the one a rollout
  starts from (`VisitInv`), so that a finished search has a child to decide for; that the
  root's visits are the iterations (`CountInv`) and its totals those of its children
  (`SumInv`). A walk passes a node twice only on a cycle, and in a game whose
  exchanges never lead back (`Progressing`) it does not; the two last parts therefore
  speak of such games, as the code counts passages in the others. An iteration
  ends in `BackUp`, which adds the same values to the root and to the one child on
  the way, if that child has no other way in. Failure in the middle of an iteration
  leaves the counts as they were.
  About information-set search: `IsmctsAlwaysTellsTheTruth`. Nodes stand for what is
  seen, so no step need relate them to worlds; in the inductive invariant `IsmctsInv`
  the way of an iteration leaves each node at most once (`StepsOk`), an edge on the way
  was offered once more than it was taken, and only nodes on the way may have been
  offered an edge once more than there were iterations (`EdgeOk`). `Credit` settles
  that: a node counts a visit for the edge it was left by, and so its visits stay the
  sum of its edges' (`RewardedNode`). Registering keeps the edges there are in their
  places, and gives what is offered an edge (`RegisterKeeps`), so the action chosen
  always has one.
* `ChunkingProofs`, about the sessions of `MCSearch` and their twins, which are given
  the whole work in advances of `Enough` turns and are never interrupted:
  `ChunkingAlwaysInvisible` and `HiddenTruthAlwaysHidden`. Two sessions that are not
  in step cannot be related state by state, and an induction over the number of turns
  is out of reach. What is compared is therefore the *progress* of a session: its
  state without the budget that is left, the idling and where in a loop it stands
  (`BfsProgress`, `AStarProgress`, `ParetoProgress`, `MctsProgress`,
  `IsmctsProgress`). On progress a session is a function: every step either leaves it
  alone (an advance, an interruption, a budget that runs out) or makes the one turn
  that follows (`BfsTurns` and its like; `BfsOn` is the turn), whoever asked for it.
  For A* this needs that no two entries of the heap are equal in the order they are
  popped in, for the tree searches that every random word is taken from its place on
  the tape. Then `BfsLeads(p, c, d)`, "`d` is in every set that contains `c` and is
  closed under turns", stands for the number of turns. In the inductive invariant
  `Together` the session's progress leads to its twin's: the twin moves first, which
  takes it further along; then it is over, a turn leaves it where it is, and the
  session comes after it (`BfsLeadsOn`). A session that is over makes no turn any more,
  so the only progress it leads to is its own, and that is the twin's.
  For information-set search the twin starts in another world. `IsmctsTwinTurns` goes
  through the operators of a turn and finds the real world in none of them; it is
  looked at twice only, at the start and when the choice is tried out. The start is
  the same because that world looks the same and is as over as the real one
  (`LookAlikeAssumption`), and the trial only decides between an answer and an error,
  so that progress leaves it out and `IsmctsFit` says what a decision is.
  `MCSearch` instantiates the twins from the modules with the proofs, so that what is
  proved of a session is at hand for its twin.
* `ServiceRunProofs`: `RunsAlwaysKeepTheirWord`, for every request, number of chunks a
  solver's work is split into (`Works`), size of the sink and length of a trace, and for
  any pauses, resumption and cancellation. An adapter is a list of what it does with its
  sink, and the proof first looks at each of them: its documents have names of their own,
  what was asked for is among them, and only that is shown while it is made
  (`SilentIsDistinct`, `MazeIsDistinct` and their like, joined by `DistinctJoin` into
  `BuildIsDistinct`). The inductive invariant `ServiceInv` ties what is left of the list
  to what was made and shown of it: until the documents are assembled, those left differ
  from those made, what was asked for is one of the two, and the frames shown are none,
  all, or those the document under way has had (`Making`); afterwards the frames left
  follow those shown (`Showing`). A report is published only after a look at a control
  that was not cancelled, which leaves room for one more report after a cancellation
  (`CancelInv`). Whose observations a document gets rests on a second invariant,
  `EvidenceInv`: what is left of a mission's list keeps the planner's reports as soon as
  they were made and the samples' after the `2 * work` reports about their front, both
  before any document is replayed (`OrderInv`), so that each document the code keeps
  observations for has been, or will be, given those of its own phase (`KeptInv`). A
  sample among the latest reports is still in a full sink as long as the sink is larger
  than what was reported since (`SinkShifts`); a mission whose sampling fills the sink
  loses its samples before they are kept, and the property does not say otherwise.
* `FiniteSums` supplies what these proofs need of `MapThenSumSet` and of folds: a sum
  over a finite set is the end of its partial sums in whatever order elements are
  taken, it adds, scales, splits off one element, and is zero, natural or unchanged
  when its terms are; a fold goes on by one step (`FoldTableExists`). Induction over
  data is done over sets of natural numbers with `WFMin`, which takes a set where the
  library's induction rules take a predicate; each recursive function is first shown to
  exist from its partial tables (`PartialSumsExist`, `StepsExist`).

What the assumptions ask is what types or callers guarantee: finitely many accounts,
assets and roles; quantities and weights in range (`RateAssumption`,
`ModelAssumption`); objectives that are integers or `NaN`, samples that are integers or
`NotFinite`; closures of a problem or a game that are total functions of the world,
and a tape that is not empty (`ProblemAssumption`, `GameAssumption`,
`InformationAssumption`); solvers that report at least once, a sink that keeps something
and a trace that is not empty (`ServiceAssumption`); and, of the instance, an elsewhere that looks as the real
world does (`LookAlikeAssumption`). TLC evaluates each of them on the instances.

Only model-checked: liveness (out of the prover's reach: `CancelEnds`,
`RunEnds`, `ClientLearnsTheEnd`, `SearchEnds`, `TasksSettle`), and the reference
problems. Their baskets and rates are concrete sparse functions written with `:>` and
`@@`, which tlapm gives no meaning to, and what their solvers answer is recursive over
data; with concrete fixtures, TLC covers their whole state space, or the play the bounds
allow. Of a run of the service, that it never waits for anything but a pause rests on
ENABLED (in `OnlyKnownDeadEnds`).

## Not modelled

* One-shot `bfs`, `dijkstra` and `astar` hand their closures to the `pathfinding`
  crate and turn its path into a trace; the sessions are the code's own searches.
* The reinforcement-learning environment assesses an action and applies it when
  applicable; both are the kernel's `analyze`. Its features are conversions.
* Summaries in floating point (variance, quantiles, credible intervals) are pure
  functions of observations that are modelled.
* Stress fixtures of the problems that only scale the same rates.
* The contents of view documents beyond their observations and frames (scenes,
  labels, telemetry), the Wasm bridge and the in-browser
  engine: they derive documents from receipts and keep no state of their own.
* The Studio registry, routing, OpenAPI and the command line: lookups and pure
  input and output. rmcp's task manager is external: `McpServer` models what the
  server asks of it (start, cancel request, settle); a task that expires after
  its time to live is its affair.
* Units and time: conversions at the boundary of the kernel.

What would come next: units and time as operator modules.

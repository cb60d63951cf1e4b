------------------------------ MODULE ServiceRun ------------------------------
(***************************************************************************)
(* One run of the service: the adapter of a problem reports the work of its *)
(* solvers to a sink, which looks at the run's control before each report   *)
(* and keeps the latest ones; then documents are replayed, and the frames   *)
(* of the one that was asked for are shown live.  The other party holds the *)
(* control and may pause, resume or cancel between any two steps.           *)
(*                                                                         *)
(* An adapter is the list of what it does with its sink, in order.  The     *)
(* solvers themselves are other modules; here they find what they look for, *)
(* as they do on the fixtures the catalogue offers.                         *)
(***************************************************************************)
EXTENDS Integers, Sequences, SequencesExt

CONSTANTS
  Works,          \* into how many chunks the work of a solver is split
  Kept,           \* observations a sink keeps (256)
  Replayed,       \* exchanges of a trace that is not empty
  MaxPauses       \* bound: times the run is paused

(* `script` is what is left to do of the adapter, and of `run` after it;    *)
(* `frames` and `reports` are what the observer was shown and how often it  *)
(* was told of work, `seen` how often before the cancellation.              *)
VARIABLE world
  \* [request, at, script, error, observations, kept, documents, frames,
  \*  reports, result, paused, cancelled, pauses, seen]

-----------------------------------------------------------------------------
(* The catalogue, and the order of the documents where an adapter does      *)
(* nothing but solve and replay.  The first strategy is the default here.   *)
Silent ==
  [exact_cover |-> <<"breadth_first", "algorithm_x", "unsatisfiable">>,
   workshop    |-> <<"breadth_first", "minimum_waste", "pareto_waste", "pareto_time">>,
   scheduling  |-> <<"best_first", "bounded_optimizer", "pareto_job_one", "pareto_job_two",
                     "infeasible_horizon">>,
   rescue      |-> <<"observe_then_follow", "direct_north">>,
   bridge      |-> <<"breadth_first", "first_come_a", "first_come_b", "auction", "pareto_a", "pareto_b">>,
   amm         |-> <<"market_day", "no_whale", "thin_liquidity">>,
   marketplace |-> <<"market_clearing", "pareto_buyers", "pareto_sellers">>,
   perishables |-> <<"outage", "pareto_inventory", "pareto_energy">>]

Catalog ==
  [maze         |-> {"breadth_first", "dijkstra", "a_star", "pareto_energy", "pareto_time"},
   sokoban      |-> {"a_star", "breadth_first"},
   exact_cover  |-> {"breadth_first", "algorithm_x"},
   workshop     |-> {"breadth_first", "minimum_waste", "pareto_waste", "pareto_time"},
   scheduling   |-> {"best_first", "bounded_optimizer", "pareto_job_one", "pareto_job_two"},
   rescue       |-> {"observe_then_follow", "direct_north"},
   bridge       |-> {"breadth_first", "first_come_a", "first_come_b", "auction", "pareto_a", "pareto_b"},
   amm          |-> {"market_day", "no_whale", "thin_liquidity"},
   marketplace  |-> {"market_clearing", "pareto_buyers", "pareto_sellers"},
   logistics    |-> {"direct", "reliable", "mcts"},
   connect_four |-> {"mcts_game"},
   mission      |-> {"coordinated", "direct_north"},
   perishables  |-> {"outage", "pareto_inventory", "pareto_energy"},
   work_league  |-> {"mixed_field", "throughput_field", "sustainable_field"}]

Default ==
  [maze |-> "a_star", sokoban |-> "a_star", exact_cover |-> "algorithm_x", workshop |-> "minimum_waste",
   scheduling |-> "bounded_optimizer", rescue |-> "observe_then_follow", bridge |-> "auction",
   amm |-> "market_day", marketplace |-> "market_clearing", logistics |-> "reliable",
   connect_four |-> "mcts_game", mission |-> "coordinated", perishables |-> "outage",
   work_league |-> "mixed_field"]

Instances == {"micro", "showcase", "stress"}
Unnamed   == "none"

Named(request) == IF request.strategy = Unnamed THEN Default[request.problem] ELSE request.strategy

(* `deadlock` is whether the warehouse has a crate that can be lost.        *)
Requests ==
  UNION {{[problem |-> problem, strategy |-> strategy, instance |-> Unnamed, work |-> work, deadlock |-> deadlock] :
     strategy \in Catalog[problem] \cup {Unnamed, "deadlock"},
     work \in IF problem \in DOMAIN Silent \cup {"work_league"} THEN {1} ELSE Works,
     deadlock \in {FALSE, problem = "sokoban"}} : problem \in DOMAIN Catalog}

Wrong ==
  {[problem |-> "chess", strategy |-> Unnamed, instance |-> Unnamed, work |-> 1, deadlock |-> FALSE],
   [problem |-> "maze", strategy |-> "a_star", instance |-> "huge", work |-> 1, deadlock |-> FALSE]}

-----------------------------------------------------------------------------
(* What an adapter does with its sink.  A solver reports as often as its    *)
(* work is split into; a document may keep observations of its own, named   *)
(* here by the algorithm that made them, frontiers and solutions alike.     *)
Exchanges(strategy) == IF strategy \in {"unsatisfiable", "infeasible_horizon"} THEN 0 ELSE Replayed

Report(phase, times)  == [do |-> "report", phase |-> phase, times |-> times]
Keep(strategy, phase) == [do |-> "keep", document |-> strategy, phase |-> phase]
Replay(strategy, own) == [do |-> "replay", document |-> strategy, own |-> own]
Perform(strategy)     == [do |-> "perform", document |-> strategy, times |-> Exchanges(strategy)]
Replays(strategies)   == [n \in DOMAIN strategies |-> Replay(strategies[n], {})]

(* The search that was asked for is shown, then what it found.  Every       *)
(* document of the maze searches again for observations of its own.         *)
MazeSearch(strategy, work) == <<Report(strategy, work), Report(strategy, 1)>>
MazeOwn(strategy)          == Replay(strategy, {strategy})

Maze(strategy, work) ==
  (IF strategy \in {"pareto_energy", "pareto_time"} THEN <<Report("pareto_frontier", 1)>>
   ELSE MazeSearch(strategy, work))
  \o <<MazeOwn("breadth_first"), MazeOwn("dijkstra"), MazeOwn("a_star"),
       Replay("pareto_energy", {"pareto_frontier"}), Replay("pareto_time", {"pareto_frontier"})>>

Sokoban(strategy, work, deadlock) ==
  <<Report(strategy, work), Replay(strategy, {})>>
  \o IF deadlock THEN <<Replay("deadlock", {})>> ELSE <<>>

(* Two policies are sampled as often as the tree search iterates. *)
Sampled(work) == <<Report("monte_carlo", 2 * work), Report("pareto_sampling", 2 * work)>>

Logistics(work) ==
  Sampled(work)
  \o Replays(<<"direct", "reliable">>) \o <<Report("mcts", work), Replay("mcts", {})>>

ConnectFour(work) == <<Report("mcts_game", work), Replay("mcts_game", {})>>

(* Mutant: what is kept for the planner is kept before it has planned. *)
MissionKeptEarly(work) ==
  Sampled(work)
  \o <<Keep("direct_north", "monte_carlo"), Keep("coordinated", "ismcts"), Report("ismcts", 2 * work)>>
  \o Replays(<<"coordinated", "direct_north">>)

(* The planner decides twice. *)
Mission(work) ==
  Sampled(work)
  \o <<Keep("direct_north", "monte_carlo"), Report("ismcts", 2 * work), Keep("coordinated", "ismcts")>>
  \o Replays(<<"coordinated", "direct_north">>)

(* The replay that was asked for is shown while it is made. *)
WorkLeague(strategy) ==
  LET Match(field) ==
        <<IF field = strategy THEN Perform(field) ELSE Replay(field, {}), Report("multi_agent_match", 1)>>
  IN  Match("mixed_field") \o Match("throughput_field") \o Match("sustainable_field")

Build(request) ==
  LET strategy == Named(request)
  IN  CASE request.problem = "maze"         -> Maze(strategy, request.work)
        [] request.problem = "sokoban"      -> Sokoban(strategy, request.work, request.deadlock)
        [] request.problem = "logistics"    -> Logistics(request.work)
        [] request.problem = "connect_four" -> ConnectFour(request.work)
        [] request.problem = "mission"      -> Mission(request.work)
        [] request.problem = "work_league"  -> WorkLeague(strategy)
        [] OTHER                            -> Replays(Silent[request.problem])

-----------------------------------------------------------------------------
Init ==
  \E request \in Requests \cup Wrong :
    world = [request |-> request, at |-> "begin", script |-> <<>>, error |-> "none",
             observations |-> <<>>, kept |-> [d \in {} |-> {}], documents |-> <<>>, frames |-> <<>>,
             reports |-> 0, result |-> "none", paused |-> FALSE, cancelled |-> FALSE, pauses |-> 0, seen |-> 0]

Running  == world.result = "none"
Selected == Named(world.request)
At(step) == Running /\ world.at = step
Doing(what) == At("script") /\ world.script # <<>> /\ Head(world.script).do = what

(* What is left once the entry at work was done once more. *)
Rest ==
  IF Head(world.script).times = 1 THEN Tail(world.script) ELSE [world.script EXCEPT ![1].times = @ - 1]

(* RunControl::checkpoint waits while the run is paused, and looks again    *)
(* every 10 ms.  `cancelled` is never reset, so that reading both flags at  *)
(* once has the outcomes of reading one after the other.                    *)
Stopped == world.cancelled
Passed  == ~world.cancelled /\ ~world.paused

Rejection(request) ==
  IF request.problem \notin DOMAIN Catalog THEN "unknown problem"
  ELSE IF Named(request) \notin Catalog[request.problem] THEN "unknown strategy"
  ELSE IF request.instance \notin Instances \cup {Unnamed} THEN "unknown instance"
  ELSE "none"

(* run_with looks at the control before run looks at the request. *)
Turn ==
  /\ At("begin")
  /\ Stopped
  /\ world' = [world EXCEPT !.result = "cancelled"]

Begin ==
  /\ At("begin")
  /\ Passed
  /\ world' =
       IF Rejection(world.request) # "none" THEN [world EXCEPT !.result = Rejection(world.request)]
       ELSE [world EXCEPT !.at = "script",
                          !.script = <<Report("prepare", 1)>> \o Build(world.request) \o <<[do |-> "assemble"]>>]

(* Mutant: a sink that is paused waits to be resumed. *)
CheckpointUntilResumed ==
  /\ Doing("report")
  /\ ~world.paused
  /\ world' = IF Stopped THEN [world EXCEPT !.error = "cancelled", !.at = "ensure"]
              ELSE [world EXCEPT !.at = "publish"]

(* Mutant: only the first report of a solver looks at the control. *)
CheckpointOncePerSolver ==
  /\ Doing("report")
  /\ (world.observations # <<>> /\ Last(world.observations) = Head(world.script).phase) \/ Passed
  /\ world' = [world EXCEPT !.at = "publish"]

(* A report looks at the control; a solver that is told to break gives up   *)
(* what it has, and its adapter asks the sink why.                          *)
Checkpoint ==
  /\ Doing("report")
  /\ Stopped \/ Passed
  /\ world' = IF Stopped THEN [world EXCEPT !.error = "cancelled", !.at = "ensure"]
              ELSE [world EXCEPT !.at = "publish"]

(* Mutant: the sink is not asked, and the solver seems to have failed. *)
EnsureUnasked ==
  /\ At("ensure")
  /\ world' = [world EXCEPT !.result = "problem"]

Ensure ==
  /\ At("ensure")
  /\ world' = [world EXCEPT !.result = world.error]

Publish ==
  /\ At("publish")
  /\ LET full == Len(world.observations) = Kept
         before == IF full THEN Tail(world.observations) ELSE world.observations
     IN  world' = [world EXCEPT !.observations = Append(before, Head(world.script).phase),
                                !.reports = @ + 1, !.script = Rest, !.at = "script"]

KeepObservations ==
  /\ Doing("keep")
  /\ LET entry == Head(world.script)
         found == {entry.phase} \cap Range(world.observations)
     IN  world' = [world EXCEPT !.script = Tail(@),
                     !.kept = [d \in DOMAIN @ \cup {entry.document} |->
                                 IF d = entry.document THEN found ELSE @[d]]]

Document(strategy, own) ==
  [strategy |-> strategy,
   solved   |-> IF strategy \in DOMAIN world.kept THEN world.kept[strategy] ELSE own]

ReplayDocument ==
  /\ Doing("replay")
  /\ world' = [world EXCEPT !.script = Tail(@),
                 !.documents = Append(@, Document(Head(world.script).document, Head(world.script).own))]

Frame(entry) ==
  [document |-> entry.document, index |-> Exchanges(entry.document) - entry.times + 1]

(* A frame is shown without a look at the control. *)
PerformExchange ==
  /\ Doing("perform")
  /\ LET entry == Head(world.script)
     IN  world' = [world EXCEPT !.frames = Append(@, Frame(entry)), !.script = Rest,
                     !.documents = IF entry.times = 1 THEN Append(@, Document(entry.document, {})) ELSE @]

ShowFrame ==
  /\ Doing("frames")
  /\ world' = [world EXCEPT !.frames = Append(@, Frame(Head(world.script))), !.script = Rest]

Frames(document) == [do |-> "frames", document |-> document, times |-> Exchanges(document)]

(* Mutant: frames are shown whether or not they were already. *)
AssembleShowingAgain ==
  /\ Doing("assemble")
  /\ world' = [world EXCEPT !.script = <<Frames(Selected), Report("artifact", Len(world.documents))>>]

(* `artifact`, and `run` after it: the frames of the document that was      *)
(* asked for, unless some were shown, and one report for each document.     *)
Assemble ==
  /\ Doing("assemble")
  /\ world' =
       IF \A n \in DOMAIN world.documents : world.documents[n].strategy # Selected
       THEN [world EXCEPT !.result = "problem"]
       ELSE [world EXCEPT !.script =
              (IF \E n \in DOMAIN world.frames : world.frames[n].document = Selected THEN <<>>
               ELSE <<Frames(Selected)>>)
              \o <<Report("artifact", Len(world.documents))>>]

(* A document without observations of its own gets those of the sink. *)
Finish ==
  /\ At("script")
  /\ world.script = <<>>
  /\ world' = [world EXCEPT !.result = "ok",
       !.documents = [n \in DOMAIN @ |->
          IF @[n].solved # {} THEN @[n] ELSE [@[n] EXCEPT !.solved = Range(world.observations)]]]

Run ==
  \/ Turn \/ Begin \/ Checkpoint \/ Ensure \/ Publish \/ KeepObservations \/ ReplayDocument
  \/ PerformExchange \/ ShowFrame \/ Assemble \/ Finish

Pause ==
  /\ Running /\ ~world.paused
  /\ world.pauses < MaxPauses
  /\ world' = [world EXCEPT !.paused = TRUE, !.pauses = @ + 1]

Resume ==
  /\ Running /\ world.paused
  /\ world' = [world EXCEPT !.paused = FALSE]

Cancel ==
  /\ Running /\ ~world.cancelled
  /\ world' = [world EXCEPT !.cancelled = TRUE, !.seen = world.reports]

Next == Run \/ Pause \/ Resume \/ Cancel

-----------------------------------------------------------------------------
(* Whoever is shown frames live sees the replay that was asked for, from    *)
(* its first exchange on, in order and none twice, whichever adapter shows  *)
(* them and when, and a run that succeeds has shown all of them             *)
(* (lib.rs:447 tries one league).                                           *)
LiveFramesAreTheReplay ==
  /\ \A n \in DOMAIN world.frames : world.frames[n] = [document |-> Selected, index |-> n]
  /\ world.result = "ok" => Len(world.frames) = Exchanges(Selected)

(* "catalog and dispatch must agree" (adapters.rs:858): every strategy that *)
(* is offered gets its document, and no two documents share a name.         *)
StrategiesAreServed ==
  /\ world.result # "problem"
  /\ IsInjective([n \in DOMAIN world.documents |-> world.documents[n].strategy])

(* Of a run that succeeds every document has observations (lib.rs:706); on  *)
(* the maze they are those of its own algorithm, and of a mission those of  *)
(* its planner, or of the samples of its policies unless so much was        *)
(* reported after them that the sink had dropped them all.                  *)
EvidenceIsTheDocumentsOwn ==
  world.result = "ok" =>
    \A n \in DOMAIN world.documents :
       LET document == world.documents[n]
       IN  /\ document.solved # {}
           /\ world.request.problem = "maze" =>
                document.solved = IF document.strategy \in {"pareto_energy", "pareto_time"}
                                  THEN {"pareto_frontier"} ELSE {document.strategy}
           /\ document.strategy = "coordinated" => document.solved = {"ismcts"}
           /\ document.strategy = "direct_north" /\ world.request.problem = "mission"
                /\ 2 * world.request.work < Kept => document.solved = {"monte_carlo"}

(* A run that is cancelled tells of work at most once more, ends as         *)
(* cancelled unless it was in its last steps, and no run that was not       *)
(* cancelled ends so; breaking off never looks like a solver that failed.   *)
CancelledRunsSayNoMore ==
  /\ world.cancelled => world.reports <= world.seen + 1
  /\ world.result = "cancelled" => world.cancelled

(* Only a pause that nobody ends holds a run up, and not if it is cancelled. *)
OnlyAPauseHolds == Running => (ENABLED Run) \/ (world.paused /\ ~world.cancelled)
=============================================================================

----------------------------- MODULE AStarSession -----------------------------
(***************************************************************************)
(* Resumable A* search.  The frontier is a heap whose entries are never     *)
(* removed when a cheaper way to their world is found: `best` tells such    *)
(* stale entries when they are popped.  A popped entry that is stale does   *)
(* not use up the budget.  Costs add up to at most MaxCost.                 *)
(***************************************************************************)
EXTENDS SearchProblem

ASSUME CostAssumption ==
  \A p \in Problems :
    /\ p.cost \in [Worlds -> [Exchanges -> 0 .. MaxCost]]
    /\ p.heuristic \in [Worlds -> 0 .. MaxCost]

VARIABLE
  astar   \* the fields of the session, and the advance in progress, as in BfsSession;
          \*   entry is the heap entry being expanded

astarVars == <<problem, astar>>

Entry(world, cost, sequence, index) ==
  [priority |-> Plus(cost, problem.heuristic[world]), cost |-> cost,
   sequence |-> sequence, index |-> index]

AStarNew ==
  [states    |-> <<[world |-> problem.initial, trace |-> <<>>]>>,
   frontier  |-> {Entry(problem.initial, 0, 0, 1)},
   best      |-> [w \in {problem.initial} |-> 0],
   expanded  |-> 0,
   generated |-> 0,
   sequence  |-> 1,
   solution  |-> [found |-> problem.initial \in problem.goals,
                  trace |-> <<>>, cost |-> 0, expanded |-> 0],
   exhausted |-> FALSE,
   at |-> "returned", left |-> 0, todo |-> <<>>, idle |-> MaxIdle,
   entry |-> Entry(problem.initial, 0, 0, 1)]

AStarInit ==
  /\ problem \in Problems
  /\ astar = AStarNew

AStarStatus ==
  IF astar.solution.found THEN "Solved" ELSE IF astar.exhausted THEN "Exhausted" ELSE "Running"

AStarAdvance(units) ==
  /\ astar.at = "returned"
  /\ AStarStatus = "Running"
  /\ units = 0 => astar.idle > 0
  /\ astar' = [astar EXCEPT !.at = "loop", !.left = units,
                            !.idle = IF units = 0 THEN @ - 1 ELSE @]
  /\ UNCHANGED problem

AStarInterrupt ==
  /\ astar.at = "loop"
  /\ astar.left > 0
  /\ astar.idle > 0
  /\ astar' = [astar EXCEPT !.at = "returned", !.idle = @ - 1]
  /\ UNCHANGED problem

(* Lowest priority first, then lowest cost, then first pushed. *)
Before(left, right) ==
  \/ left.priority < right.priority
  \/ left.priority = right.priority /\ left.cost < right.cost
  \/ left.priority = right.priority /\ left.cost = right.cost /\ left.sequence < right.sequence

(* The turn of a loop that pops this entry. *)
Popping(e) ==
  /\ astar.at = "loop"
  /\ astar.left > 0
  /\ e \in astar.frontier
  /\ \A other \in astar.frontier \ {e} : Before(e, other)

WorldOf(e) == astar.states[e.index].world
Stale(e)   == astar.best[WorldOf(e)] # e.cost

AStarDropStale(e) ==
  /\ Popping(e)
  /\ Stale(e)
  /\ astar' = [astar EXCEPT !.frontier = @ \ {e}]
  /\ UNCHANGED problem

(* Mutant: a solution is reported with the trace of the state retained last. *)
AStarReachLatest(e) ==
  /\ Popping(e)
  /\ ~Stale(e)
  /\ WorldOf(e) \in problem.goals
  /\ astar' = [astar EXCEPT
       !.at = "returned", !.frontier = @ \ {e},
       !.solution = [found |-> TRUE, trace |-> astar.states[Len(astar.states)].trace,
                     cost |-> e.cost, expanded |-> astar.expanded]]
  /\ UNCHANGED problem

(* The goal is looked for when a state is popped. *)
AStarReach(e) ==
  /\ Popping(e)
  /\ ~Stale(e)
  /\ WorldOf(e) \in problem.goals
  /\ astar' = [astar EXCEPT
       !.at = "returned", !.frontier = @ \ {e},
       !.solution = [found |-> TRUE, trace |-> astar.states[e.index].trace,
                     cost |-> e.cost, expanded |-> astar.expanded]]
  /\ UNCHANGED problem

AStarExpand(e) ==
  /\ Popping(e)
  /\ ~Stale(e)
  /\ WorldOf(e) \notin problem.goals
  /\ astar' = [astar EXCEPT
       !.at = "scan", !.left = @ - 1, !.expanded = @ + 1,
       !.frontier = @ \ {e}, !.entry = e, !.todo = problem.candidates[WorldOf(e)]]
  /\ UNCHANGED problem

AStarExpandNone ==
  /\ astar.at = "loop"
  /\ astar.left > 0
  /\ astar.frontier = {}
  /\ astar' = [astar EXCEPT !.at = "returned", !.exhausted = TRUE]
  /\ UNCHANGED problem

AStarScanning  == astar.at = "scan" /\ astar.todo # <<>>
AStarParent    == astar.states[astar.entry.index]
AStarNextWorld == Outcome(AStarParent.world, Head(astar.todo))
AStarNextCost  == Plus(astar.entry.cost, problem.cost[AStarParent.world][Head(astar.todo)])

(* Refused, or known to be no dearer. *)
AStarSkip ==
  /\ AStarScanning
  /\ \/ AStarNextWorld = Refused
     \/ AStarNextWorld \in DOMAIN astar.best /\ astar.best[AStarNextWorld] <= AStarNextCost
  /\ astar' = [astar EXCEPT !.todo = Tail(@)]
  /\ UNCHANGED problem

(* Mutant: a world once reached is not improved upon. *)
AStarDiscoverNewOnly ==
  /\ AStarScanning
  /\ AStarNextWorld # Refused
  /\ ~(AStarNextWorld \in DOMAIN astar.best /\ astar.best[AStarNextWorld] <= AStarNextCost)
  /\ LET index == Len(astar.states) + 1 IN
     astar' = [astar EXCEPT
       !.todo = Tail(@),
       !.best = [w \in DOMAIN @ \cup {AStarNextWorld} |->
                   IF w \in DOMAIN @ THEN @[w] ELSE AStarNextCost],
       !.generated = @ + 1,
       !.states = Append(@, [world |-> AStarNextWorld,
                             trace |-> Append(AStarParent.trace, Head(astar.todo))]),
       !.frontier = @ \cup {Entry(AStarNextWorld, AStarNextCost, astar.sequence, index)},
       !.sequence = @ + 1]
  /\ UNCHANGED problem

AStarDiscover ==
  /\ AStarScanning
  /\ AStarNextWorld # Refused
  /\ ~(AStarNextWorld \in DOMAIN astar.best /\ astar.best[AStarNextWorld] <= AStarNextCost)
  /\ LET index == Len(astar.states) + 1 IN
     astar' = [astar EXCEPT
       !.todo = Tail(@),
       !.best = [w \in DOMAIN @ \cup {AStarNextWorld} |->
                   IF w = AStarNextWorld THEN AStarNextCost ELSE @[w]],
       !.generated = @ + 1,
       !.states = Append(@, [world |-> AStarNextWorld,
                             trace |-> Append(AStarParent.trace, Head(astar.todo))]),
       !.frontier = @ \cup {Entry(AStarNextWorld, AStarNextCost, astar.sequence, index)},
       !.sequence = @ + 1]
  /\ UNCHANGED problem

AStarScanEnd ==
  /\ astar.at = "scan"
  /\ astar.todo = <<>>
  /\ astar' = [astar EXCEPT !.at = "loop"]
  /\ UNCHANGED problem

(* Mutant: a used-up budget with a short frontier is taken for the end. *)
AStarReturnEarly ==
  /\ astar.at = "loop"
  /\ astar.left = 0
  /\ astar' = [astar EXCEPT !.at = "returned", !.exhausted = Cardinality(astar.frontier) <= 1]
  /\ UNCHANGED problem

AStarReturn ==
  /\ astar.at = "loop"
  /\ astar.left = 0
  /\ astar' = [astar EXCEPT !.at = "returned", !.exhausted = astar.frontier = {}]
  /\ UNCHANGED problem

AStarNext ==
  \/ \E units \in Budgets : AStarAdvance(units)
  \/ AStarInterrupt
  \/ \E e \in astar.frontier : AStarDropStale(e) \/ AStarReach(e) \/ AStarExpand(e)
  \/ AStarExpandNone
  \/ AStarSkip \/ AStarDiscover \/ AStarScanEnd
  \/ AStarReturn

AStarSpec == AStarInit /\ [][AStarNext]_astarVars

-----------------------------------------------------------------------------
(* The heuristic never exceeds what remains to be paid: some estimate that  *)
(* it does not exceed is 0 on goals and drops by no more than each step     *)
(* costs.  (What really remains is the largest such estimate.)              *)
Admissible ==
  \E remaining \in [Worlds -> 0 .. MaxCost] :
    /\ \A w \in problem.goals : remaining[w] = 0
    /\ \A w \in Worlds : problem.heuristic[w] <= remaining[w]
    /\ \A w \in Worlds : \A i \in DOMAIN problem.candidates[w] :
         LET x == problem.candidates[w][i] IN
         Outcome(w, x) # Refused =>
           remaining[w] <= problem.cost[w][x] + remaining[Outcome(w, x)]

(* No trace of candidates that costs less leads to a target: some measure   *)
(* that starts at 0 and grows by no more than each step costs is at least   *)
(* this cost on targets.                                                    *)
NoneCheaper(targets, cost) ==
  \E price \in [Worlds -> 0 .. cost] :
    /\ price[problem.initial] = 0
    /\ \A w \in targets : price[w] = cost
    /\ \A w \in Worlds : \A i \in DOMAIN problem.candidates[w] :
         LET x == problem.candidates[w][i] IN
         Outcome(w, x) # Refused => price[Outcome(w, x)] <= price[w] + problem.cost[w][x]

(* A solution replays from the initial economy to one that matches the goal. *)
AStarSolutionReplays ==
  astar.solution.found => \E w \in problem.goals : Replays(astar.solution.trace, w)

(* Under an admissible heuristic, consistent or not, no solution is cheaper *)
(* than the one found, although stale entries stay in the heap, worlds are  *)
(* expanded again when a cheaper way to them turns up, and costs saturate.  *)
AStarSolutionIsCheapest ==
  astar.solution.found /\ Admissible => NoneCheaper(problem.goals, astar.solution.cost)

(* A session that gives up has a reason, whatever the heuristic. *)
AStarExhaustedIsUnreachable ==
  astar.exhausted => Unreachable(problem.goals)

(* What a session reports is true, and a solution is a cheapest one.        *)
AStarTellsTheTruth ==
  AStarSolutionReplays /\ AStarSolutionIsCheapest /\ AStarExhaustedIsUnreachable
=============================================================================

------------------------------- MODULE BestFirst -------------------------------
(***************************************************************************)
(* Best-first search in one call.  A state is ranked by what it is, not by  *)
(* the way to it; each turn of the loop is an action, which scans all the   *)
(* candidates of the state it pops.                                         *)
(***************************************************************************)
EXTENDS SearchProblem, SequencesExt

ASSUME RankAssumption ==
  \A p \in Problems :
    /\ p.price \in [Worlds -> 0 .. MaxCost]
    /\ p.heuristic \in [Worlds -> 0 .. MaxCost]

VARIABLE
  ranked   \* the locals of `best_first`: states, heap, best (cost by world), expanded,
           \*   sequence; at is "loop" or "returned"; solution is what it returns

QueueEntry(world, sequence, index) ==
  [priority |-> Plus(problem.price[world], problem.heuristic[world]),
   cost |-> problem.price[world], sequence |-> sequence, index |-> index]

RankedNew ==
  [states   |-> <<[world |-> problem.initial, trace |-> <<>>]>>,
   heap     |-> {QueueEntry(problem.initial, 0, 1)},
   best     |-> [w \in {problem.initial} |-> problem.price[w]],
   expanded |-> 0,
   sequence |-> 1,
   at       |-> "loop",
   solution |-> [found |-> FALSE, trace |-> <<>>, cost |-> 0, expanded |-> 0]]

BestFirstInit ==
  /\ problem \in Problems
  /\ ranked = RankedNew

(* Lowest priority first, then lowest cost, then first pushed. *)
Greater(left, right) ==
  \/ left.priority < right.priority
  \/ left.priority = right.priority /\ left.cost < right.cost
  \/ left.priority = right.priority /\ left.cost = right.cost /\ left.sequence < right.sequence

(* Mutant: the heap's own order, greatest priority first. *)
ComesNextUnreversed(entry) ==
  /\ ranked.at = "loop"
  /\ entry \in ranked.heap
  /\ \A other \in ranked.heap \ {entry} : Greater(other, entry)

ComesNext(entry) ==
  /\ ranked.at = "loop"
  /\ entry \in ranked.heap
  /\ \A other \in ranked.heap \ {entry} : Greater(entry, other)

(* A candidate of `parent`: refused, known to be no dearer, or pushed. *)
Consider(search, parent, exchange) ==
  LET next  == Outcome(parent.world, exchange)
      index == Len(search.states) + 1
  IN  IF \/ next = Refused
         \/ next \in DOMAIN search.best /\ search.best[next] <= problem.price[next]
      THEN search
      ELSE [search EXCEPT
              !.best     = [w \in DOMAIN @ \cup {next} |->
                              IF w = next THEN problem.price[next] ELSE @[w]],
              !.states   = Append(@, [world |-> next, trace |-> Append(parent.trace, exchange)]),
              !.heap     = @ \cup {QueueEntry(next, search.sequence, index)},
              !.sequence = @ + 1]

(* An entry whose cost is no longer that of its state is dropped: no entry, *)
(* as long as the cost is a function of the state.                          *)
TakeTurn(entry) ==
  LET state == ranked.states[entry.index]
      popped == [ranked EXCEPT !.heap = @ \ {entry}]
  IN  /\ ComesNext(entry)
      /\ ranked' =
           IF entry.cost # problem.price[state.world] THEN popped
           ELSE IF state.world \in problem.goals THEN
             [popped EXCEPT
                !.at = "returned",
                !.solution = [found |-> TRUE, trace |-> state.trace, cost |-> entry.cost,
                              expanded |-> ranked.expanded]]
           ELSE FoldLeft(LAMBDA search, exchange : Consider(search, state, exchange),
                         [popped EXCEPT !.expanded = @ + 1], problem.candidates[state.world])
      /\ UNCHANGED problem

GiveUp ==
  /\ ranked.at = "loop"
  /\ ranked.heap = {}
  /\ ranked' = [ranked EXCEPT !.at = "returned"]
  /\ UNCHANGED problem

BestFirstNext == GiveUp \/ \E entry \in ranked.heap : TakeTurn(entry)

BestFirstSpec == BestFirstInit /\ [][BestFirstNext]_<<problem, ranked>>

-----------------------------------------------------------------------------
(* Every way from the initial world to a target climbs to this height: some *)
(* set holds the initial world and every lower successor of its own, and no *)
(* target.                                                                  *)
NoneLower(targets, height) ==
  \/ Plus(problem.price[problem.initial], problem.heuristic[problem.initial]) >= height
  \/ \E closed \in SUBSET Worlds :
       /\ problem.initial \in closed
       /\ closed \cap targets = {}
       /\ \A w \in closed : \A next \in Successors(w) :
            Plus(problem.price[next], problem.heuristic[next]) < height => next \in closed

(* The worlds on the way of a trace are as high as this one at most. *)
StaysBelow(trace, world, height) ==
  \E path \in [0 .. Len(trace) -> Worlds] :
    /\ path[0] = problem.initial
    /\ path[Len(trace)] = world
    /\ \A i \in 1 .. Len(trace) : path[i] = Outcome(path[i - 1], trace[i])
    /\ \A i \in 0 .. Len(trace) : Plus(problem.price[path[i]], problem.heuristic[path[i]]) <= height

(* A solution replays to a goal of the cost it states and takes the lowest  *)
(* pass: no way to any goal has a smaller maximum of cost plus heuristic on *)
(* it.  A search that gives up had nothing to find, and a state is expanded *)
(* at most once.                                                            *)
BestFirstTakesTheLowestPass ==
  /\ ranked.expanded <= Cardinality(DOMAIN ranked.best)
  /\ ranked.at = "returned" =>
       IF ranked.solution.found THEN
         \E w \in problem.goals, height \in 0 .. MaxCost :
           /\ problem.price[w] = ranked.solution.cost
           /\ StaysBelow(ranked.solution.trace, w, height)
           /\ NoneLower(problem.goals, height)
       ELSE Unreachable(problem.goals)
=============================================================================

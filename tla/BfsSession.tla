------------------------------ MODULE BfsSession ------------------------------
(***************************************************************************)
(* Resumable breadth-first search.  A caller advances the session by a      *)
(* budget of expansions; an observer may interrupt an advance before any    *)
(* of them.  One action per turn of a loop: what an advance does between    *)
(* two looks at the observer is a scan over the candidates of one state.    *)
(***************************************************************************)
EXTENDS SearchProblem

VARIABLE
  bfs   \* the fields of the session, and the advance in progress:
        \*   at       "returned", in the "loop" or in the "scan"
        \*   left     units of the budget not used yet
        \*   current  the state being expanded, todo its remaining candidates
        \*   idle     advances that may still do nothing

bfsVars == <<problem, bfs>>

BfsNew ==
  [states    |-> <<[world |-> problem.initial, trace |-> <<>>]>>,
   frontier  |-> <<1>>,
   visited   |-> {problem.initial},
   expanded  |-> 0,
   generated |-> 0,
   solution  |-> [found |-> problem.initial \in problem.goals, trace |-> <<>>, expanded |-> 0],
   exhausted |-> FALSE,
   at |-> "returned", left |-> 0, current |-> 1, todo |-> <<>>, idle |-> MaxIdle]

BfsInit ==
  /\ problem \in Problems
  /\ bfs = BfsNew

BfsStatus ==
  IF bfs.solution.found THEN "Solved" ELSE IF bfs.exhausted THEN "Exhausted" ELSE "Running"

(* Advancing a session that is over returns at once. *)
BfsAdvance(units) ==
  /\ bfs.at = "returned"
  /\ BfsStatus = "Running"
  /\ units = 0 => bfs.idle > 0
  /\ bfs' = [bfs EXCEPT !.at = "loop", !.left = units,
                        !.idle = IF units = 0 THEN @ - 1 ELSE @]
  /\ UNCHANGED problem

(* Mutant: an interrupted expansion is not put back. *)
BfsInterruptAfterPop ==
  /\ bfs.at = "loop"
  /\ bfs.left > 0
  /\ bfs.idle > 0
  /\ bfs.frontier # <<>>
  /\ bfs' = [bfs EXCEPT !.at = "returned", !.idle = @ - 1, !.frontier = Tail(@)]
  /\ UNCHANGED problem

BfsInterrupt ==
  /\ bfs.at = "loop"
  /\ bfs.left > 0
  /\ bfs.idle > 0
  /\ bfs' = [bfs EXCEPT !.at = "returned", !.idle = @ - 1]
  /\ UNCHANGED problem

(* The observer lets the loop go on. *)
BfsExpand ==
  /\ bfs.at = "loop"
  /\ bfs.left > 0
  /\ bfs.frontier # <<>>
  /\ bfs' = [bfs EXCEPT
       !.at = "scan", !.left = @ - 1, !.expanded = @ + 1,
       !.current = Head(bfs.frontier), !.frontier = Tail(@),
       !.todo = problem.candidates[bfs.states[Head(bfs.frontier)].world]]
  /\ UNCHANGED problem

(* Mutant: the end of the frontier is only noticed when a budget is used up. *)
BfsExpandNoneForgotten ==
  /\ bfs.at = "loop"
  /\ bfs.left > 0
  /\ bfs.frontier = <<>>
  /\ bfs' = [bfs EXCEPT !.at = "returned"]
  /\ UNCHANGED problem

BfsExpandNone ==
  /\ bfs.at = "loop"
  /\ bfs.left > 0
  /\ bfs.frontier = <<>>
  /\ bfs' = [bfs EXCEPT !.at = "returned", !.exhausted = TRUE]
  /\ UNCHANGED problem

BfsScanning == bfs.at = "scan" /\ bfs.todo # <<>>
BfsParent   == bfs.states[bfs.current]
BfsNextWorld == Outcome(BfsParent.world, Head(bfs.todo))
BfsChild == [world |-> BfsNextWorld, trace |-> Append(BfsParent.trace, Head(bfs.todo))]

(* Refused by the kernel, or seen before. *)
BfsSkip ==
  /\ BfsScanning
  /\ BfsNextWorld \in bfs.visited \cup {Refused}
  /\ bfs' = [bfs EXCEPT !.todo = Tail(@)]
  /\ UNCHANGED problem

(* The goal is looked for when a state is generated. *)
BfsReach ==
  /\ BfsScanning
  /\ BfsNextWorld \notin bfs.visited \cup {Refused}
  /\ BfsNextWorld \in problem.goals
  /\ bfs' = [bfs EXCEPT
       !.at = "returned", !.visited = @ \cup {BfsNextWorld}, !.generated = @ + 1,
       !.solution = [found |-> TRUE, trace |-> BfsChild.trace, expanded |-> bfs.expanded]]
  /\ UNCHANGED problem

(* Mutant: new states go to the front. *)
BfsDiscoverInFront ==
  /\ BfsScanning
  /\ BfsNextWorld \notin bfs.visited \cup {Refused} \cup problem.goals
  /\ bfs' = [bfs EXCEPT
       !.todo = Tail(@), !.visited = @ \cup {BfsNextWorld}, !.generated = @ + 1,
       !.states = Append(@, BfsChild), !.frontier = <<Len(bfs.states) + 1>> \o @]
  /\ UNCHANGED problem

(* Mutant: a state is retained with the trace of its parent. *)
BfsDiscoverParentTrace ==
  /\ BfsScanning
  /\ BfsNextWorld \notin bfs.visited \cup {Refused} \cup problem.goals
  /\ bfs' = [bfs EXCEPT
       !.todo = Tail(@), !.visited = @ \cup {BfsNextWorld}, !.generated = @ + 1,
       !.states = Append(@, [BfsChild EXCEPT !.trace = BfsParent.trace]),
       !.frontier = Append(@, Len(bfs.states) + 1)]
  /\ UNCHANGED problem

BfsDiscover ==
  /\ BfsScanning
  /\ BfsNextWorld \notin bfs.visited \cup {Refused} \cup problem.goals
  /\ bfs' = [bfs EXCEPT
       !.todo = Tail(@), !.visited = @ \cup {BfsNextWorld}, !.generated = @ + 1,
       !.states = Append(@, BfsChild), !.frontier = Append(@, Len(bfs.states) + 1)]
  /\ UNCHANGED problem

BfsScanEnd ==
  /\ bfs.at = "scan"
  /\ bfs.todo = <<>>
  /\ bfs' = [bfs EXCEPT !.at = "loop"]
  /\ UNCHANGED problem

(* Mutant: a used-up budget with a short frontier is taken for the end. *)
BfsReturnEarly ==
  /\ bfs.at = "loop"
  /\ bfs.left = 0
  /\ bfs' = [bfs EXCEPT !.at = "returned", !.exhausted = Len(bfs.frontier) <= 1]
  /\ UNCHANGED problem

BfsReturn ==
  /\ bfs.at = "loop"
  /\ bfs.left = 0
  /\ bfs' = [bfs EXCEPT !.at = "returned", !.exhausted = bfs.frontier = <<>>]
  /\ UNCHANGED problem

BfsNext ==
  \/ \E units \in Budgets : BfsAdvance(units)
  \/ BfsInterrupt \/ BfsExpand \/ BfsExpandNone
  \/ BfsSkip \/ BfsReach \/ BfsDiscover \/ BfsScanEnd
  \/ BfsReturn

(* A caller that advances until the session is over. *)
BfsSpec == BfsInit /\ [][BfsNext]_bfsVars

-----------------------------------------------------------------------------
(* A solution is a trace the kernel accepts exchange by exchange, from the  *)
(* initial economy to one that matches the goal.                            *)
BfsSolutionReplays ==
  bfs.solution.found => \E w \in problem.goals : Replays(bfs.solution.trace, w)

(* No solution has fewer exchanges, however the work was split. *)
BfsSolutionIsShortest ==
  bfs.solution.found => NoneNearer(problem.goals, Len(bfs.solution.trace))

(* A session that gives up has a reason: no candidates lead to a goal. *)
BfsExhaustedIsUnreachable ==
  bfs.exhausted => Unreachable(problem.goals)

(* What a breadth-first session reports is so: its trace is accepted and    *)
(* leads to a goal, no trace is shorter, and when it has nothing to report, *)
(* there is nothing to find.                                                *)
BfsTellsTheTruth ==
  BfsSolutionReplays /\ BfsSolutionIsShortest /\ BfsExhaustedIsUnreachable

-----------------------------------------------------------------------------
(* What the three properties rest on.  The frontier is the tail of the      *)
(* retained states, in the order they were retained; the states before it   *)
(* have been opened.                                                        *)

State == [world : Worlds, trace : Seq(Exchanges)]

Solution == [found : BOOLEAN, trace : Seq(Exchanges), expanded : Nat]
Session ==
  [states : Seq(State), frontier : Seq(Nat), visited : SUBSET Worlds,
   expanded : Nat, generated : Nat, solution : Solution, exhausted : BOOLEAN,
   at : {"returned", "loop", "scan"}, left : Nat, current : Nat,
   todo : Seq(Exchanges), idle : Nat]

BfsTypeOK == problem \in Problems /\ bfs \in Session

Opened   == Len(bfs.states) - Len(bfs.frontier)
Depth(i) == Len(bfs.states[i].trace)

Known(w, depth) == \E i \in DOMAIN bfs.states : bfs.states[i].world = w /\ Depth(i) <= depth

QueueInv ==
  /\ Opened >= 0
  /\ \A i \in DOMAIN bfs.frontier : bfs.frontier[i] = Opened + i
  /\ bfs.at = "scan" => Opened >= 1 /\ bfs.current = Opened

(* Each world is retained once, and so far no goal is.                      *)
VisitedInv ==
  /\ Len(bfs.states) >= 1
  /\ bfs.states[1] = [world |-> problem.initial, trace |-> <<>>]
  /\ \A i, j \in DOMAIN bfs.states : bfs.states[i].world = bfs.states[j].world => i = j
  /\ bfs.visited = {bfs.states[i].world : i \in DOMAIN bfs.states}
  /\ bfs.visited \cap problem.goals = {}

TracesInv ==
  \A i \in DOMAIN bfs.states : Replays(bfs.states[i].trace, bfs.states[i].world)

(* States are retained by increasing depth, and what is open differs by one. *)
DepthInv ==
  /\ \A i, j \in DOMAIN bfs.states : i <= j => Depth(i) <= Depth(j)
  /\ IF Opened = 0 THEN Len(bfs.states) = 1
     ELSE \A i \in DOMAIN bfs.states : Depth(i) <= Depth(Opened) + 1

(* The successors of an opened state are retained, one step deeper at most, *)
(* or still to be scanned.                                                  *)
OpenedInv ==
  \A i \in 1 .. Opened : \A w \in Successors(bfs.states[i].world) :
    \/ Known(w, Depth(i) + 1)
    \/ /\ bfs.at = "scan" /\ i = bfs.current
       /\ \E k \in DOMAIN bfs.todo : w = Outcome(bfs.states[i].world, bfs.todo[k])

SearchInv == QueueInv /\ VisitedInv /\ TracesInv /\ DepthInv /\ OpenedInv

(* A session that is over stays as it is. *)
OverInv ==
  /\ bfs.solution.found \/ bfs.exhausted => bfs.at = "returned"
  /\ bfs.exhausted => bfs.frontier = <<>> /\ ~bfs.solution.found

BfsInv ==
  /\ BfsTypeOK
  /\ OverInv
  /\ bfs.solution.found => BfsSolutionReplays /\ BfsSolutionIsShortest
  /\ ~bfs.solution.found => SearchInv
=============================================================================

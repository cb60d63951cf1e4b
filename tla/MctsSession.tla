----------------------------- MODULE MctsSession -----------------------------
(***************************************************************************)
(* Resumable Monte Carlo tree search over branches of an economy.  A unit   *)
(* of work is one iteration: down the tree, one rollout, and back up.  One  *)
(* action per turn of the loops of an iteration.                            *)
(***************************************************************************)
EXTENDS TreeProblem, SequencesExt, FiniteSetsExt

VARIABLE
  mcts  \* the fields of the session, and the advance in progress:
        \*   at     "returned", in the "loop", on the way to "descend" or to
        \*          "simulate", or "failed": the callers drop such a session
        \*   left   units of the budget not used yet
        \*   node, path, world, depth  of the iteration
        \*   idle   advances that may still do nothing

mctsVars == <<problem, mcts>>

MctsNode(w) == [world |-> w, children |-> <<>>, visits |-> 0, totals |-> NoValues]

MctsActions(w) == ApplicableActions(w, problem.candidates[w])

MctsAccepts ==
  /\ ValidConfig
  /\ problem.initial \notin problem.goals
  /\ ~NatureMoves(problem.initial)
  /\ MctsActions(problem.initial) # <<>>
  /\ ValidActor(problem.actor[problem.initial])

MctsNew ==
  [nodes          |-> <<MctsNode(problem.initial)>>,
   transpositions |-> [w \in {problem.initial} |-> 1],
   draws          |-> 0,
   iterations     |-> 0,
   decision       |-> [found |-> FALSE, action |-> Refused],
   at |-> IF MctsAccepts THEN "returned" ELSE "failed",
   left |-> 0, node |-> 1, path |-> <<>>, world |-> problem.initial, depth |-> 0,
   idle |-> MaxIdle]

MctsInit ==
  /\ problem \in Games
  /\ mcts = MctsNew

(* Advancing a session with a decision returns at once. *)
MctsAdvance(units) ==
  /\ mcts.at = "returned"
  /\ ~mcts.decision.found
  /\ units = 0 => mcts.idle > 0
  /\ mcts' = [mcts EXCEPT !.at = "loop", !.left = units,
                          !.idle = IF units = 0 THEN @ - 1 ELSE @]
  /\ UNCHANGED problem

MctsMoreWork == mcts.at = "loop" /\ mcts.left > 0 /\ mcts.iterations < problem.iterations

MctsInterrupt ==
  /\ MctsMoreWork
  /\ mcts.idle > 0
  /\ mcts' = [mcts EXCEPT !.at = "returned", !.idle = @ - 1]
  /\ UNCHANGED problem

MctsStart ==
  /\ MctsMoreWork
  /\ mcts' = [mcts EXCEPT !.at = "descend", !.node = 1, !.path = <<1>>, !.depth = 0]
  /\ UNCHANGED problem

-----------------------------------------------------------------------------
MctsFail(session) == [session EXCEPT !.at = "failed"]

(* Mutant: the rollout's last step is told of the values twice. *)
BackUpTheLastTwice(session, path, values) ==
  IF ValidValues(values)
  THEN [session EXCEPT
          !.at = "loop", !.left = @ - 1, !.iterations = @ + 1, !.path = <<>>,
          !.nodes = [i \in DOMAIN @ |->
             LET times == Occurrences(Append(path, path[Len(path)]), i)
             IN  [@[i] EXCEPT !.visits = @ + times,
                              !.totals = AddValues(@, Plural(times, values))]]]
  ELSE MctsFail(session)

(* Mutant: a node is told only what it is worth to the player who acts there. *)
BackUpForTheActor(session, path, values) ==
  IF ValidValues(values)
  THEN [session EXCEPT
          !.at = "loop", !.left = @ - 1, !.iterations = @ + 1, !.path = <<>>,
          !.nodes = [i \in DOMAIN @ |->
             LET times == Occurrences(path, i)
                 actor == problem.actor[@[i].world] + 1
             IN  [@[i] EXCEPT !.visits = @ + times,
                              !.totals = [p \in DOMAIN @ |->
                                 IF p = actor THEN @[p] + times * values[p] ELSE @[p]]]]]
  ELSE MctsFail(session)

(* A node that is on the path twice counts twice. *)
Credited(nodes, path, values) ==
  [i \in DOMAIN nodes |->
     LET times == Occurrences(path, i)
     IN  [nodes[i] EXCEPT !.visits = @ + times, !.totals = AddValues(@, Plural(times, values))]]

(* The end of an iteration. *)
BackUp(session, path, values) ==
  IF ValidValues(values)
  THEN [session EXCEPT
          !.at = "loop", !.left = @ - 1, !.iterations = @ + 1, !.path = <<>>,
          !.nodes = Credited(session.nodes, path, values)]
  ELSE MctsFail(session)

MctsStuck(w, depth) ==
  \/ w \in problem.goals \/ depth >= problem.depth
  \/ ~NatureMoves(w) /\ MctsActions(w) = <<>>

MctsHere  == mcts.nodes[mcts.node]
MctsGoing == mcts.at = "descend" /\ ~MctsStuck(MctsHere.world, mcts.depth)

EdgesFor(session, parent, x) ==
  {e \in DOMAIN session.nodes[parent].children : session.nodes[parent].children[e].action = x}

Located(transpositions, w, node) ==
  [v \in DOMAIN transpositions \cup {w} |-> IF v = w THEN node ELSE transpositions[v]]

ChildBy(session, parent, x) ==
  session.nodes[parent].children[CHOOSE e \in EdgesFor(session, parent, x) : TRUE].child

(* Mutant: a world that was reached before gets another node. *)
DescendOrDuplicate(session, parent, x) ==
  LET next == Outcome(session.nodes[parent].world, x)
      edge == [action |-> x, child |-> Len(session.nodes) + 1]
  IN  IF EdgesFor(session, parent, x) # {}
      THEN [session EXCEPT !.node = ChildBy(session, parent, x)]
      ELSE [session EXCEPT !.nodes = Append([@ EXCEPT ![parent].children = Append(@, edge)], MctsNode(next)),
                           !.transpositions = Located(@, next, edge.child),
                           !.node = edge.child]

(* The session at the child an accepted exchange leads to: by an edge there *)
(* is, by a new edge to a world that has a node, or to a new node.          *)
DescendOrExpand(session, parent, x) ==
  LET next  == Outcome(session.nodes[parent].world, x)
      known == next \in DOMAIN session.transpositions
      child == IF known THEN session.transpositions[next] ELSE Len(session.nodes) + 1
      linked == [session.nodes EXCEPT ![parent].children =
                   Append(@, [action |-> x, child |-> child])]
  IN  IF EdgesFor(session, parent, x) # {} THEN [session EXCEPT !.node = ChildBy(session, parent, x)]
      ELSE IF known THEN [session EXCEPT !.nodes = linked, !.node = child]
      ELSE [session EXCEPT !.nodes = Append(linked, MctsNode(next)), !.node = child,
                           !.transpositions = Located(@, next, child)]

MctsEvaluate ==
  /\ mcts.at = "descend"
  /\ MctsStuck(MctsHere.world, mcts.depth)
  /\ mcts' = BackUp(mcts, mcts.path, problem.values[MctsHere.world])
  /\ UNCHANGED problem

(* On along a child: a child that is on the path already ends the descent.  *)
MctsFollow(session) ==
  IF Contains(session.path, session.node)
  THEN BackUp(session, session.path, problem.values[session.nodes[session.node].world])
  ELSE [session EXCEPT !.path = Append(@, session.node), !.depth = @ + 1]

MctsRollout(session) ==
  [session EXCEPT !.at = "simulate", !.path = Append(@, session.node), !.depth = @ + 1,
                  !.world = session.nodes[session.node].world]

(* A node Nature's exchange adds is rolled out from. *)
MctsChance ==
  /\ MctsGoing
  /\ NatureMoves(MctsHere.world)
  /\ LET x    == NatureSample(MctsHere.world, mcts.draws)
         down == DescendOrExpand([mcts EXCEPT !.draws = @ + 1], mcts.node, x)
     IN  mcts' = IF ~NatureHasSupport(MctsHere.world) \/ Outcome(MctsHere.world, x) = Refused
                 THEN MctsFail(mcts)
                 ELSE IF Len(down.nodes) > Len(mcts.nodes) THEN MctsRollout(down)
                 ELSE MctsFollow(down)
  /\ UNCHANGED problem

Unexpanded ==
  LET actions == MctsActions(MctsHere.world)
  IN  Keeping(actions, {i \in DOMAIN actions : EdgesFor(mcts, mcts.node, actions[i]) = {}})

(* An action not tried yet is rolled out from, wherever it leads. *)
MctsExpand ==
  /\ MctsGoing
  /\ ~NatureMoves(MctsHere.world)
  /\ Unexpanded # <<>>
  /\ mcts' = MctsRollout(DescendOrExpand([mcts EXCEPT !.draws = @ + 1], mcts.node,
                                         RandomAction(Unexpanded, mcts.draws)))
  /\ UNCHANGED problem

UctScore(child, player, parentVisits) ==
  IF child.visits = 0 THEN Infinity
  ELSE (1000 * child.totals[player + 1]) \div child.visits
         + Bonus(AtLeastOne(parentVisits), child.visits)

(* Every action has been tried: the player to act goes where its score is.  *)
MctsSelect ==
  /\ MctsGoing
  /\ ~NatureMoves(MctsHere.world)
  /\ Unexpanded = <<>>
  /\ LET player == problem.actor[MctsHere.world]
         best   == LastBest([e \in DOMAIN MctsHere.children |->
                     UctScore(mcts.nodes[MctsHere.children[e].child], player, MctsHere.visits)])
     IN  mcts' = IF ~ValidActor(player) THEN MctsFail(mcts)
                 ELSE MctsFollow([mcts EXCEPT !.node = MctsHere.children[best].child])
  /\ UNCHANGED problem

MctsSimulate ==
  /\ mcts.at = "simulate"
  /\ ~MctsStuck(mcts.world, mcts.depth)
  /\ LET x == IF NatureMoves(mcts.world) THEN NatureSample(mcts.world, mcts.draws)
              ELSE RandomAction(MctsActions(mcts.world), mcts.draws)
     IN  mcts' = IF \/ NatureMoves(mcts.world) /\ ~NatureHasSupport(mcts.world)
                    \/ Outcome(mcts.world, x) = Refused
                 THEN MctsFail(mcts)
                 ELSE [mcts EXCEPT !.world = Outcome(mcts.world, x), !.depth = @ + 1, !.draws = @ + 1]
  /\ UNCHANGED problem

MctsSimulateEnd ==
  /\ mcts.at = "simulate"
  /\ MctsStuck(mcts.world, mcts.depth)
  /\ mcts' = BackUp(mcts, mcts.path, problem.values[mcts.world])
  /\ UNCHANGED problem

-----------------------------------------------------------------------------
RootChild(e)  == mcts.nodes[mcts.nodes[1].children[e].child]
RootPlayer    == problem.actor[problem.initial]

(* Mutant: the mean decides, however often it was sampled. *)
BestChildByMean ==
  CHOOSE e \in DOMAIN mcts.nodes[1].children : \A other \in DOMAIN mcts.nodes[1].children :
    RootChild(e).totals[RootPlayer + 1] * RootChild(other).visits
      >= RootChild(other).totals[RootPlayer + 1] * RootChild(e).visits

BestChild ==
  MostVisited([e \in DOMAIN mcts.nodes[1].children |-> RootChild(e).visits],
              [e \in DOMAIN mcts.nodes[1].children |-> RootChild(e).totals[RootPlayer + 1]])

(* The chosen action is applied to a fork of the initial economy once more. *)
MctsFinish ==
  LET x == mcts.nodes[1].children[BestChild].action
  IN  IF mcts.nodes[1].children = <<>> \/ Outcome(problem.initial, x) = Refused
      THEN MctsFail(mcts)
      ELSE [mcts EXCEPT !.at = "returned", !.decision = [found |-> TRUE, action |-> x]]

MctsReturn ==
  /\ mcts.at = "loop"
  /\ mcts.left = 0 \/ mcts.iterations = problem.iterations
  /\ mcts' = IF mcts.iterations = problem.iterations THEN MctsFinish
             ELSE [mcts EXCEPT !.at = "returned"]
  /\ UNCHANGED problem

MctsNext ==
  \/ \E units \in Budgets : MctsAdvance(units)
  \/ MctsInterrupt \/ MctsStart
  \/ MctsEvaluate \/ MctsChance \/ MctsExpand \/ MctsSelect
  \/ MctsSimulate \/ MctsSimulateEnd
  \/ MctsReturn

MctsSpec == MctsInit /\ [][MctsNext]_mctsVars

-----------------------------------------------------------------------------
(* "Every tree edge is an exchange": an edge leads where the kernel takes   *)
(* its exchange, to the one node of that world, and a node has every way    *)
(* on at most once.                                                         *)
TreeIsOfTheEconomy ==
  /\ \A i, j \in DOMAIN mcts.nodes : mcts.nodes[i].world = mcts.nodes[j].world => i = j
  /\ \A i \in DOMAIN mcts.nodes :
       LET edges == mcts.nodes[i].children
       IN  /\ \A e \in DOMAIN edges :
                mcts.nodes[edges[e].child].world = Outcome(mcts.nodes[i].world, edges[e].action)
           /\ \A e, f \in DOMAIN edges : edges[e].action = edges[f].action => e = f

(* No exchanges lead back to where they started. *)
Progressing ==
  \A loop \in (SUBSET Worlds) \ {{}} :
    \E w \in loop : {Outcome(w, x) : x \in Exchanges} \cap loop = {}

(* Every iteration starts at the root and is counted there, and none is     *)
(* counted twice anywhere unless exchanges lead back to where they started. *)
IterationsAreCounted ==
  /\ mcts.iterations <= mcts.nodes[1].visits
  /\ \/ /\ mcts.nodes[1].visits = mcts.iterations
        /\ \A i \in DOMAIN mcts.nodes : mcts.nodes[i].visits <= mcts.iterations
     \/ ~Progressing

(* What the root was told is what its children were: nothing an iteration   *)
(* found is lost or made up on the way, where each child has one way in.    *)
ValuesReachTheRoot ==
  LET kids == {mcts.nodes[1].children[e].child : e \in DOMAIN mcts.nodes[1].children}
  IN  \/ \A p \in 1 .. problem.players :
           mcts.nodes[1].totals[p] = MapThenSumSet(LAMBDA i : mcts.nodes[i].totals[p], kids)
      \/ \E i \in DOMAIN mcts.nodes \ {1} : \E e \in DOMAIN mcts.nodes[i].children :
           mcts.nodes[i].children[e].child \in kids
      \/ ~Progressing

(* A decision is made after all iterations, for an exchange the kernel      *)
(* accepts and no root exchange was visited more often.                     *)
DecisionIsMostVisited ==
  mcts.decision.found =>
    /\ mcts.iterations = problem.iterations
    /\ \E e \in DOMAIN mcts.nodes[1].children :
         /\ mcts.nodes[1].children[e].action = mcts.decision.action
         /\ RootChild(e).visits > 0
         /\ \A f \in DOMAIN mcts.nodes[1].children : RootChild(f).visits <= RootChild(e).visits

(* The statistics of the tree stay those of its iterations, with shared     *)
(* nodes, Nature's turns, failures and interruptions between any two, and   *)
(* they support the decision.                                               *)
MctsTellsTheTruth ==
  TreeIsOfTheEconomy /\ IterationsAreCounted /\ ValuesReachTheRoot /\ DecisionIsMostVisited
=============================================================================

---------------------------- MODULE IsmctsSession ----------------------------
(***************************************************************************)
(* Resumable information-set Monte Carlo tree search.  Every iteration      *)
(* draws a world the player at the root may be in; the tree is keyed by     *)
(* what the acting player sees, and so are proposals.  A problem has in     *)
(* addition `information` of worlds (who is to act, and what they see),     *)
(* `proposals` for what is seen and `beliefs` for the root.                 *)
(***************************************************************************)
EXTENDS TreeProblem, SequencesExt, FiniteSetsExt

ASSUME InformationAssumption ==
  \A p \in Games :
    /\ p.beliefs \in Seq(Worlds)
    /\ \A w \in Worlds : /\ p.information[w].actor \in Nat
                         /\ p.proposals[p.information[w]] \in Seq(Exchanges)

VARIABLE
  ismcts  \* as of MctsSession; `path` are the <<node, edge>> taken in `world`

ismctsVars == <<problem, ismcts>>

Information(w) == problem.information[w]

IsNode(information) == [information |-> information, edges |-> <<>>, visits |-> 0]

IsEdge(x) == [action |-> x, visits |-> 0, availability |-> 0, totals |-> NoValues]

(* Mutant: what the real economy does not accept is not tried. *)
AvailableInReality(w) ==
  SelectSeq(ApplicableActions(w, problem.proposals[Information(w)]),
            LAMBDA x : Outcome(problem.initial, x) # Refused)

(* Proposals for what is seen, kept where the sampled world allows them. *)
Available(w) == ApplicableActions(w, problem.proposals[Information(w)])

IsmctsAccepts ==
  /\ ValidConfig
  /\ problem.initial \notin problem.goals
  /\ ValidActor(Information(problem.initial).actor)
  /\ problem.proposals[Information(problem.initial)] # <<>>

IsmctsNew ==
  [root       |-> Information(problem.initial),
   nodes      |-> <<IsNode(Information(problem.initial))>>,
   draws      |-> 0,
   iterations |-> 0,
   decision   |-> [found |-> FALSE, action |-> Refused],
   at |-> IF IsmctsAccepts THEN "returned" ELSE "failed",
   left |-> 0, world |-> problem.initial, path |-> <<>>, depth |-> 0, idle |-> MaxIdle]

IsmctsInit ==
  /\ problem \in Games
  /\ ismcts = IsmctsNew

IsmctsAdvance(units) ==
  /\ ismcts.at = "returned"
  /\ ~ismcts.decision.found
  /\ units = 0 => ismcts.idle > 0
  /\ ismcts' = [ismcts EXCEPT !.at = "loop", !.left = units,
                              !.idle = IF units = 0 THEN @ - 1 ELSE @]
  /\ UNCHANGED problem

IsmctsMoreWork == ismcts.at = "loop" /\ ismcts.left > 0 /\ ismcts.iterations < problem.iterations

IsmctsInterrupt ==
  /\ IsmctsMoreWork
  /\ ismcts.idle > 0
  /\ ismcts' = [ismcts EXCEPT !.at = "returned", !.idle = @ - 1]
  /\ UNCHANGED problem

IsmctsFail(session) == [session EXCEPT !.at = "failed"]

Determinized == problem.beliefs[1 + Ticket(ismcts.draws, Len(problem.beliefs))]

(* A world drawn must look as the real one does. *)
IsmctsStart ==
  /\ IsmctsMoreWork
  /\ ismcts' = IF problem.beliefs = <<>> \/ Information(Determinized) # ismcts.root
               THEN IsmctsFail(ismcts)
               ELSE [ismcts EXCEPT !.at = "descend", !.world = Determinized, !.path = <<>>,
                                   !.depth = 0, !.draws = @ + 1]
  /\ UNCHANGED problem

-----------------------------------------------------------------------------
(* The edges of a node, the taken ones of them told of the values. *)
RewardedEdges(edges, taken, values) ==
  [e \in DOMAIN edges |->
     IF e \in taken
     THEN [edges[e] EXCEPT !.visits = @ + 1, !.totals = AddValues(@, values)]
     ELSE edges[e]]

Rewarded(nodes, path, values) ==
  [i \in DOMAIN nodes |->
     LET taken == {step[2] : step \in {s \in ToSet(path) : s[1] = i}}
     IN  [nodes[i] EXCEPT !.visits = @ + Cardinality(taken),
                          !.edges = RewardedEdges(nodes[i].edges, taken, values)]]

(* The end of an iteration, with the values of its last world. *)
Credit(session) ==
  LET values == problem.values[session.world]
  IN  IF ~ValidValues(values) THEN IsmctsFail(session)
      ELSE [session EXCEPT
              !.at = "loop", !.left = @ - 1, !.iterations = @ + 1, !.path = <<>>,
              !.nodes = Rewarded(session.nodes, session.path, values)]

IsmctsEnded(session) == session.world \in problem.goals \/ session.depth >= problem.depth

IsmctsEvaluate ==
  /\ ismcts.at \in {"descend", "simulate"}
  /\ IsmctsEnded(ismcts)
  /\ ismcts' = Credit(ismcts)
  /\ UNCHANGED problem

(* Nature's exchanges are not part of the tree. *)
IsmctsChance ==
  /\ ismcts.at \in {"descend", "simulate"}
  /\ ~IsmctsEnded(ismcts)
  /\ NatureMoves(ismcts.world)
  /\ LET next == Outcome(ismcts.world, NatureSample(ismcts.world, ismcts.draws))
     IN  ismcts' = IF ~NatureHasSupport(ismcts.world) \/ next = Refused THEN IsmctsFail(ismcts)
                   ELSE [ismcts EXCEPT !.world = next, !.depth = @ + 1, !.draws = @ + 1]
  /\ UNCHANGED problem

NodesFor(session, information) ==
  {i \in DOMAIN session.nodes : session.nodes[i].information = information}

NodeFor(session, information) ==
  IF NodesFor(session, information) # {} THEN session
  ELSE [session EXCEPT !.nodes = Append(@, IsNode(information))]

EdgeFor(edges, x) == CHOOSE e \in DOMAIN edges : edges[e].action = x

NewEdges(edges, actions) ==
  LET new == Keeping(actions, {i \in DOMAIN actions : \A e \in DOMAIN edges : edges[e].action # actions[i]})
  IN  [k \in DOMAIN new |-> [IsEdge(new[k]) EXCEPT !.availability = 1]]

(* Mutant: only actions seen for the first time are counted as available. *)
RegisterNew(edges, actions) == edges \o NewEdges(edges, actions)

RegisterAvailable(edges, actions) ==
  [e \in DOMAIN edges |->
     IF Contains(actions, edges[e].action) THEN [edges[e] EXCEPT !.availability = @ + 1]
     ELSE edges[e]]
  \o NewEdges(edges, actions)

IsmctsScore(edge, player) ==
  IF edge.visits = 0 THEN Infinity
  ELSE (1000 * edge.totals[player + 1]) \div edge.visits
         + Bonus(AtLeastOne(edge.availability), edge.visits)

(* An action never taken is taken and rolled out from; else the best of     *)
(* those that are available here.                                           *)
TakeEdge(session, node, actions) ==
  LET edges     == session.nodes[node].edges
      unvisited == Keeping(actions, {i \in DOMAIN actions : edges[EdgeFor(edges, actions[i])].visits = 0})
      player    == Information(session.world).actor
      best      == LastBest([k \in DOMAIN actions |-> IsmctsScore(edges[EdgeFor(edges, actions[k])], player)])
      expanded  == unvisited # <<>>
      action    == IF expanded THEN RandomAction(unvisited, session.draws) ELSE actions[best]
  IN  [session EXCEPT !.at = IF expanded THEN "simulate" ELSE "descend",
                      !.draws = IF expanded THEN @ + 1 ELSE @,
                      !.world = Outcome(@, action),
                      !.path = Append(@, <<node, EdgeFor(edges, action)>>), !.depth = @ + 1]

(* A player's turn in the tree: the end of the descent if what is seen was  *)
(* seen on the way here, or nothing can be done.                            *)
IsmctsVisit ==
  /\ ismcts.at = "descend"
  /\ ~IsmctsEnded(ismcts)
  /\ ~NatureMoves(ismcts.world)
  /\ \E actions \in {Available(ismcts.world)} :
     LET seen    == Information(ismcts.world)
         session == NodeFor(ismcts, seen)
         node    == CHOOSE i \in NodesFor(session, seen) : TRUE
         edges   == RegisterAvailable(session.nodes[node].edges, actions)
     IN  ismcts' =
           IF ~ValidActor(seen.actor) THEN IsmctsFail(ismcts)
           ELSE IF actions = <<>> \/ \E step \in ToSet(ismcts.path) : step[1] = node THEN Credit(session)
           ELSE TakeEdge([session EXCEPT !.nodes[node].edges = edges], node, actions)
  /\ UNCHANGED problem

IsmctsSimulate ==
  /\ ismcts.at = "simulate"
  /\ ~IsmctsEnded(ismcts)
  /\ ~NatureMoves(ismcts.world)
  /\ LET actions == Available(ismcts.world)
     IN  ismcts' =
           IF ~ValidActor(Information(ismcts.world).actor) THEN IsmctsFail(ismcts)
           ELSE IF actions = <<>> THEN Credit(ismcts)
           ELSE [ismcts EXCEPT !.world = Outcome(@, RandomAction(actions, ismcts.draws)),
                               !.depth = @ + 1, !.draws = @ + 1]
  /\ UNCHANGED problem

-----------------------------------------------------------------------------
RootEdges == ismcts.nodes[1].edges

ExploredEdges == {e \in DOMAIN RootEdges : RootEdges[e].visits > 0}

(* Mutant: the choice is not tried on the real economy. *)
IsmctsFinishUntested ==
  LET best == MostVisited([e \in ExploredEdges |-> RootEdges[e].visits],
                          [e \in ExploredEdges |-> RootEdges[e].totals[ismcts.root.actor + 1]])
  IN  IF ExploredEdges = {} THEN IsmctsFail(ismcts)
      ELSE [ismcts EXCEPT !.at = "returned",
                          !.decision = [found |-> TRUE, action |-> RootEdges[best].action]]

(* Only now is the real economy looked at: it must accept the choice. *)
IsmctsFinish ==
  LET best == MostVisited([e \in ExploredEdges |-> RootEdges[e].visits],
                          [e \in ExploredEdges |-> RootEdges[e].totals[ismcts.root.actor + 1]])
  IN  IF ExploredEdges = {} \/ Outcome(problem.initial, RootEdges[best].action) = Refused
      THEN IsmctsFail(ismcts)
      ELSE [ismcts EXCEPT !.at = "returned",
                          !.decision = [found |-> TRUE, action |-> RootEdges[best].action]]

IsmctsReturn ==
  /\ ismcts.at = "loop"
  /\ ismcts.left = 0 \/ ismcts.iterations = problem.iterations
  /\ ismcts' = IF ismcts.iterations = problem.iterations THEN IsmctsFinish
               ELSE [ismcts EXCEPT !.at = "returned"]
  /\ UNCHANGED problem

IsmctsNext ==
  \/ \E units \in Budgets : IsmctsAdvance(units)
  \/ IsmctsInterrupt \/ IsmctsStart
  \/ IsmctsEvaluate \/ IsmctsChance \/ IsmctsVisit \/ IsmctsSimulate
  \/ IsmctsReturn

IsmctsSpec == IsmctsInit /\ [][IsmctsNext]_ismctsVars

-----------------------------------------------------------------------------
(* A node is told of every visit of one of its edges and of none twice, an  *)
(* edge is never taken more often than it was available, and nothing is on  *)
(* offer that was not proposed for what the player sees.                    *)
InformationIsCounted ==
  /\ \A i, j \in DOMAIN ismcts.nodes :
       ismcts.nodes[i].information = ismcts.nodes[j].information => i = j
  /\ \A i \in DOMAIN ismcts.nodes :
       LET node == ismcts.nodes[i]
       IN  /\ node.visits = MapThenSumSet(LAMBDA e : node.edges[e].visits, DOMAIN node.edges)
           /\ node.visits <= ismcts.iterations
           /\ \A e \in DOMAIN node.edges :
                /\ node.edges[e].visits <= node.edges[e].availability
                /\ node.edges[e].availability <= ismcts.iterations + 1
                /\ Contains(problem.proposals[node.information], node.edges[e].action)

(* A decision is made after all iterations, for the exchange that was taken *)
(* most often, and can be acted on in the economy as it really is.          *)
DecisionIsApplicable ==
  ismcts.decision.found =>
    /\ ismcts.iterations = problem.iterations
    /\ Outcome(problem.initial, ismcts.decision.action) # Refused
    /\ \E e \in ExploredEdges :
         /\ RootEdges[e].action = ismcts.decision.action
         /\ \A f \in ExploredEdges : RootEdges[f].visits <= RootEdges[e].visits

(* The statistics are those of the iterations, whichever worlds were drawn, *)
(* and the decision they support is one the real economy accepts.           *)
IsmctsTellsTheTruth == InformationIsCounted /\ DecisionIsApplicable
=============================================================================

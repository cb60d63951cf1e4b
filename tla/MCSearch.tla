------------------------------- MODULE MCSearch -------------------------------
(***************************************************************************)
(* The resumable sessions of the search crate on small problems: graphs     *)
(* with chains, shortcuts, loops, refusals and dead ends, games on such     *)
(* graphs, and evaluations of policies.  Each behaviour runs one session,   *)
(* after a twin of it that was given the same problem and left alone until  *)
(* it was over.                                                             *)
(***************************************************************************)
EXTENDS BfsSession, AStarSession, ParetoSearch, MctsSession, IsmctsSession, MonteCarlo,
        BestFirst, TLC

MCWorlds == {"a", "b", "c", "d", "e"}

(* x and y of each world; y of c, d and e is refused. *)
Graphs ==
  {[a |-> [x |-> ax, y |-> ay], b |-> [x |-> bx, y |-> by],
    c |-> [x |-> cx, y |-> "none"], d |-> [x |-> dx, y |-> "none"],
    e |-> [x |-> "d", y |-> "none"]] :
     ax \in {"b", "none"}, ay \in {"b", "c", "d"}, bx \in {"c", "d"}, by \in {"none", "a"},
     cx \in {"d", "b", "e"}, dx \in {"none", "a"}}

Uniform == [w \in MCWorlds |-> [x |-> 1, y |-> 1]]
Steep   == [a |-> [x |-> 1, y |-> 3], b |-> [x |-> 1, y |-> 0],
            c |-> [x |-> 1, y |-> 0], d |-> [x |-> 0, y |-> 0], e |-> [x |-> 1, y |-> 0]]
Dear    == [a |-> [x |-> 2, y |-> 4], b |-> [x |-> 3, y |-> 1],
            c |-> [x |-> 0, y |-> 1], d |-> [x |-> 1, y |-> 1], e |-> [x |-> 0, y |-> 1]]

Blind      == [w \in MCWorlds |-> 0]
Misleading == [Blind EXCEPT !["b"] = 3]

Vector(first, second) ==
  [schema |-> <<[key |-> "energy", direction |-> "Minimize"],
                [key |-> "quality", direction |-> "Maximize"]>>,
   values |-> <<first, second>>]

Tradeoff == [a |-> Vector(3, 0), b |-> Vector(2, 1), c |-> Vector(1, 0), d |-> Vector(2, 2),
             e |-> Vector(3, 3)]
Broken   == [Tradeoff EXCEPT !["b"] = Vector(1, NaN)]
Mixed    == [Tradeoff EXCEPT !["c"] = [schema |-> <<>>, values |-> <<>>]]

Policy(goals, cost, heuristic, project) ==
  [goals |-> goals, cost |-> cost, heuristic |-> heuristic, project |-> project]

Policies ==
  {Policy({"d"}, Uniform, Blind, Tradeoff), Policy({"d"}, Steep, Misleading, Tradeoff),
   Policy({"c", "d"}, Steep, Blind, Tradeoff), Policy({"d"}, Dear, Misleading, Tradeoff),
   Policy({"b", "c", "d"}, Dear, Blind, Broken), Policy({"b", "c", "d"}, Dear, Blind, Tradeoff),
   Policy({"b", "c"}, Uniform, Blind, Mixed), Policy({"a", "d"}, Uniform, Blind, Tradeoff)}

Quiet == [w \in MCWorlds |-> <<>>]

(* A problem of one move, for sessions that are not run. *)
Plain ==
  [initial    |-> "a",
   goals      |-> {"d"},
   candidates |-> [w \in MCWorlds |-> <<"x", "y">>],
   outcome    |-> [w \in MCWorlds |-> [x |-> "d", y |-> "none"]],
   cost       |-> Uniform,
   price      |-> Blind,
   heuristic  |-> Blind,
   project    |-> Tradeoff,
   players |-> 2, iterations |-> 4, depth |-> 3,
   actor       |-> [w \in MCWorlds |-> 0],
   values      |-> [w \in MCWorlds |-> <<0, 0>>],
   chance      |-> Quiet,
   tape        |-> <<0>>,
   information |-> [w \in MCWorlds |-> [actor |-> 0, key |-> w]],
   proposals   |-> [i \in [actor : {0}, key : MCWorlds] |-> <<"x", "y">>],
   beliefs     |-> <<"a">>,
   elsewhere   |-> "a"]

MCProblems ==
  {[Plain EXCEPT !.goals = policy.goals, !.outcome = graph, !.cost = policy.cost,
                 !.price = [w \in MCWorlds |-> policy.cost[w].x], !.heuristic = policy.heuristic, !.project = policy.project] :
     graph \in Graphs, policy \in Policies}

-----------------------------------------------------------------------------
(* sqrt(ln(n) / visits) in thousandths, from the logarithms of 1 to 9.      *)
Logarithms == <<0, 693, 1099, 1386, 1609, 1792, 1946, 2079, 2197>>
Root(n) == CHOOSE r \in 0 .. 1500 : r * r <= n /\ n < (r + 1) * (r + 1)
Bonuses == [n \in 1 .. 9 |-> [v \in 1 .. 9 |-> Root((1000 * Logarithms[n]) \div v)]]

MCBonus(n, visits) == Bonuses[n][visits]

Either(first, second) ==
  <<Weighted("x", first), Weighted("y", second)>>

Leaf == [x |-> "none", y |-> "none"]
Fork == [a |-> [x |-> "b", y |-> "c"], b |-> [x |-> "d", y |-> "e"],
         c |-> [x |-> "d", y |-> "none"], d |-> Leaf, e |-> Leaf]
Loop == [Fork EXCEPT !["c"] = [x |-> "d", y |-> "a"], !["b"] = [x |-> "c", y |-> "e"]]
Maze == [Fork EXCEPT !["b"] = [x |-> "a", y |-> "c"]]

(* a and b look alike: a guess of x is right in a and wrong in b, and y is  *)
(* to look first, which not every b allows.                                 *)
Coin(look, again) ==
  [a |-> [x |-> "d", y |-> "c"], b |-> [x |-> "e", y |-> look],
   c |-> [x |-> "d", y |-> again], d |-> Leaf, e |-> Leaf]

TwoPlayers ==
  [Plain EXCEPT
     !.goals  = {"d", "e"},
     !.actor  = [w \in MCWorlds |-> IF w \in {"b", "c"} THEN 1 ELSE 0],
     !.information = [w \in MCWorlds |-> [actor |-> IF w \in {"b", "c"} THEN 1 ELSE 0, key |-> w]],
     !.proposals   = [i \in [actor : {0, 1, 7}, key : MCWorlds] |-> <<"x", "y", "x">>],
     !.values = [a |-> <<0, 0>>, b |-> <<1, 0>>, c |-> <<0, 1>>, d |-> <<0, 2>>, e |-> <<2, 0>>]]

Hidden ==
  [TwoPlayers EXCEPT
     !.information = [w \in MCWorlds |-> [actor |-> 0, key |-> IF w = "b" THEN "a" ELSE w]],
     !.values      = [a |-> <<0, 0>>, b |-> <<0, 0>>, c |-> <<1, 1>>, d |-> <<2, 0>>, e |-> <<0, 2>>],
     !.beliefs     = <<"a", "b">>,
     !.elsewhere   = "b"]

Draws == {<<0, 1, 1, 0, 2>>, <<2, 1, 0, 0, 1, 2, 1>>}

Chances == {Quiet, [Quiet EXCEPT !["b"] = Either(1, 2)], [Quiet EXCEPT !["c"] = Either(2, 1)]}

(* Games with something wrong in them: closures that do not keep their part *)
(* of the contract, and configurations that are turned away.                *)
Faulty ==
  LET game == [TwoPlayers EXCEPT !.outcome = Fork]
  IN  {[game EXCEPT !.chance["c"] = Either(0, 0)], [game EXCEPT !.chance["a"] = Either(1, 1)],
       [game EXCEPT !.values["e"] = <<1>>], [game EXCEPT !.actor["b"] = 7],
       [game EXCEPT !.information["c"].actor = 7],
       [game EXCEPT !.beliefs = <<>>], [game EXCEPT !.beliefs = <<"a", "c">>],
       [game EXCEPT !.iterations = 0], [game EXCEPT !.goals = MCWorlds]}

MCGames ==
  {[TwoPlayers EXCEPT !.outcome = graph, !.chance = chance, !.tape = tape, !.depth = depth] :
     graph \in {Fork, Loop, Maze}, chance \in Chances, tape \in Draws, depth \in {2, 4}}
  \cup {[Hidden EXCEPT !.outcome = Coin(look, again), !.chance = chance, !.tape = tape,
                       !.initial = truth, !.elsewhere = IF truth = "a" THEN "b" ELSE "a"] :
     look \in {"c", "none"}, again \in {"none", "a"}, chance \in Chances, tape \in Draws,
     truth \in {"a", "b"}}
  \cup Faulty

-----------------------------------------------------------------------------
Evaluation(samples, first, second) ==
  [samples |-> samples, dimensions |-> 2, outcome |-> <<first, second>>]

ByIndex(zero, one, two) == [i \in 0 .. 2 |-> <<zero, one, two>>[i + 1]]

NoEvaluation == Evaluation(0, [i \in {} |-> <<0, 0>>], [i \in {} |-> <<0, 0>>])

(* The second policy's second sample may be refused: for its first value,   *)
(* for its second, or for its length.                                       *)
MCEvaluations ==
  {Evaluation(3, ByIndex(<<1, 0>>, <<0, 1>>, <<1, 1>>), ByIndex(<<0, 0>>, last, <<1, 0>>)) :
     last \in {<<0, 1>>, <<1, 1>>, <<NotFinite, 1>>, <<1, NotFinite>>, <<1>>}}
  \cup {NoEvaluation, Evaluation(1, [i \in {0} |-> <<1, 0>>], [i \in {0} |-> <<0, 1>>])}

-----------------------------------------------------------------------------
VARIABLES
  solver,   \* the session this behaviour is about
  bfsTwin, astarTwin, paretoTwin, mctsTwin, ismctsTwin

twins == <<bfsTwin, astarTwin, paretoTwin, mctsTwin, ismctsTwin>>
vars  == <<problem, evaluation, solver, bfs, astar, pareto, mcts, ismcts, mc, ranked, twins>>

Enough == 20

(* A game says all of this, and its elsewhere is a world that looks as the  *)
(* real one does and is as over as that is.                                 *)
ASSUME LookAlikeAssumption ==
  \A p \in Games :
    /\ {"initial", "goals", "outcome", "players", "iterations", "depth", "values", "chance", "tape",
        "information", "proposals", "beliefs"} \subseteq DOMAIN p
    /\ p.information[p.elsewhere] = p.information[p.initial]
    /\ p.elsewhere \in p.goals <=> p.initial \in p.goals

(* What the twin of an information-set search looks for is what is seen of  *)
(* another world, which its player could not tell from the real one.        *)
Elsewhere == [problem EXCEPT !.initial = problem.elsewhere]

(* The twins are instances of the modules with the proofs, so that what is  *)
(* proved of a session is known of its twin.                                *)
Alone       == INSTANCE GraphSearchProofs WITH bfs <- bfsTwin, astar <- astarTwin, pareto <- paretoTwin,
                                               Budgets <- {Enough}, MaxIdle <- 0
AloneMcts   == INSTANCE StatisticsProofs WITH mcts <- mctsTwin, Budgets <- {Enough}, MaxIdle <- 0
AloneIsmcts == INSTANCE StatisticsProofs WITH ismcts <- ismctsTwin, problem <- Elsewhere,
                                              Budgets <- {Enough}, MaxIdle <- 0

Init ==
  /\ solver \in {"bfs", "astar", "pareto", "mcts", "ismcts", "mc", "best first"}
  /\ IF solver \in {"bfs", "astar", "pareto", "best first"} THEN problem \in Problems
     ELSE IF solver \in {"mcts", "ismcts"} THEN problem \in Games
     ELSE problem = Plain
  /\ bfs = BfsNew /\ astar = AStarNew /\ pareto = ParetoNew /\ mcts = MctsNew /\ ismcts = IsmctsNew
  /\ IF solver = "mc" THEN McInit
     ELSE McInit /\ evaluation = NoEvaluation
  /\ ranked = RankedNew
  /\ bfsTwin = Alone!BfsNew
  /\ astarTwin = Alone!AStarNew
  /\ paretoTwin = Alone!ParetoNew
  /\ mctsTwin = AloneMcts!MctsNew
  /\ ismctsTwin = AloneIsmcts!IsmctsNew

BfsOver(session)    == session.at = "returned" /\ (session.solution.found \/ session.exhausted)
ParetoOver(session) == session.at = "returned" /\ session.exhausted
TreeOver(session)   == session.at = "failed" \/ session.decision.found
McOver == mc.at = "failed" \/ (mc.at = "returned" /\ McCompleted)

BfsTurn ==
  /\ solver = "bfs"
  /\ IF BfsOver(bfsTwin) THEN BfsNext /\ UNCHANGED bfsTwin
     ELSE Alone!BfsNext /\ UNCHANGED bfs
  /\ UNCHANGED <<evaluation, solver, ranked, astar, pareto, mcts, ismcts, mc,
                 astarTwin, paretoTwin, mctsTwin, ismctsTwin>>

AStarTurn ==
  /\ solver = "astar"
  /\ IF BfsOver(astarTwin) THEN AStarNext /\ UNCHANGED astarTwin
     ELSE Alone!AStarNext /\ UNCHANGED astar
  /\ UNCHANGED <<evaluation, solver, ranked, bfs, pareto, mcts, ismcts, mc,
                 bfsTwin, paretoTwin, mctsTwin, ismctsTwin>>

ParetoTurnOf ==
  /\ solver = "pareto"
  /\ IF ParetoOver(paretoTwin) THEN ParetoNext /\ UNCHANGED paretoTwin
     ELSE Alone!ParetoNext /\ UNCHANGED pareto
  /\ UNCHANGED <<evaluation, solver, ranked, bfs, astar, mcts, ismcts, mc,
                 bfsTwin, astarTwin, mctsTwin, ismctsTwin>>

MctsTurn ==
  /\ solver = "mcts"
  /\ IF TreeOver(mctsTwin) THEN MctsNext /\ UNCHANGED mctsTwin
     ELSE AloneMcts!MctsNext /\ UNCHANGED mcts
  /\ UNCHANGED <<evaluation, solver, ranked, bfs, astar, pareto, ismcts, mc,
                 bfsTwin, astarTwin, paretoTwin, ismctsTwin>>

IsmctsTurn ==
  /\ solver = "ismcts"
  /\ IF TreeOver(ismctsTwin) THEN IsmctsNext /\ UNCHANGED ismctsTwin
     ELSE UNCHANGED <<problem, ismcts>> /\ AloneIsmcts!IsmctsNext
  /\ UNCHANGED <<evaluation, solver, ranked, bfs, astar, pareto, mcts, mc,
                 bfsTwin, astarTwin, paretoTwin, mctsTwin>>

McTurn ==
  /\ solver = "mc"
  /\ McNext
  /\ UNCHANGED <<problem, solver, ranked, bfs, astar, pareto, mcts, ismcts, twins>>

BestFirstTurn ==
  /\ solver = "best first"
  /\ BestFirstNext
  /\ UNCHANGED <<evaluation, solver, bfs, astar, pareto, mcts, ismcts, mc, twins>>

Next == BfsTurn \/ AStarTurn \/ ParetoTurnOf \/ MctsTurn \/ IsmctsTurn \/ McTurn \/ BestFirstTurn

(* The callers in the repository advance a session until it is over. *)
Spec == Init /\ [][Next]_vars /\ WF_vars(Next)

-----------------------------------------------------------------------------
Same(left, right, fields) == \A f \in fields : left[f] = right[f]

(* "Splitting the same total work across chunks must not change the         *)
(* result": a session that was advanced in pieces and interrupted ends as   *)
(* its twin did, with the same solution and the same counts.                *)
ChunkingIsInvisible ==
  /\ solver = "bfs" /\ BfsOver(bfs) =>
       Same(bfs, bfsTwin, {"states", "visited", "expanded", "generated", "solution", "exhausted"})
  /\ solver = "astar" /\ BfsOver(astar) =>
       Same(astar, astarTwin, {"states", "best", "expanded", "generated", "solution", "exhausted"})
  /\ solver = "pareto" /\ ParetoOver(pareto) =>
       Same(pareto, paretoTwin, {"states", "visited", "expanded", "generated", "outcomes", "results"})
  /\ solver = "mcts" /\ TreeOver(mcts) =>
       Same(mcts, mctsTwin, {"nodes", "draws", "iterations", "decision"})

(* The decision of an information-set search, and all it was based on, is   *)
(* the same in every world that looks like the real one, whatever is hidden *)
(* in it and however the work was split: only whether the decision can be   *)
(* carried out depends on the truth.                                        *)
HiddenTruthStaysHidden ==
  solver = "ismcts" /\ TreeOver(ismcts) =>
    /\ Same(ismcts, ismctsTwin, {"nodes", "draws", "iterations"})
    /\ ismcts.decision.found /\ ismctsTwin.decision.found => ismcts.decision = ismctsTwin.decision

(* A caller that keeps advancing gets an answer, or an error. *)
SearchEnds ==
  <>(\/ BfsOver(bfs) \/ BfsOver(astar) \/ ParetoOver(pareto)
     \/ solver = "mcts" /\ TreeOver(mcts)
     \/ solver = "ismcts" /\ TreeOver(ismcts)
     \/ solver = "mc" /\ McOver
     \/ solver = "best first" /\ ranked.at = "returned")
=============================================================================

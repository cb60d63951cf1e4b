---------------------------- MODULE ChunkingProofs ----------------------------
(***************************************************************************)
(* Splitting the work of a resumable search across advances changes nothing *)
(* of what it answers, and what is hidden in the real world does not reach  *)
(* the decision of an information-set search; for every problem and game,   *)
(* and all budgets.                                                         *)
(*                                                                          *)
(* Each session makes its turns one after the other, whoever asks for them: *)
(* what a session has got to leads to what its twin has got to, by turns,   *)
(* and a session that is over stays where it is.                            *)
(***************************************************************************)
EXTENDS MCSearch, GraphSearchProofs, StatisticsProofs

(* What is known of the session is known of the twin, an instance of the    *)
(* same module: the budget and the idling of the twin are as assumed.       *)
LEMMA TwinAssumption ==
  {Enough} \subseteq Nat /\ 0 \in Nat
  BY DEF Enough

-----------------------------------------------------------------------------
(* Breadth-first search.                                                    *)
BfsTogether ==
  /\ BfsInv /\ Alone!BfsInv
  /\ BfsLeads(problem, BfsProgress(bfs), BfsProgress(bfsTwin))

LEMMA BfsTwinTurns ==
  /\ \A p, c : Alone!BfsOn(p, c) = BfsOn(p, c)
  /\ \A s : Alone!BfsProgress(s) = BfsProgress(s)
<1>1. /\ \A p, c : Alone!BfsOpens(p, c) = BfsOpens(p, c)
      /\ \A p, c : Alone!BfsScans(p, c) = BfsScans(p, c)
  BY DEF Alone!BfsOpens, BfsOpens, Alone!BfsScans, BfsScans
<1> QED
  BY <1>1 DEF Alone!BfsOn, BfsOn, Alone!BfsProgress, BfsProgress

LEMMA BfsTogetherInit ==
  ASSUME problem \in Problems, bfs = BfsNew, bfsTwin = Alone!BfsNew
  PROVE  BfsTogether
<1>1. BfsInv
  BY BfsInvInit DEF BfsInit
<1>2. Alone!BfsInit
  BY DEF Alone!BfsInit
<1>3. Alone!BfsInv
  BY <1>2, Alone!BfsInvInit, SearchAssumption, ProblemAssumption, CostAssumption,
     RankAssumption, ObjectiveAssumption, TwinAssumption
<1>4. BfsProgress(bfs) = BfsProgress(bfsTwin)
  BY DEF BfsProgress, BfsNew, Alone!BfsNew
<1>5. BfsLeads(problem, BfsProgress(bfs), BfsProgress(bfsTwin))
  BY <1>4, BfsLeadsOn
<1> QED  BY <1>1, <1>3, <1>5 DEF BfsTogether

(* The twin is over when the session moves: where it is, it stays.          *)
LEMMA BfsOverStays ==
  ASSUME NEW s, BfsOver(s)
  PROVE  BfsOn(problem, BfsProgress(s)) = BfsProgress(s)
  BY DEF BfsOver, BfsOn, BfsProgress

LEMMA BfsTogetherNext ==
  ASSUME BfsTogether, BfsTurn
  PROVE  BfsTogether'
<1> DEFINE c == BfsProgress(bfs)
           d == BfsProgress(bfsTwin)
<1>1. BfsInv /\ Alone!BfsInv /\ BfsLeads(problem, c, d)
  BY DEF BfsTogether
<1>2. CASE BfsOver(bfsTwin)
  <2>1. BfsNext /\ bfsTwin' = bfsTwin
    BY <1>2 DEF BfsTurn
  <2>2. BfsInv' /\ problem' = problem
    BY <1>1, <2>1, BfsInvNext, BfsTurns
  <2>3. c' = c \/ c' = BfsOn(problem, c)
    BY <1>1, <2>1, BfsTurns
  <2>4. Alone!BfsInv'
    <3>1. UNCHANGED Alone!bfsVars
      BY <2>1, <2>2 DEF Alone!bfsVars
    <3> QED  BY <1>1, <3>1, Alone!BfsInvNext, SearchAssumption, ProblemAssumption,
                CostAssumption, RankAssumption, ObjectiveAssumption, TwinAssumption
  <2>5. BfsOn(problem, d) = d /\ d' = d
    BY <1>2, <2>1, BfsOverStays
  <2> HIDE DEF c, d
  <2>6. BfsLeads(problem, c', d)
    BY <1>1, <2>3, <2>5, BfsLeadsOn
  <2> QED  BY <2>2, <2>4, <2>5, <2>6 DEF BfsTogether, c, d
<1>3. CASE ~BfsOver(bfsTwin)
  <2>1. Alone!BfsNext /\ bfs' = bfs
    BY <1>3 DEF BfsTurn
  <2>2. /\ Alone!BfsInv' /\ problem' = problem
        /\ \/ Alone!BfsProgress(bfsTwin') = Alone!BfsProgress(bfsTwin)
           \/ Alone!BfsProgress(bfsTwin') = Alone!BfsOn(problem, Alone!BfsProgress(bfsTwin))
    BY <1>1, <2>1, Alone!BfsInvNext, Alone!BfsTurns, SearchAssumption, ProblemAssumption,
       CostAssumption, RankAssumption, ObjectiveAssumption, TwinAssumption
  <2>3. d' = d \/ d' = BfsOn(problem, d)
    BY <2>2, BfsTwinTurns
  <2>4. BfsInv'
    BY <1>1, <2>1, <2>2, BfsInvNext DEF bfsVars
  <2>5. c' = c
    BY <2>1
  <2> HIDE DEF c, d
  <2>6. BfsLeads(problem, c, d')
    BY <1>1, <2>3, BfsLeadsOn
  <2> QED  BY <2>2, <2>4, <2>5, <2>6 DEF BfsTogether, c, d
<1> QED  BY <1>2, <1>3

LEMMA BfsTogetherKept ==
  ASSUME BfsTogether, UNCHANGED <<problem, bfs, bfsTwin>>
  PROVE  BfsTogether'
<1>1. BfsInv' /\ Alone!BfsInv'
  BY BfsInvNext, Alone!BfsInvNext, SearchAssumption, ProblemAssumption, CostAssumption,
     RankAssumption, ObjectiveAssumption, TwinAssumption
     DEF BfsTogether, bfsVars, Alone!bfsVars
<1>2. BfsLeads(problem, BfsProgress(bfs), BfsProgress(bfsTwin))'
  BY DEF BfsTogether
<1> QED  BY <1>1, <1>2 DEF BfsTogether

-----------------------------------------------------------------------------
(* A*.                                                                      *)
AStarTogether ==
  /\ AStarInv /\ Alone!AStarInv
  /\ AStarLeads(problem, AStarProgress(astar), AStarProgress(astarTwin))

LEMMA AStarTwinTurns ==
  /\ \A p, c : Alone!AStarOn(p, c) = AStarOn(p, c)
  /\ \A s : Alone!AStarProgress(s) = AStarProgress(s)
<1>1. /\ \A left, right : Alone!Before(left, right) <=> Before(left, right)
      /\ \A left, right : Alone!Plus(left, right) = Plus(left, right)
  BY DEF Alone!Before, Before, Alone!Plus, Plus
<1>2. \A heap : Alone!FirstOf(heap) = FirstOf(heap)
  BY <1>1 DEF Alone!FirstOf, FirstOf
<1>3. \A p, c, e : Alone!AStarPops(p, c, e) = AStarPops(p, c, e)
  BY DEF Alone!AStarPops, AStarPops
<1>4. ASSUME NEW p, NEW c PROVE Alone!AStarScans(p, c) = AStarScans(p, c)
  BY DEF Alone!AStarScans, AStarScans, Alone!Plus, Plus
<1> QED
  BY <1>2, <1>3, <1>4 DEF Alone!AStarOn, AStarOn, Alone!AStarProgress, AStarProgress

LEMMA AStarTogetherInit ==
  ASSUME problem \in Problems, astar = AStarNew, astarTwin = Alone!AStarNew
  PROVE  AStarTogether
<1>1. AStarInv
  BY AStarInvInit DEF AStarInit
<1>2. Alone!AStarInit
  BY DEF Alone!AStarInit
<1>3. Alone!AStarInv
  BY <1>2, Alone!AStarInvInit, SearchAssumption, ProblemAssumption, CostAssumption,
     RankAssumption, ObjectiveAssumption, TwinAssumption
<1>4. AStarProgress(astar) = AStarProgress(astarTwin)
  BY DEF AStarProgress, AStarNew, Alone!AStarNew, Entry, Alone!Entry, Plus,
     Alone!Plus
<1>5. AStarLeads(problem, AStarProgress(astar), AStarProgress(astarTwin))
  BY <1>4, AStarLeadsOn
<1> QED  BY <1>1, <1>3, <1>5 DEF AStarTogether

(* The twin is over when the session moves: where it is, it stays.          *)
LEMMA AStarOverStays ==
  ASSUME NEW s, BfsOver(s)
  PROVE  AStarOn(problem, AStarProgress(s)) = AStarProgress(s)
  BY DEF BfsOver, AStarOn, AStarProgress

LEMMA AStarTogetherNext ==
  ASSUME AStarTogether, AStarTurn
  PROVE  AStarTogether'
<1> DEFINE c == AStarProgress(astar)
           d == AStarProgress(astarTwin)
<1>1. AStarInv /\ Alone!AStarInv /\ AStarLeads(problem, c, d)
  BY DEF AStarTogether
<1>2. CASE BfsOver(astarTwin)
  <2>1. AStarNext /\ astarTwin' = astarTwin
    BY <1>2 DEF AStarTurn
  <2>2. AStarInv' /\ problem' = problem
    BY <1>1, <2>1, AStarInvNext, AStarTurns
  <2>3. c' = c \/ c' = AStarOn(problem, c)
    BY <1>1, <2>1, AStarTurns
  <2>4. Alone!AStarInv'
    <3>1. UNCHANGED Alone!astarVars
      BY <2>1, <2>2 DEF Alone!astarVars
    <3> QED  BY <1>1, <3>1, Alone!AStarInvNext, SearchAssumption, ProblemAssumption,
                CostAssumption, RankAssumption, ObjectiveAssumption, TwinAssumption
  <2>5. AStarOn(problem, d) = d /\ d' = d
    BY <1>2, <2>1, AStarOverStays
  <2> HIDE DEF c, d
  <2>6. AStarLeads(problem, c', d)
    BY <1>1, <2>3, <2>5, AStarLeadsOn
  <2> QED  BY <2>2, <2>4, <2>5, <2>6 DEF AStarTogether, c, d
<1>3. CASE ~BfsOver(astarTwin)
  <2>1. Alone!AStarNext /\ astar' = astar
    BY <1>3 DEF AStarTurn
  <2>2. /\ Alone!AStarInv' /\ problem' = problem
        /\ \/ Alone!AStarProgress(astarTwin') = Alone!AStarProgress(astarTwin)
           \/ Alone!AStarProgress(astarTwin') = Alone!AStarOn(problem, Alone!AStarProgress(astarTwin))
    BY <1>1, <2>1, Alone!AStarInvNext, Alone!AStarTurns, SearchAssumption,
       ProblemAssumption, CostAssumption, RankAssumption, ObjectiveAssumption, TwinAssumption
  <2>3. d' = d \/ d' = AStarOn(problem, d)
    BY <2>2, AStarTwinTurns
  <2>4. AStarInv'
    BY <1>1, <2>1, <2>2, AStarInvNext DEF astarVars
  <2>5. c' = c
    BY <2>1
  <2> HIDE DEF c, d
  <2>6. AStarLeads(problem, c, d')
    BY <1>1, <2>3, AStarLeadsOn
  <2> QED  BY <2>2, <2>4, <2>5, <2>6 DEF AStarTogether, c, d
<1> QED  BY <1>2, <1>3

LEMMA AStarTogetherKept ==
  ASSUME AStarTogether, UNCHANGED <<problem, astar, astarTwin>>
  PROVE  AStarTogether'
<1>1. AStarInv' /\ Alone!AStarInv'
  BY AStarInvNext, Alone!AStarInvNext, SearchAssumption, ProblemAssumption, CostAssumption,
     RankAssumption, ObjectiveAssumption, TwinAssumption DEF AStarTogether, astarVars,
     Alone!astarVars
<1>2. AStarLeads(problem, AStarProgress(astar), AStarProgress(astarTwin))'
  BY DEF AStarTogether
<1> QED  BY <1>1, <1>2 DEF AStarTogether

-----------------------------------------------------------------------------
(* The front of a Pareto search.                                            *)
ParetoTogether ==
  /\ ParetoInv /\ Alone!ParetoInv
  /\ ParetoLeads(problem, ParetoProgress(pareto), ParetoProgress(paretoTwin))

LEMMA ParetoTwinTurns ==
  /\ \A p, c : Alone!ParetoOn(p, c) = ParetoOn(p, c)
  /\ \A s : Alone!ParetoProgress(s) = ParetoProgress(s)
<1>1. \A left, right : Alone!Dominance(left, right) = Dominance(left, right)
  BY DEF Alone!Dominance, Dominance, Alone!Unordered, Unordered,
         Alone!Improves, Improves
<1>2. ASSUME NEW objectives, NEW entries
      PROVE  Alone!Insertion(objectives, entries) = Insertion(objectives, entries)
  <2>1. Alone!Settling(objectives, entries) = Settling(objectives, entries)
    BY <1>1 DEF Alone!Settling, Settling
  <2>2. Alone!Unordered(objectives) <=> Unordered(objectives)
    BY DEF Alone!Unordered, Unordered
  <2>3. \A S : Alone!Min(S) = Min(S)
    BY DEF Alone!Min, Min
  <2> QED  BY <1>1, <2>1, <2>2, <2>3 DEF Alone!Insertion, Insertion
<1>3. ASSUME NEW entries, NEW objectives
      PROVE  Alone!Remaining(entries, objectives) = Remaining(entries, objectives)
  BY DEF Alone!Remaining, Remaining, FoldLeft, MapThenFoldSet,
         Alone!FoldLeft, Alone!MapThenFoldSet, Alone!Max, Max,
         Alone!Dominance, Dominance,
         Alone!Unordered, Unordered, Alone!Improves, Improves
<1>4. \A entries, trace, objectives :
        Alone!FrontWith(entries, trace, objectives) = FrontWith(entries, trace, objectives)
  BY <1>2, <1>3 DEF Alone!FrontWith, FrontWith
<1>5. ASSUME NEW p, NEW c PROVE Alone!ParetoOpens(p, c) = ParetoOpens(p, c)
  BY <1>4 DEF Alone!ParetoOpens, ParetoOpens
<1>6. ASSUME NEW p, NEW c PROVE Alone!ParetoScans(p, c) = ParetoScans(p, c)
  BY DEF Alone!ParetoScans, ParetoScans
<1> QED
  BY <1>5, <1>6 DEF Alone!ParetoOn, ParetoOn, Alone!ParetoProgress, ParetoProgress

LEMMA ParetoTogetherInit ==
  ASSUME problem \in Problems, pareto = ParetoNew, paretoTwin = Alone!ParetoNew
  PROVE  ParetoTogether
<1>1. ParetoInv
  BY ParetoInvInit DEF ParetoInit
<1>2. Alone!ParetoInit
  BY DEF Alone!ParetoInit
<1>3. Alone!ParetoInv
  BY <1>2, Alone!ParetoInvInit, SearchAssumption, ProblemAssumption, CostAssumption,
     RankAssumption, ObjectiveAssumption, TwinAssumption
<1>4. ParetoProgress(pareto) = ParetoProgress(paretoTwin)
  BY DEF ParetoProgress, ParetoNew, Alone!ParetoNew
<1>5. ParetoLeads(problem, ParetoProgress(pareto), ParetoProgress(paretoTwin))
  BY <1>4, ParetoLeadsOn
<1> QED  BY <1>1, <1>3, <1>5 DEF ParetoTogether

(* The twin is over when the session moves: where it is, it stays.          *)
LEMMA ParetoOverStays ==
  ASSUME NEW s, ParetoOver(s)
  PROVE  ParetoOn(problem, ParetoProgress(s)) = ParetoProgress(s)
  BY DEF ParetoOver, ParetoOn, ParetoProgress

LEMMA ParetoTogetherNext ==
  ASSUME ParetoTogether, ParetoTurnOf
  PROVE  ParetoTogether'
<1> DEFINE c == ParetoProgress(pareto)
           d == ParetoProgress(paretoTwin)
<1>1. ParetoInv /\ Alone!ParetoInv /\ ParetoLeads(problem, c, d)
  BY DEF ParetoTogether
<1>2. CASE ParetoOver(paretoTwin)
  <2>1. ParetoNext /\ paretoTwin' = paretoTwin
    BY <1>2 DEF ParetoTurnOf
  <2>2. ParetoInv' /\ problem' = problem
    BY <1>1, <2>1, ParetoInvNext, ParetoTurns
  <2>3. c' = c \/ c' = ParetoOn(problem, c)
    BY <1>1, <2>1, ParetoTurns
  <2>4. Alone!ParetoInv'
    <3>1. UNCHANGED Alone!paretoVars
      BY <2>1, <2>2 DEF Alone!paretoVars
    <3> QED  BY <1>1, <3>1, Alone!ParetoInvNext, SearchAssumption, ProblemAssumption,
                CostAssumption, RankAssumption, ObjectiveAssumption, TwinAssumption
  <2>5. ParetoOn(problem, d) = d /\ d' = d
    BY <1>2, <2>1, ParetoOverStays
  <2> HIDE DEF c, d
  <2>6. ParetoLeads(problem, c', d)
    BY <1>1, <2>3, <2>5, ParetoLeadsOn
  <2> QED  BY <2>2, <2>4, <2>5, <2>6 DEF ParetoTogether, c, d
<1>3. CASE ~ParetoOver(paretoTwin)
  <2>1. Alone!ParetoNext /\ pareto' = pareto
    BY <1>3 DEF ParetoTurnOf
  <2>2. /\ Alone!ParetoInv' /\ problem' = problem
        /\ \/ Alone!ParetoProgress(paretoTwin') = Alone!ParetoProgress(paretoTwin)
           \/ Alone!ParetoProgress(paretoTwin') = Alone!ParetoOn(problem, Alone!ParetoProgress(paretoTwin))
    BY <1>1, <2>1, Alone!ParetoInvNext, Alone!ParetoTurns, SearchAssumption,
       ProblemAssumption, CostAssumption, RankAssumption, ObjectiveAssumption, TwinAssumption
  <2>3. d' = d \/ d' = ParetoOn(problem, d)
    BY <2>2, ParetoTwinTurns
  <2>4. ParetoInv'
    BY <1>1, <2>1, <2>2, ParetoInvNext DEF paretoVars
  <2>5. c' = c
    BY <2>1
  <2> HIDE DEF c, d
  <2>6. ParetoLeads(problem, c, d')
    BY <1>1, <2>3, ParetoLeadsOn
  <2> QED  BY <2>2, <2>4, <2>5, <2>6 DEF ParetoTogether, c, d
<1> QED  BY <1>2, <1>3

LEMMA ParetoTogetherKept ==
  ASSUME ParetoTogether, UNCHANGED <<problem, pareto, paretoTwin>>
  PROVE  ParetoTogether'
<1>1. ParetoInv' /\ Alone!ParetoInv'
  BY ParetoInvNext, Alone!ParetoInvNext, SearchAssumption, ProblemAssumption,
     CostAssumption, RankAssumption, ObjectiveAssumption, TwinAssumption DEF ParetoTogether,
     paretoVars, Alone!paretoVars
<1>2. ParetoLeads(problem, ParetoProgress(pareto), ParetoProgress(paretoTwin))'
  BY DEF ParetoTogether
<1> QED  BY <1>1, <1>2 DEF ParetoTogether

-----------------------------------------------------------------------------
(* Monte Carlo tree search.                                                 *)
MctsTogether ==
  /\ MctsInv /\ AloneMcts!MctsInv
  /\ MctsLeads(MctsProgress(mcts), MctsProgress(mctsTwin))

LEMMA MctsTwinTurns ==
  /\ \A c : AloneMcts!MctsOn(c) = MctsOn(c)
  /\ \A s : AloneMcts!MctsProgress(s) = MctsProgress(s)
<1>1. /\ \A w, x : AloneMcts!Outcome(w, x) = Outcome(w, x)
      /\ \A values : AloneMcts!ValidValues(values) <=> ValidValues(values)
      /\ \A actor : AloneMcts!ValidActor(actor) <=> ValidActor(actor)
      /\ \A w : AloneMcts!NatureMoves(w) <=> NatureMoves(w)
      /\ \A draws, total : AloneMcts!Ticket(draws, total) = Ticket(draws, total)
      /\ AloneMcts!NoValues = NoValues /\ AloneMcts!RootPlayer = RootPlayer
  BY DEF AloneMcts!Outcome, Outcome, AloneMcts!ValidValues, ValidValues, AloneMcts!ValidActor,
         ValidActor, AloneMcts!NatureMoves, NatureMoves, AloneMcts!Ticket, Ticket,
         AloneMcts!NoValues, NoValues, AloneMcts!RootPlayer, RootPlayer
<1>2. /\ \A s : AloneMcts!MctsFail(s) = MctsFail(s)
      /\ \A s : AloneMcts!MctsRollout(s) = MctsRollout(s)
      /\ \A s : AloneMcts!Drawn(s) = Drawn(s)
      /\ \A s, parent, x : AloneMcts!EdgesFor(s, parent, x) = EdgesFor(s, parent, x)
      /\ \A s, parent, x : AloneMcts!ChildBy(s, parent, x) = ChildBy(s, parent, x)
  BY DEF AloneMcts!MctsFail, MctsFail, AloneMcts!MctsRollout, MctsRollout, AloneMcts!Drawn, Drawn,
         AloneMcts!EdgesFor, EdgesFor, AloneMcts!ChildBy, ChildBy
<1>3. /\ \A places, w, n : AloneMcts!Located(places, w, n) = Located(places, w, n)
      /\ \A visits, total : AloneMcts!MostVisited(visits, total) = MostVisited(visits, total)
      /\ \A outcomes, n : AloneMcts!WeightUpTo(outcomes, n) = WeightUpTo(outcomes, n)
  BY DEF AloneMcts!Located, Located, AloneMcts!MostVisited, MostVisited, AloneMcts!WeightUpTo,
     WeightUpTo
<1>4. ASSUME NEW score PROVE AloneMcts!LastBest(score) = LastBest(score)
  BY DEF AloneMcts!LastBest, LastBest
<1>5. ASSUME NEW seq, NEW places PROVE AloneMcts!Keeping(seq, places) = Keeping(seq, places)
  BY DEF AloneMcts!Keeping, Keeping
<1>6. ASSUME NEW child, NEW player, NEW visits
      PROVE  AloneMcts!UctScore(child, player, visits) = UctScore(child, player, visits)
  BY DEF AloneMcts!UctScore, UctScore, AloneMcts!Infinity, Infinity, AloneMcts!AtLeastOne,
     AtLeastOne
<1>7. ASSUME NEW nodes, NEW path, NEW values
      PROVE  AloneMcts!Credited(nodes, path, values) = Credited(nodes, path, values)
  <2>1. /\ \A totals, more : AloneMcts!AddValues(totals, more) = AddValues(totals, more)
        /\ \A n, more : AloneMcts!Plural(n, more) = Plural(n, more)
    BY DEF AloneMcts!AddValues, AddValues, AloneMcts!Plural, Plural
  <2>2. ASSUME NEW steps, NEW step PROVE AloneMcts!Occurrences(steps, step) = Occurrences(steps, step)
    BY DEF AloneMcts!Occurrences, Occurrences, AloneMcts!Cardinality, Cardinality
  <2> QED  BY <2>1, <2>2 DEF AloneMcts!Credited, Credited
<1>8. /\ \A outcomes : AloneMcts!TotalWeight(outcomes) = TotalWeight(outcomes)
      /\ \A outcomes, t : AloneMcts!Chosen(outcomes, t) = Chosen(outcomes, t)
  BY <1>3 DEF AloneMcts!TotalWeight, TotalWeight, AloneMcts!Chosen, Chosen
<1>9. /\ \A w : AloneMcts!NatureHasSupport(w) <=> NatureHasSupport(w)
      /\ \A w, draws : AloneMcts!NatureSample(w, draws) = NatureSample(w, draws)
      /\ \A actions, draws : AloneMcts!RandomAction(actions, draws) = RandomAction(actions, draws)
  BY <1>1, <1>8 DEF AloneMcts!NatureHasSupport, NatureHasSupport, AloneMcts!HasSupport, HasSupport,
       AloneMcts!NatureSample, NatureSample, AloneMcts!ChooseByTicket, ChooseByTicket,
       AloneMcts!RandomAction, RandomAction
<1>10. \A w, proposals : AloneMcts!ApplicableActions(w, proposals) = ApplicableActions(w, proposals)
  BY <1>1, <1>5 DEF AloneMcts!ApplicableActions, ApplicableActions
<1>11. /\ \A w : AloneMcts!MctsActions(w) = MctsActions(w)
       /\ \A w : AloneMcts!MctsNode(w) = MctsNode(w)
       /\ \A s, path, values : AloneMcts!BackUp(s, path, values) = BackUp(s, path, values)
  BY <1>1, <1>2, <1>7, <1>10 DEF AloneMcts!MctsActions, MctsActions, AloneMcts!MctsNode, MctsNode,
       AloneMcts!BackUp, BackUp
<1>12. /\ \A w, depth : AloneMcts!MctsStuck(w, depth) <=> MctsStuck(w, depth)
       /\ \A s : AloneMcts!MctsFollow(s) = MctsFollow(s)
       /\ \A s, w : AloneMcts!NotYetTried(s, w) = NotYetTried(s, w)
  <2>1. \A w, depth : AloneMcts!MctsStuck(w, depth) <=> MctsStuck(w, depth)
    BY <1>1, <1>11 DEF AloneMcts!MctsStuck, MctsStuck
  <2>2. \A s : AloneMcts!MctsFollow(s) = MctsFollow(s)
    BY <1>11 DEF AloneMcts!MctsFollow, MctsFollow, AloneMcts!Contains, Contains
  <2>3. ASSUME NEW s, NEW w PROVE AloneMcts!NotYetTried(s, w) = NotYetTried(s, w)
    BY <1>2, <1>5, <1>11 DEF AloneMcts!NotYetTried, NotYetTried
  <2> QED  BY <2>1, <2>2, <2>3
<1>13. ASSUME NEW s, NEW parent, NEW x
       PROVE  AloneMcts!DescendOrExpand(s, parent, x) = DescendOrExpand(s, parent, x)
  BY <1>1, <1>2, <1>3, <1>11 DEF AloneMcts!DescendOrExpand, DescendOrExpand
<1>14. ASSUME NEW s PROVE AloneMcts!MctsEnds(s) = MctsEnds(s)
  BY <1>1, <1>2, <1>3 DEF AloneMcts!MctsEnds, MctsEnds
<1>15. ASSUME NEW s, NEW w PROVE AloneMcts!MctsByNature(s, w) = MctsByNature(s, w)
  BY <1>1, <1>2, <1>9, <1>12, <1>13 DEF AloneMcts!MctsByNature, MctsByNature
<1>16. ASSUME NEW s, NEW here PROVE AloneMcts!MctsByScore(s, here) = MctsByScore(s, here)
  BY <1>1, <1>2, <1>4, <1>6, <1>12 DEF AloneMcts!MctsByScore, MctsByScore
<1>17. ASSUME NEW s PROVE AloneMcts!MctsSimulates(s) = MctsSimulates(s)
  BY <1>1, <1>2, <1>9, <1>11, <1>12 DEF AloneMcts!MctsSimulates, MctsSimulates
<1>18. ASSUME NEW s, NEW here PROVE AloneMcts!MctsDescends(s, here) = MctsDescends(s, here)
  BY <1>1, <1>2, <1>9, <1>11, <1>12, <1>13, <1>15, <1>16 DEF AloneMcts!MctsDescends, MctsDescends
<1>19. \A s : AloneMcts!MctsAfter(s) = MctsAfter(s)
  BY <1>14, <1>17, <1>18 DEF AloneMcts!MctsAfter, MctsAfter
<1> QED
  BY <1>19 DEF AloneMcts!MctsOn, MctsOn, AloneMcts!MctsProgress, MctsProgress

LEMMA MctsTogetherInit ==
  ASSUME problem \in Games, mcts = MctsNew, mctsTwin = AloneMcts!MctsNew
  PROVE  MctsTogether
<1>1. MctsInv
  BY MctsInvIsInductive DEF MctsInit
<1>2. AloneMcts!MctsInit
  BY DEF AloneMcts!MctsInit
<1>3. AloneMcts!MctsInv
  BY <1>2, AloneMcts!MctsInvIsInductive, SearchAssumption, ProblemAssumption,
       MaxWeightAssumption, GameAssumption, InformationAssumption, EvaluationAssumption,
       TwinAssumption
<1>4. MctsProgress(mcts) = MctsProgress(mctsTwin)
  <2>1. AloneMcts!MctsAccepts <=> MctsAccepts
    <3>1. ASSUME NEW seq, NEW places PROVE AloneMcts!Keeping(seq, places) = Keeping(seq, places)
      BY DEF AloneMcts!Keeping, Keeping
    <3>2. /\ \A w, x : AloneMcts!Outcome(w, x) = Outcome(w, x)
          /\ AloneMcts!ValidConfig <=> ValidConfig
          /\ \A w : AloneMcts!NatureMoves(w) <=> NatureMoves(w)
          /\ \A actor : AloneMcts!ValidActor(actor) <=> ValidActor(actor)
      BY DEF AloneMcts!Outcome, Outcome, AloneMcts!ValidConfig, ValidConfig, AloneMcts!NatureMoves,
             NatureMoves, AloneMcts!ValidActor, ValidActor
    <3>3. \A w, proposals : AloneMcts!ApplicableActions(w, proposals) = ApplicableActions(w, proposals)
      BY <3>1, <3>2 DEF AloneMcts!ApplicableActions, ApplicableActions
    <3>4. AloneMcts!MctsActions(problem.initial) = MctsActions(problem.initial)
      BY <3>3 DEF AloneMcts!MctsActions, MctsActions
    <3> QED  BY <3>2, <3>4 DEF AloneMcts!MctsAccepts, MctsAccepts
  <2>2. AloneMcts!MctsNode(problem.initial) = MctsNode(problem.initial)
    BY DEF AloneMcts!MctsNode, MctsNode, AloneMcts!NoValues, NoValues
  <2>3. /\ MctsWhole(mcts) /\ MctsWhole(mctsTwin)
        /\ mcts.nodes = mctsTwin.nodes /\ mcts.transpositions = mctsTwin.transpositions
        /\ mcts.draws = mctsTwin.draws /\ mcts.iterations = mctsTwin.iterations
        /\ mcts.decision = mctsTwin.decision /\ mcts.at = mctsTwin.at /\ mcts.node = mctsTwin.node
        /\ mcts.path = mctsTwin.path /\ mcts.world = mctsTwin.world /\ mcts.depth = mctsTwin.depth
    BY <2>1, <2>2 DEF MctsNew, AloneMcts!MctsNew, MctsWhole
  <2>4. /\ DOMAIN MctsProgress(mcts) = DOMAIN MctsProgress(mctsTwin)
        /\ \A f \in DOMAIN MctsProgress(mcts) : MctsProgress(mcts)[f] = MctsProgress(mctsTwin)[f]
    BY ZenonT(30), <2>3 DEF MctsProgress, MctsWhole
  <2> QED  BY <2>4 DEF MctsProgress
<1>5. MctsLeads(MctsProgress(mcts), MctsProgress(mctsTwin))
  BY <1>4, MctsLeadsOn
<1> QED  BY <1>1, <1>3, <1>5 DEF MctsTogether

LEMMA MctsLeadsKept ==
  ASSUME problem' = problem, MctsLeads(MctsProgress(mcts'), MctsProgress(mctsTwin'))
  PROVE  MctsLeads(MctsProgress(mcts), MctsProgress(mctsTwin))'
  BY MctsOnKept DEF MctsLeads, MctsProgress

LEMMA MctsTogetherNext ==
  ASSUME MctsTogether, MctsTurn
  PROVE  MctsTogether'
<1> DEFINE c == MctsProgress(mcts)
           d == MctsProgress(mctsTwin)
<1>1. MctsInv /\ AloneMcts!MctsInv /\ MctsLeads(c, d)
  BY DEF MctsTogether
<1>2. CASE TreeOver(mctsTwin)
  <2>1. MctsNext /\ mctsTwin' = mctsTwin
    BY <1>2 DEF MctsTurn
  <2>2. MctsInv' /\ problem' = problem
    BY <1>1, <2>1, MctsInvIsInductive, MctsTurns
  <2>3. c' = c \/ c' = MctsOn(c)
    BY <1>1, <2>1, MctsTurns
  <2>4. AloneMcts!MctsInv'
    <3>1. UNCHANGED AloneMcts!mctsVars
      BY <2>1, <2>2 DEF AloneMcts!mctsVars
    <3> QED  BY <1>1, <3>1, AloneMcts!MctsInvIsInductive, SearchAssumption, ProblemAssumption,
       MaxWeightAssumption, GameAssumption, InformationAssumption, EvaluationAssumption,
       TwinAssumption
  <2>5. MctsOn(d) = d /\ d' = d
    <3>1. AloneMcts!MctsWhole(mctsTwin)
      BY <1>1, AloneMcts!MctsInvWhole, SearchAssumption, ProblemAssumption,
       MaxWeightAssumption, GameAssumption, InformationAssumption, EvaluationAssumption,
       TwinAssumption
    <3>2. MctsWhole(mctsTwin)
      BY <3>1 DEF AloneMcts!MctsWhole, MctsWhole
    <3> QED  BY <1>2, <2>1, <3>2, MctsOverStays DEF TreeOver
  <2>6. MctsLeads(c', d')
    <3> HIDE DEF c, d
    <3> QED  BY <1>1, <2>3, <2>5, MctsLeadsOn
  <2> QED  BY <2>2, <2>4, <2>6, MctsLeadsKept DEF MctsTogether
<1>3. CASE ~TreeOver(mctsTwin)
  <2>1. AloneMcts!MctsNext /\ mcts' = mcts
    BY <1>3 DEF MctsTurn
  <2>2. /\ AloneMcts!MctsInv' /\ problem' = problem
        /\ \/ AloneMcts!MctsProgress(mctsTwin') = AloneMcts!MctsProgress(mctsTwin)
           \/ AloneMcts!MctsProgress(mctsTwin') = AloneMcts!MctsOn(AloneMcts!MctsProgress(mctsTwin))
    BY <1>1, <2>1, AloneMcts!MctsInvIsInductive, AloneMcts!MctsTurns, SearchAssumption,
       ProblemAssumption,
       MaxWeightAssumption, GameAssumption, InformationAssumption, EvaluationAssumption,
       TwinAssumption
  <2>3. d' = d \/ d' = MctsOn(d)
    BY <2>2, MctsTwinTurns
  <2>4. MctsInv'
    BY <1>1, <2>1, <2>2, MctsInvIsInductive DEF mctsVars
  <2>5. MctsLeads(c', d')
    <3>1. c' = c
      BY <2>1
    <3> HIDE DEF c, d
    <3> QED  BY <1>1, <2>3, <3>1, MctsLeadsOn
  <2> QED  BY <2>2, <2>4, <2>5, MctsLeadsKept DEF MctsTogether
<1> QED  BY <1>2, <1>3

LEMMA MctsTogetherKept ==
  ASSUME MctsTogether, UNCHANGED <<problem, mcts, mctsTwin>>
  PROVE  MctsTogether'
<1>1. MctsInv' /\ AloneMcts!MctsInv'
  BY MctsInvIsInductive, AloneMcts!MctsInvIsInductive, SearchAssumption, ProblemAssumption,
       MaxWeightAssumption, GameAssumption, InformationAssumption, EvaluationAssumption,
       TwinAssumption
     DEF MctsTogether, mctsVars, AloneMcts!mctsVars
<1>2. MctsLeads(MctsProgress(mcts'), MctsProgress(mctsTwin'))
  BY DEF MctsTogether
<1> QED  BY <1>1, <1>2, MctsLeadsKept DEF MctsTogether

-----------------------------------------------------------------------------
(* Information-set search: its twin looks for what is seen of elsewhere.    *)
IsmctsTogether ==
  /\ problem \in Games
  /\ IsmctsFit /\ AloneIsmcts!IsmctsFit
  /\ IsmctsLeads(IsmctsProgress(problem.iterations, ismcts),
                 IsmctsProgress(problem.iterations, ismctsTwin))

LEMMA ElsewhereLooksAlike ==
  ASSUME problem \in Games
  PROVE  /\ Elsewhere.goals = problem.goals /\ Elsewhere.outcome = problem.outcome
         /\ Elsewhere.players = problem.players /\ Elsewhere.iterations = problem.iterations
         /\ Elsewhere.depth = problem.depth /\ Elsewhere.values = problem.values
         /\ Elsewhere.chance = problem.chance /\ Elsewhere.tape = problem.tape
         /\ Elsewhere.information = problem.information /\ Elsewhere.proposals = problem.proposals
         /\ Elsewhere.beliefs = problem.beliefs
         /\ Elsewhere.initial = problem.elsewhere
         /\ problem.information[problem.elsewhere] = problem.information[problem.initial]
         /\ problem.elsewhere \in problem.goals <=> problem.initial \in problem.goals
  BY LookAlikeAssumption DEF Elsewhere

(* What the two look at is the same, but for the world they start from.     *)
LEMMA IsmctsTwinTurns ==
  ASSUME problem \in Games
  PROVE  /\ \A c : AloneIsmcts!IsmctsOn(c) = IsmctsOn(c)
         /\ \A n, s : AloneIsmcts!IsmctsProgress(n, s) = IsmctsProgress(n, s)
<1> USE ElsewhereLooksAlike
<1>1. /\ \A w, x : AloneIsmcts!Outcome(w, x) = Outcome(w, x)
      /\ \A values : AloneIsmcts!ValidValues(values) <=> ValidValues(values)
      /\ \A actor : AloneIsmcts!ValidActor(actor) <=> ValidActor(actor)
      /\ \A w : AloneIsmcts!NatureMoves(w) <=> NatureMoves(w)
      /\ \A draws, total : AloneIsmcts!Ticket(draws, total) = Ticket(draws, total)
      /\ \A w : AloneIsmcts!Information(w) = Information(w)
      /\ \A s : AloneIsmcts!IsmctsEnded(s) <=> IsmctsEnded(s)
      /\ AloneIsmcts!NoValues = NoValues
  BY DEF AloneIsmcts!Outcome, Outcome, AloneIsmcts!ValidValues, ValidValues, AloneIsmcts!ValidActor,
         ValidActor, AloneIsmcts!NatureMoves, NatureMoves, AloneIsmcts!Ticket, Ticket,
         AloneIsmcts!NoValues, NoValues, AloneIsmcts!Information, Information,
         AloneIsmcts!IsmctsEnded, IsmctsEnded
<1>2. /\ \A s : AloneIsmcts!IsmctsFail(s) = IsmctsFail(s)
      /\ \A s : AloneIsmcts!OnTheWay(s) <=> OnTheWay(s)
      /\ \A s, seen : AloneIsmcts!NodesFor(s, seen) = NodesFor(s, seen)
      /\ \A seen : AloneIsmcts!IsNode(seen) = IsNode(seen)
      /\ \A edges, x : AloneIsmcts!EdgeFor(edges, x) = EdgeFor(edges, x)
  BY DEF AloneIsmcts!IsmctsFail, IsmctsFail, AloneIsmcts!OnTheWay, OnTheWay, AloneIsmcts!NodesFor,
         NodesFor, AloneIsmcts!IsNode, IsNode, AloneIsmcts!EdgeFor, EdgeFor
<1>3. /\ \A seq : AloneIsmcts!ToSet(seq) = ToSet(seq)
      /\ \A seq, e : AloneIsmcts!Contains(seq, e) <=> Contains(seq, e)
  BY DEF AloneIsmcts!ToSet, ToSet, AloneIsmcts!Contains, Contains
<1>4. ASSUME NEW score PROVE AloneIsmcts!LastBest(score) = LastBest(score)
  BY DEF AloneIsmcts!LastBest, LastBest
<1>5. ASSUME NEW seq, NEW places PROVE AloneIsmcts!Keeping(seq, places) = Keeping(seq, places)
  BY DEF AloneIsmcts!Keeping, Keeping
<1>6. ASSUME NEW edge, NEW player
      PROVE  AloneIsmcts!IsmctsScore(edge, player) = IsmctsScore(edge, player)
  BY DEF AloneIsmcts!IsmctsScore, IsmctsScore, AloneIsmcts!Infinity, Infinity,
         AloneIsmcts!AtLeastOne, AtLeastOne
<1>7. \A edges, taken, values :
        AloneIsmcts!RewardedEdges(edges, taken, values) = RewardedEdges(edges, taken, values)
  <2>1. \A totals, more : AloneIsmcts!AddValues(totals, more) = AddValues(totals, more)
    BY DEF AloneIsmcts!AddValues, AddValues
  <2> QED  BY <2>1 DEF AloneIsmcts!RewardedEdges, RewardedEdges
<1>8. ASSUME NEW nodes, NEW path, NEW values
      PROVE  AloneIsmcts!Rewarded(nodes, path, values) = Rewarded(nodes, path, values)
  <2>1. ASSUME NEW S PROVE AloneIsmcts!Cardinality(S) = Cardinality(S)
    BY DEF AloneIsmcts!Cardinality, Cardinality
  <2> QED  BY <1>3, <1>7, <2>1 DEF AloneIsmcts!Rewarded, Rewarded
<1>9. \A outcomes, n : AloneIsmcts!WeightUpTo(outcomes, n) = WeightUpTo(outcomes, n)
  BY DEF AloneIsmcts!WeightUpTo, WeightUpTo
<1>10. /\ \A outcomes : AloneIsmcts!TotalWeight(outcomes) = TotalWeight(outcomes)
       /\ \A outcomes, t : AloneIsmcts!Chosen(outcomes, t) = Chosen(outcomes, t)
  BY <1>9 DEF AloneIsmcts!TotalWeight, TotalWeight, AloneIsmcts!Chosen, Chosen
<1>11. /\ \A w : AloneIsmcts!NatureHasSupport(w) <=> NatureHasSupport(w)
       /\ \A w, draws : AloneIsmcts!NatureSample(w, draws) = NatureSample(w, draws)
       /\ \A actions, draws : AloneIsmcts!RandomAction(actions, draws) = RandomAction(actions, draws)
  BY <1>1, <1>10 DEF AloneIsmcts!NatureHasSupport, NatureHasSupport, AloneIsmcts!HasSupport,
     HasSupport,
       AloneIsmcts!NatureSample, NatureSample, AloneIsmcts!ChooseByTicket, ChooseByTicket,
       AloneIsmcts!RandomAction, RandomAction
<1>12. \A w, proposals : AloneIsmcts!ApplicableActions(w, proposals) = ApplicableActions(w, proposals)
  BY <1>1, <1>5 DEF AloneIsmcts!ApplicableActions, ApplicableActions
<1>13. \A w : AloneIsmcts!Available(w) = Available(w)
  BY <1>1, <1>12 DEF AloneIsmcts!Available, Available
<1>14. \A s : AloneIsmcts!Credit(s) = Credit(s)
  BY <1>1, <1>2, <1>8 DEF AloneIsmcts!Credit, Credit
<1>15. \A s, seen : AloneIsmcts!NodeFor(s, seen) = NodeFor(s, seen)
  BY <1>2 DEF AloneIsmcts!NodeFor, NodeFor
<1>16. ASSUME NEW edges, NEW actions
       PROVE  AloneIsmcts!RegisterAvailable(edges, actions) = RegisterAvailable(edges, actions)
  <2>1. \A x : AloneIsmcts!IsEdge(x) = IsEdge(x)
    BY <1>1 DEF AloneIsmcts!IsEdge, IsEdge
  <2>2. AloneIsmcts!NewEdges(edges, actions) = NewEdges(edges, actions)
    BY <1>5, <2>1 DEF AloneIsmcts!NewEdges, NewEdges
  <2> QED  BY <1>3, <2>2 DEF AloneIsmcts!RegisterAvailable, RegisterAvailable
<1>17. ASSUME NEW s, NEW node, NEW actions
       PROVE  AloneIsmcts!TakeEdge(s, node, actions) = TakeEdge(s, node, actions)
  BY <1>1, <1>2, <1>4, <1>5, <1>6, <1>11 DEF AloneIsmcts!TakeEdge, TakeEdge
<1>18. ASSUME NEW s, NEW actions PROVE AloneIsmcts!IsmctsVisits(s, actions) = IsmctsVisits(s, actions)
  <2> DEFINE seen    == Information(s.world)
             here    == NodeFor(s, seen)
             node    == CHOOSE i \in NodesFor(here, seen) : TRUE
             edges   == RegisterAvailable(here.nodes[node].edges, actions)
             offered == [here EXCEPT !.nodes[node].edges = edges]
             seenElsewhere    == AloneIsmcts!Information(s.world)
             hereElsewhere    == AloneIsmcts!NodeFor(s, seenElsewhere)
             nodeElsewhere    == CHOOSE i \in AloneIsmcts!NodesFor(hereElsewhere, seenElsewhere) : TRUE
             edgesElsewhere   == AloneIsmcts!RegisterAvailable(hereElsewhere.nodes[nodeElsewhere].edges, actions)
             offeredElsewhere == [hereElsewhere EXCEPT !.nodes[nodeElsewhere].edges = edgesElsewhere]
  <2>1. seenElsewhere = seen
    BY <1>1
  <2>2. hereElsewhere = here
    BY <2>1, <1>15
  <2>3. nodeElsewhere = node
    BY <2>1, <2>2, <1>2
  <2>4. edgesElsewhere = edges
    <3> HIDE DEF here, node, hereElsewhere, nodeElsewhere
    <3> QED  BY <2>2, <2>3, <1>16
  <2>5. offeredElsewhere = offered
    <3> HIDE DEF here, node, edges, hereElsewhere, nodeElsewhere, edgesElsewhere
    <3> QED  BY <2>2, <2>3, <2>4
  <2>6. IsmctsVisits(s, actions) =
          IF ~ValidActor(seen.actor) THEN IsmctsFail(s)
          ELSE IF actions = <<>> \/ \E step \in ToSet(s.path) : step[1] = node THEN Credit(here)
          ELSE TakeEdge(offered, node, actions)
    BY DEF IsmctsVisits
  <2>7. AloneIsmcts!IsmctsVisits(s, actions) =
          IF ~AloneIsmcts!ValidActor(seenElsewhere.actor) THEN AloneIsmcts!IsmctsFail(s)
          ELSE IF actions = <<>> \/ \E step \in AloneIsmcts!ToSet(s.path) : step[1] = nodeElsewhere
               THEN AloneIsmcts!Credit(hereElsewhere)
          ELSE AloneIsmcts!TakeEdge(offeredElsewhere, nodeElsewhere, actions)
    BY DEF AloneIsmcts!IsmctsVisits
  <2> HIDE DEF seen, here, node, edges, offered, seenElsewhere, hereElsewhere, nodeElsewhere,
               edgesElsewhere, offeredElsewhere
  <2> QED  BY <2>1, <2>2, <2>3, <2>5, <2>6, <2>7, <1>1, <1>2, <1>3, <1>14, <1>17
<1>19. ASSUME NEW s, NEW actions PROVE AloneIsmcts!IsmctsPlays(s, actions) = IsmctsPlays(s, actions)
  BY <1>1, <1>2, <1>11, <1>14 DEF AloneIsmcts!IsmctsPlays, IsmctsPlays
<1>20. ASSUME NEW s PROVE AloneIsmcts!IsmctsStarts(s) = IsmctsStarts(s)
  BY <1>1, <1>2 DEF AloneIsmcts!IsmctsStarts, IsmctsStarts
<1>21. ASSUME NEW s PROVE AloneIsmcts!IsmctsByNature(s) = IsmctsByNature(s)
  BY <1>1, <1>2, <1>11 DEF AloneIsmcts!IsmctsByNature, IsmctsByNature
<1>22. \A s : AloneIsmcts!IsmctsAfter(s) = IsmctsAfter(s)
  BY <1>1, <1>2, <1>13, <1>14, <1>18, <1>19, <1>20, <1>21 DEF AloneIsmcts!IsmctsAfter, IsmctsAfter
<1>23. \A n, s : AloneIsmcts!IsmctsProgress(n, s) = IsmctsProgress(n, s)
  BY <1>2 DEF AloneIsmcts!IsmctsProgress, IsmctsProgress
<1> QED
  BY <1>22, <1>23 DEF AloneIsmcts!IsmctsOn, IsmctsOn

LEMMA IsmctsTogetherInit ==
  ASSUME problem \in Games, ismcts = IsmctsNew, ismctsTwin = AloneIsmcts!IsmctsNew
  PROVE  IsmctsTogether
<1> DEFINE n == problem.iterations
<1>1. IsmctsFit
  BY IsmctsFitInit
<1>2. AloneIsmcts!IsmctsFit
  BY AloneIsmcts!IsmctsFitInit, SearchAssumption, ProblemAssumption,
       MaxWeightAssumption, GameAssumption, InformationAssumption, EvaluationAssumption,
       TwinAssumption
<1>3. IsmctsProgress(n, ismcts) = IsmctsProgress(n, ismctsTwin)
  <2>1. AloneIsmcts!IsmctsAccepts <=> IsmctsAccepts
    BY ElsewhereLooksAlike
       DEF AloneIsmcts!IsmctsAccepts, IsmctsAccepts, AloneIsmcts!ValidConfig, ValidConfig,
           AloneIsmcts!ValidActor, ValidActor, AloneIsmcts!Information, Information
  <2>2. /\ AloneIsmcts!Information(Elsewhere.initial) = Information(problem.initial)
        /\ \A seen : AloneIsmcts!IsNode(seen) = IsNode(seen)
    BY ElsewhereLooksAlike DEF AloneIsmcts!Information, Information, AloneIsmcts!IsNode, IsNode
  <2>3. InfoAlike(ismcts, ismctsTwin)
    BY <2>1, <2>2 DEF InfoAlike, InfoWhole, OnTheWay, IsmctsNew, AloneIsmcts!IsmctsNew
  <2> QED  BY <2>3, AlikeMakesEqualProgress
<1>4. IsmctsLeads(IsmctsProgress(n, ismcts), IsmctsProgress(n, ismctsTwin))
  BY <1>3, IsmctsLeadsOn
<1> QED  BY <1>1, <1>2, <1>4 DEF IsmctsTogether

LEMMA IsmctsLeadsKept ==
  ASSUME problem' = problem,
         IsmctsLeads(IsmctsProgress(problem.iterations, ismcts'),
                     IsmctsProgress(problem.iterations, ismctsTwin'))
  PROVE  IsmctsLeads(IsmctsProgress(problem.iterations, ismcts),
                     IsmctsProgress(problem.iterations, ismctsTwin))'
  BY IsmctsOnKept DEF IsmctsLeads, IsmctsProgress

LEMMA IsmctsTogetherNext ==
  ASSUME IsmctsTogether, IsmctsTurn
  PROVE  IsmctsTogether'
<1> DEFINE n == problem.iterations
           c == IsmctsProgress(n, ismcts)
           d == IsmctsProgress(n, ismctsTwin)
           e == IsmctsProgress(n, ismcts')
           f == IsmctsProgress(n, ismctsTwin')
<1>1. /\ IsmctsFit /\ AloneIsmcts!IsmctsFit /\ IsmctsLeads(c, d)
      /\ problem \in Games /\ n \in Nat /\ Elsewhere.iterations = n
  BY GameAssumption, ElsewhereLooksAlike DEF IsmctsTogether
<1>2. CASE TreeOver(ismctsTwin)
  <2>1. IsmctsNext /\ ismctsTwin' = ismctsTwin
    BY <1>2 DEF IsmctsTurn
  <2>2. problem' = problem
    BY <2>1 DEF IsmctsNext, IsmctsAdvance, IsmctsInterrupt, IsmctsStart, IsmctsEvaluate,
                IsmctsChance, IsmctsVisit, IsmctsSimulate, IsmctsReturn
  <2>3. IsmctsFit' /\ (e = c \/ e = IsmctsOn(c))
    BY <1>1, <2>1, <2>2, IsmctsTurns
  <2>4. AloneIsmcts!IsmctsFit'
    BY <1>1, <2>1, <2>2 DEF AloneIsmcts!IsmctsFit, AloneIsmcts!InfoWhole, AloneIsmcts!IsmctsChoice,
                            Elsewhere
  <2>5. IsmctsOn(d) = d /\ f = d
    <3>1. InfoWhole(ismctsTwin)
      BY <1>1 DEF AloneIsmcts!IsmctsFit, AloneIsmcts!InfoWhole, InfoWhole
    <3>2. ismctsTwin.at = "failed" \/ (ismctsTwin.at = "returned" /\ ismctsTwin.iterations = n)
      BY <1>1, <1>2 DEF TreeOver, AloneIsmcts!IsmctsFit
    <3> QED  BY <2>1, <3>1, <3>2, IsmctsOverStays
  <2>6. IsmctsLeads(e, f)
    <3> HIDE DEF c, d, e, f
    <3> QED  BY <1>1, <2>3, <2>5, IsmctsLeadsOn
  <2> QED  BY <1>1, <2>2, <2>3, <2>4, <2>6, IsmctsLeadsKept DEF IsmctsTogether
<1>3. CASE ~TreeOver(ismctsTwin)
  <2>1. AloneIsmcts!IsmctsNext /\ ismcts' = ismcts /\ problem' = problem
    BY <1>3 DEF IsmctsTurn
  <2>2. Elsewhere' = Elsewhere
    BY <2>1 DEF Elsewhere
  <2>3. /\ AloneIsmcts!IsmctsFit'
        /\ \/ AloneIsmcts!IsmctsProgress(n, ismctsTwin') = AloneIsmcts!IsmctsProgress(n, ismctsTwin)
           \/ AloneIsmcts!IsmctsProgress(n, ismctsTwin')
                = AloneIsmcts!IsmctsOn(AloneIsmcts!IsmctsProgress(n, ismctsTwin))
    BY <1>1, <2>1, <2>2, AloneIsmcts!IsmctsTurns, SearchAssumption, ProblemAssumption,
       MaxWeightAssumption, GameAssumption, InformationAssumption, EvaluationAssumption,
       TwinAssumption
  <2>4. f = d \/ f = IsmctsOn(d)
    BY <1>1, <2>3, IsmctsTwinTurns
  <2>5. IsmctsFit'
    BY <1>1, <2>1 DEF IsmctsFit, InfoWhole, IsmctsChoice
  <2>6. IsmctsLeads(e, f)
    <3>1. e = c
      BY <2>1
    <3> HIDE DEF c, d, e, f
    <3> QED  BY <1>1, <2>4, <3>1, IsmctsLeadsOn
  <2> QED  BY <1>1, <2>1, <2>3, <2>5, <2>6, IsmctsLeadsKept DEF IsmctsTogether
<1> QED  BY <1>2, <1>3

LEMMA IsmctsTogetherKept ==
  ASSUME IsmctsTogether, UNCHANGED <<problem, ismcts, ismctsTwin>>
  PROVE  IsmctsTogether'
<1>1. IsmctsFit' /\ AloneIsmcts!IsmctsFit'
  BY DEF IsmctsTogether, IsmctsFit, InfoWhole, IsmctsChoice, AloneIsmcts!IsmctsFit,
         AloneIsmcts!InfoWhole, AloneIsmcts!IsmctsChoice, Elsewhere
<1>2. IsmctsLeads(IsmctsProgress(problem.iterations, ismcts'),
                  IsmctsProgress(problem.iterations, ismctsTwin'))
  BY DEF IsmctsTogether
<1> QED  BY <1>1, <1>2, IsmctsLeadsKept DEF IsmctsTogether

-----------------------------------------------------------------------------
(* Each behaviour keeps its session and the twin of it together.            *)
Together ==
  /\ solver = "bfs" => BfsTogether
  /\ solver = "astar" => AStarTogether
  /\ solver = "pareto" => ParetoTogether
  /\ solver = "mcts" => MctsTogether
  /\ solver = "ismcts" => IsmctsTogether

LEMMA TogetherInit == Init => Together
<1> SUFFICES ASSUME Init PROVE Together
  OBVIOUS
<1>1. ASSUME solver = "bfs" PROVE BfsTogether
  BY <1>1, BfsTogetherInit DEF Init
<1>2. ASSUME solver = "astar" PROVE AStarTogether
  BY <1>2, AStarTogetherInit DEF Init
<1>3. ASSUME solver = "pareto" PROVE ParetoTogether
  BY <1>3, ParetoTogetherInit DEF Init
<1>4. ASSUME solver = "mcts" PROVE MctsTogether
  BY <1>4, MctsTogetherInit DEF Init
<1>5. ASSUME solver = "ismcts" PROVE IsmctsTogether
  BY <1>5, IsmctsTogetherInit DEF Init
<1> QED  BY <1>1, <1>2, <1>3, <1>4, <1>5 DEF Together

LEMMA TogetherNext ==
  ASSUME Together, [Next]_vars
  PROVE  Together'
<1>1. CASE BfsTurn
  <2>1. solver = "bfs" /\ solver' = "bfs"
    BY <1>1 DEF BfsTurn
  <2> QED  BY <1>1, <2>1, BfsTogetherNext DEF Together
<1>2. CASE AStarTurn
  <2>1. solver = "astar" /\ solver' = "astar"
    BY <1>2 DEF AStarTurn
  <2> QED  BY <1>2, <2>1, AStarTogetherNext DEF Together
<1>3. CASE ParetoTurnOf
  <2>1. solver = "pareto" /\ solver' = "pareto"
    BY <1>3 DEF ParetoTurnOf
  <2> QED  BY <1>3, <2>1, ParetoTogetherNext DEF Together
<1>4. CASE MctsTurn
  <2>1. solver = "mcts" /\ solver' = "mcts"
    BY <1>4 DEF MctsTurn
  <2> QED  BY <1>4, <2>1, MctsTogetherNext DEF Together
<1>5. CASE IsmctsTurn
  <2>1. solver = "ismcts" /\ solver' = "ismcts"
    BY <1>5 DEF IsmctsTurn
  <2> QED  BY <1>5, <2>1, IsmctsTogetherNext DEF Together
<1>6. CASE McTurn \/ BestFirstTurn
  <2>1. solver' \in {"mc", "best first"}
    BY <1>6 DEF McTurn, BestFirstTurn
  <2> QED  BY <2>1 DEF Together
<1>7. CASE UNCHANGED vars
  <2>1. UNCHANGED <<problem, solver, bfs, astar, pareto, mcts, ismcts,
                    bfsTwin, astarTwin, paretoTwin, mctsTwin, ismctsTwin>>
    BY <1>7 DEF vars, twins
  <2>2. solver = "bfs" => BfsTogether'
    BY <2>1, BfsTogetherKept DEF Together
  <2>3. solver = "astar" => AStarTogether'
    BY <2>1, AStarTogetherKept DEF Together
  <2>4. solver = "pareto" => ParetoTogether'
    BY <2>1, ParetoTogetherKept DEF Together
  <2>5. solver = "mcts" => MctsTogether'
    BY <2>1, MctsTogetherKept DEF Together
  <2>6. solver = "ismcts" => IsmctsTogether'
    BY <2>1, IsmctsTogetherKept DEF Together
  <2> QED  BY <2>1, <2>2, <2>3, <2>4, <2>5, <2>6 DEF Together
<1> QED  BY <1>1, <1>2, <1>3, <1>4, <1>5, <1>6, <1>7 DEF Next

-----------------------------------------------------------------------------
(* A session that is over has nowhere else to go than where its twin is.    *)
LEMMA TogetherIsInvisible == Together => ChunkingIsInvisible
<1> SUFFICES ASSUME Together PROVE ChunkingIsInvisible
  OBVIOUS
<1>1. ASSUME solver = "bfs", BfsOver(bfs)
      PROVE  Same(bfs, bfsTwin, {"states", "visited", "expanded", "generated", "solution", "exhausted"})
  <2>1. BfsLeads(problem, BfsProgress(bfs), BfsProgress(bfsTwin))
    BY <1>1 DEF Together, BfsTogether
  <2>2. BfsProgress(bfsTwin) = BfsProgress(bfs)
    BY <1>1, <2>1, BfsOverStays, BfsLeadsOn
  <2> QED  BY <2>2 DEF BfsProgress, Same
<1>2. ASSUME solver = "astar", BfsOver(astar)
      PROVE  Same(astar, astarTwin, {"states", "best", "expanded", "generated", "solution", "exhausted"})
  <2>1. AStarLeads(problem, AStarProgress(astar), AStarProgress(astarTwin))
    BY <1>2 DEF Together, AStarTogether
  <2>2. AStarProgress(astarTwin) = AStarProgress(astar)
    BY <1>2, <2>1, AStarOverStays, AStarLeadsOn
  <2> QED  BY <2>2 DEF AStarProgress, Same
<1>3. ASSUME solver = "pareto", ParetoOver(pareto)
      PROVE  Same(pareto, paretoTwin, {"states", "visited", "expanded", "generated", "outcomes", "results"})
  <2>1. ParetoLeads(problem, ParetoProgress(pareto), ParetoProgress(paretoTwin))
    BY <1>3 DEF Together, ParetoTogether
  <2>2. ParetoProgress(paretoTwin) = ParetoProgress(pareto)
    BY <1>3, <2>1, ParetoOverStays, ParetoLeadsOn
  <2> QED  BY <2>2 DEF ParetoProgress, Same
<1>4. ASSUME solver = "mcts", TreeOver(mcts)
      PROVE  Same(mcts, mctsTwin, {"nodes", "draws", "iterations", "decision"})
  <2>1. /\ MctsInv /\ AloneMcts!MctsInv
        /\ MctsLeads(MctsProgress(mcts), MctsProgress(mctsTwin))
    BY <1>4 DEF Together, MctsTogether
  <2>2. MctsWhole(mcts) /\ AloneMcts!MctsWhole(mctsTwin)
    BY <2>1, MctsInvWhole, AloneMcts!MctsInvWhole, SearchAssumption, ProblemAssumption,
       MaxWeightAssumption, GameAssumption, InformationAssumption, EvaluationAssumption,
       TwinAssumption
  <2>3. MctsProgress(mctsTwin) = MctsProgress(mcts)
    BY <1>4, <2>1, <2>2, MctsOverStays, MctsLeadsOn DEF TreeOver
  <2>4. \A f \in {"nodes", "draws", "iterations", "decision"} :
          MctsProgress(mctsTwin)[f] = mctsTwin[f] /\ MctsProgress(mcts)[f] = mcts[f]
    BY <2>2 DEF MctsProgress, MctsWhole, AloneMcts!MctsWhole
  <2> QED  BY <2>3, <2>4 DEF Same
<1> QED  BY <1>1, <1>2, <1>3, <1>4 DEF ChunkingIsInvisible

LEMMA TogetherHidesTheTruth == Together => HiddenTruthStaysHidden
<1> DEFINE n == problem.iterations
<1> SUFFICES ASSUME Together, solver = "ismcts", TreeOver(ismcts)
             PROVE  /\ Same(ismcts, ismctsTwin, {"nodes", "draws", "iterations"})
                    /\ ismcts.decision.found /\ ismctsTwin.decision.found =>
                         ismcts.decision = ismctsTwin.decision
  BY DEF HiddenTruthStaysHidden
<1>1. /\ problem \in Games /\ IsmctsFit /\ AloneIsmcts!IsmctsFit
      /\ IsmctsLeads(IsmctsProgress(n, ismcts), IsmctsProgress(n, ismctsTwin))
  BY DEF Together, IsmctsTogether
<1>2. InfoWhole(ismcts) /\ InfoWhole(ismctsTwin)
  BY <1>1 DEF IsmctsFit, AloneIsmcts!IsmctsFit, InfoWhole, AloneIsmcts!InfoWhole
<1>3. ismcts.at = "failed" \/ (ismcts.at = "returned" /\ ismcts.iterations = n)
  BY <1>1 DEF TreeOver, IsmctsFit
<1>4. IsmctsProgress(n, ismctsTwin) = IsmctsProgress(n, ismcts)
  BY <1>1, <1>2, <1>3, IsmctsOverStays, IsmctsLeadsOn
<1>5. \A f \in {"root", "nodes", "draws", "iterations"} :
        /\ IsmctsProgress(n, ismctsTwin)[f] = ismctsTwin[f]
        /\ IsmctsProgress(n, ismcts)[f] = ismcts[f]
  BY <1>2 DEF IsmctsProgress, InfoWhole
<1>6. /\ ismcts.root = ismctsTwin.root /\ ismcts.nodes = ismctsTwin.nodes
      /\ ismcts.draws = ismctsTwin.draws /\ ismcts.iterations = ismctsTwin.iterations
  BY <1>4, <1>5
<1>7. ASSUME ismcts.decision.found, ismctsTwin.decision.found
      PROVE  ismcts.decision = ismctsTwin.decision
  <2>1. /\ ismcts.decision = [found |-> TRUE, action |-> IsmctsChoice(ismcts)]
        /\ ismctsTwin.decision = [found |-> TRUE, action |-> AloneIsmcts!IsmctsChoice(ismctsTwin)]
    BY <1>1, <1>7 DEF IsmctsFit, AloneIsmcts!IsmctsFit
  <2>2. \A visits, total : AloneIsmcts!MostVisited(visits, total) = MostVisited(visits, total)
    BY DEF AloneIsmcts!MostVisited, MostVisited
  <2>3. AloneIsmcts!IsmctsChoice(ismctsTwin) = IsmctsChoice(ismctsTwin)
    BY <2>2 DEF AloneIsmcts!IsmctsChoice, IsmctsChoice
  <2>4. IsmctsChoice(ismctsTwin) = IsmctsChoice(ismcts)
    BY <1>6 DEF IsmctsChoice
  <2> QED  BY <2>1, <2>3, <2>4
<1> QED  BY <1>6, <1>7 DEF Same

-----------------------------------------------------------------------------
(* "Splitting the same total work across chunks must not change the         *)
(* result": for every problem, every game and every way of giving the units *)
(* out and of interrupting, a session that is over has the solution, the    *)
(* counts and the states or nodes of a twin that was left alone.            *)
THEOREM ChunkingAlwaysInvisible == Spec => []ChunkingIsInvisible
<1>1. Spec => []Together
  BY TogetherInit, TogetherNext, PTL DEF Spec
<1> QED  BY <1>1, TogetherIsInvisible, PTL

(* The tree of an information-set search, the random numbers it drew and    *)
(* its decision are those of a twin in any other world that looks like the  *)
(* real one: nothing the player cannot see gets through to it, however the  *)
(* work was split.                                                          *)
THEOREM HiddenTruthAlwaysHidden == Spec => []HiddenTruthStaysHidden
<1>1. Spec => []Together
  BY TogetherInit, TogetherNext, PTL DEF Spec
<1> QED  BY <1>1, TogetherHidesTheTruth, PTL
=============================================================================

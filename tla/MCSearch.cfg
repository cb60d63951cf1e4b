CONSTANTS
  Worlds <- MCWorlds
  Exchanges = {"x", "y"}
  Refused = "none"
  Problems <- MCProblems
  Budgets = {0, 1, 2}
  MaxIdle = 1
  MaxCost = 5
  NaN = NaN
  MaxWeight = 5
  Games <- MCGames
  Bonus <- MCBonus
  Evaluations <- MCEvaluations
  NotFinite = NotFinite
  SampleBudgets = {0, 1, 4, 9}
  MaxFailures = 2
SPECIFICATION Spec
INVARIANTS BfsTellsTheTruth AStarTellsTheTruth FrontIsIncomparable ExactCoversFirstGoals BestFirstTakesTheLowestPass ChunkingIsInvisible MctsTellsTheTruth IsmctsTellsTheTruth HiddenTruthStaysHidden EvidenceIsCommon
PROPERTY SearchEnds
CHECK_DEADLOCK FALSE

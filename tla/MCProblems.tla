----------------------------- MODULE MCProblems -----------------------------
(***************************************************************************)
(* The reference problems, each played by itself, and a run of the service  *)
(* over any of them: `game` is drawn once and `world` is its state.         *)
(***************************************************************************)
EXTENDS Sampling

CONSTANTS
  MarketSizes,
  PoolSizes,
  TradeSizes,
  MaxTrades,
  BridgeRounds,
  ShopSizes,
  CoverProblems,
  Warehouses,
  MazeSizes,
  Shops,
  RescueSizes,
  Openings,
  PolicyOrders,
  PlanOrders,
  Leads,
  Stocks,
  Profiles,
  Lineups,
  MaxSteps,
  Works,
  Kept,
  Replayed,
  MaxPauses

(* Solvers report at least once, a sink keeps something, a trace is not empty. *)
ASSUME ServiceAssumption ==
  /\ Works \subseteq Nat \ {0}
  /\ Kept \in Nat \ {0} /\ Replayed \in Nat \ {0}
  /\ MaxPauses \in Nat

VARIABLES game, world

vars == <<game, world>>

Market == INSTANCE Marketplace
Amm == INSTANCE LivingMarket
Crossing == INSTANCE Bridge
Chairs == INSTANCE Workshop
Cover == INSTANCE ExactCover
Crates == INSTANCE Sokoban
Paths == INSTANCE Maze
Shop == INSTANCE Scheduling
Search == INSTANCE Rescue
Four == INSTANCE ConnectFour
Roads == INSTANCE Logistics
Team == INSTANCE Mission
Fruit == INSTANCE Perishables
League == INSTANCE Leaderboards
Service == INSTANCE ServiceRun

Init ==
  \/ game = "marketplace" /\ Market!Init
  \/ game = "living market" /\ Amm!Init
  \/ game = "bridge" /\ Crossing!Init
  \/ game = "workshop" /\ Chairs!Init
  \/ game = "exact cover" /\ Cover!Init
  \/ game = "sokoban" /\ Crates!Init
  \/ game = "maze" /\ Paths!Init
  \/ game = "scheduling" /\ Shop!Init
  \/ game = "rescue" /\ Search!Init
  \/ game = "connect four" /\ Four!Init
  \/ game = "logistics" /\ Roads!Init
  \/ game = "mission" /\ Team!Init
  \/ game = "perishables" /\ Fruit!Init
  \/ game = "work league" /\ League!Init
  \/ game = "service run" /\ Service!Init

PlayMarketplace == game = "marketplace" /\ Market!Next /\ UNCHANGED game
PlayLivingMarket == game = "living market" /\ Amm!Next /\ UNCHANGED game
PlayBridge == game = "bridge" /\ Crossing!Next /\ UNCHANGED game
PlayWorkshop == game = "workshop" /\ Chairs!Next /\ UNCHANGED game
PlayExactCover == game = "exact cover" /\ Cover!Next /\ UNCHANGED game
PlaySokoban == game = "sokoban" /\ Crates!Next /\ UNCHANGED game
PlayMaze == game = "maze" /\ Paths!Next /\ UNCHANGED game
PlayScheduling == game = "scheduling" /\ Shop!Next /\ UNCHANGED game
PlayRescue == game = "rescue" /\ Search!Next /\ UNCHANGED game
PlayConnectFour == game = "connect four" /\ Four!Next /\ UNCHANGED game
PlayLogistics == game = "logistics" /\ Roads!Next /\ UNCHANGED game
PlayMission == game = "mission" /\ Team!Next /\ UNCHANGED game
PlayPerishables == game = "perishables" /\ Fruit!Next /\ UNCHANGED game
PlayWorkLeague == game = "work league" /\ League!Next /\ UNCHANGED game
RunService == game = "service run" /\ Service!Next /\ UNCHANGED game

Next ==
  \/ PlayMarketplace
  \/ PlayLivingMarket
  \/ PlayBridge
  \/ PlayWorkshop
  \/ PlayExactCover
  \/ PlaySokoban
  \/ PlayMaze
  \/ PlayScheduling
  \/ PlayRescue
  \/ PlayConnectFour
  \/ PlayLogistics
  \/ PlayMission
  \/ PlayPerishables
  \/ PlayWorkLeague
  \/ RunService

Spec == Init /\ [][Next]_vars

-----------------------------------------------------------------------------
(* Each problem's module states its own properties; here they are gathered  *)
(* by the promise they are an instance of.                                  *)

(* What only one may have, one has: an order is settled for one buyer by    *)
(* one seller, an element is covered by one set, a slot is taken by one     *)
(* operation, a job is worked on by one agent, priority is allotted to one  *)
(* agent and only in its own name, and nature owes one answer               *)
(* (marketplace.rs:570, exact_cover.rs:261, scheduling.rs:412,              *)
(* work_league.rs:358, bridge.rs:265, logistics.rs:281).                    *)
NothingIsHeldTwice ==
  /\ game = "marketplace" => Market!OrdersSettleOnce
  /\ game = "exact cover" => Cover!SelectionIsDisjoint
  /\ game = "scheduling" => Shop!SchedulesAreFeasible
  /\ game = "work league" => League!WorkHasOneOwner
  /\ game = "bridge" => Crossing!NoImpersonation /\ Crossing!PriorityIsAllottedOnce
  /\ game = "logistics" => Roads!NatureAnswersTheTraveler

(* Nobody gains what nobody gave: traders cannot pump the pool, a plan is   *)
(* made of honest recipes, scores are those of completed jobs, and no       *)
(* moment passes at which food that is due to spoil stays fresh             *)
(* (amm.rs:341, workshop.rs:119, work_league.rs:358, perishables.rs:748).   *)
NothingForNothing ==
  /\ game = "living market" => Amm!NoFreeLunch
  /\ game = "workshop" => Chairs!OnlyHonestPlans
  /\ game = "work league" => League!ScoresAreEarned
  /\ game = "perishables" => Fruit!EffectsAreNeverLost /\ Fruit!UsableIsEdible

(* State that is kept twice agrees with itself, where no declared invariant *)
(* ties the two: line counters and pieces, the index of holders and the     *)
(* balances, packages and orders, the phase of a mission and where its      *)
(* agents are, and the key and the gate it opened (connect_four.rs:940,     *)
(* perishables.rs:488, logistics.rs:235, mission.rs:549, maze.rs:366).      *)
RecordsAgree ==
  /\ game = "connect four" => Four!CountersAreTheBoard
  /\ game = "perishables" => Fruit!IndexFollowsBalances
  /\ game = "logistics" => Roads!PackagesAreWhereOrdersSay
  /\ game = "mission" => Team!TeamAndMissionAgree
  /\ game = "maze" => Paths!GateTakesTheKey

(* A run of the service serves what its catalogue offers, shows whoever      *)
(* looks on the replay that was asked for, from its first exchange to its   *)
(* last and none twice, says no more soon after it is cancelled, and        *)
(* returns documents whose observations are their own (lib.rs:212, 706,     *)
(* adapters.rs:861, 912).                                                   *)
RunsKeepTheirWord ==
  game = "service run" =>
    /\ Service!StrategiesAreServed
    /\ Service!LiveFramesAreTheReplay
    /\ Service!CancelledRunsSayNoMore
    /\ Service!EvidenceIsTheDocumentsOwn

(* What a solver reports is what a definition that knows nothing of how it  *)
(* works gives: the best compatible settlements, the price explained to its *)
(* last unit, the least waste, the exact covers, the shortest schedule, the *)
(* weight of the scenarios that succeed, the whole storage curve, and ranks *)
(* that count the better (marketplace.rs:507, amm.rs:752, workshop.rs:177,  *)
(* exact_cover.rs:212, scheduling.rs:183, rescue.rs:551,                    *)
(* perishables.rs:349, adapters/work_league.rs:303).                        *)
SolversAreRight ==
  /\ game = "marketplace" => Market!ClearingIsBest
  /\ game = "living market" => Amm!TradesExplainPrice
  /\ game = "workshop" => Chairs!WasteIsLeast
  /\ game = "exact cover" => Cover!AlgorithmXFindsTheCovers
  /\ game = "scheduling" => Shop!MakespanIsLeast
  /\ game = "rescue" => Search!EvaluationIsExact
  /\ game = "perishables" => Fruit!StorageFrontIsTheCurve
  /\ game = "work league" => League!RanksCountTheBetter

(* What nature hides stays hidden and is never lost: proposals are the same *)
(* whatever the truth is, the truth is always among the beliefs, and only a *)
(* sensor that lies explains a wrong one (rescue.rs:888, mission.rs:776,    *)
(* 828).                                                                    *)
BeliefsAreFair ==
  /\ game = "rescue" => Search!PoliciesAreBlind /\ Search!MissionsAreTruthful
  /\ game = "mission" => Team!BeliefsHoldTheTruth /\ Team!PublicActionsArePublic

(* A play that cannot go on has reached its goal, or one of the dead ends   *)
(* known of its problem: a bid for a turn that was claimed, crossed crates, *)
(* a road that ran out of time, repairs that ran out; ready-made mechanisms *)
(* and days with any of their actors away are never refused, a board is     *)
(* closed just when the rules say, and only a pause that nobody ends holds  *)
(* up a run of the service (bridge.rs:218, sokoban.rs:157,                  *)
(* logistics.rs:649, work_league.rs:358, amm.rs:716, connect_four.rs:498,   *)
(* lib.rs:213).                                                             *)
OnlyKnownDeadEnds ==
  /\ game = "bridge" => Crossing!OnlyOrphanedBidsBlock /\ Crossing!MechanismsFinish
  /\ game = "sokoban" => Crates!OnlyCrossedFinishesAreMissed
  /\ game = "logistics" => Roads!OnlyTheRoadEndsAMission
  /\ game = "work league" => League!OnlyRepairsRunOut
  /\ game = "living market" => Amm!CoalitionsReplay
  /\ game = "connect four" => Four!GamesEndByTheRules
  /\ game = "service run" => Service!OnlyAPauseHolds

(* What guides a search or prices a swap moves one way at most as fast as   *)
(* it may: no swap lowers the product of the reserves, rounding included,   *)
(* no dead crate comes alive, and no exchange brings a goal nearer than it  *)
(* costs, so that A* is never guided past the best answer (amm.rs:341,      *)
(* sokoban.rs:170, 204, maze.rs:437).                                       *)
StepsKeepTheirPotential ==
  [][/\ game = "living market" => Amm!SwapKeepsTheProduct
     /\ game = "sokoban" => Crates!DeadCrateStays /\ Crates!DistanceFallsByOne
     /\ game = "maze" => Paths!GuidanceFallsByTheCost]_vars
=============================================================================

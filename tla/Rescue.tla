------------------------------- MODULE Rescue -------------------------------
(***************************************************************************)
(* A rescue whose place is hidden: nature draws a truth and a sensor seed,  *)
(* the agent may observe once, and a policy sees only the agent's account.  *)
(***************************************************************************)
EXTENDS Rollout, Sampling

CONSTANT RescueSizes    \* the fixtures: "micro", "showcase", "stress"

VARIABLE world          \* [size, balances]

agent == "agent"
nature == "nature"
base == "base"
energy == <<"energy">>
spentEnergy == <<"spent energy">>
sensor == <<"sensor">>
usedSensor == <<"used sensor">>
unresolved == <<"unresolved">>
planning == <<"planning">>
awaiting == <<"awaiting observation">>
committed == <<"committed">>
rescued == <<"rescued">>
evacuated == <<"evacuated">>
solved == <<"solved">>
Place(location) == <<"at", location>>
Truth(location) == <<"truth", location>>
Seed(seed) == <<"seed", seed>>
Belief(location) == <<"belief", location>>
ScenarioWeight(truth, seed) == <<"weight", truth, seed>>

(* The sites in the order in which policies look for them.                  *)
Sites == <<"North", "South", "East", "West", "Harbor", "Hills">>

Destinations(size) ==
  SubSeq(Sites, 1, CASE size = "micro" -> 2 [] size = "showcase" -> 4 [] size = "stress" -> 6)

Sited(size) == Range(Destinations(size))

SeedCount(size) == CASE size = "micro" -> 4 [] size = "showcase" -> 8 [] size = "stress" -> 12

Seeds(size) == 0 .. SeedCount(size) - 1

Extended(size) == size # "micro"

(* The sensor of seed 0 reports a wrong site.                               *)
Signal(truth, seed) ==
  IF seed # 0 THEN truth
  ELSE CASE truth = "North" -> "South" [] truth = "South" -> "East" [] truth = "East" -> "West"
         [] truth = "West" -> "North" [] truth = "Harbor" -> "Hills" [] truth = "Hills" -> "North"

Initial(size, natural) ==
  Sparse(At(agent, One(Place(base)) @@ energy :> (IF Extended(size) THEN 3 ELSE 2)
                     @@ One(sensor) @@ One(planning))
    @@ At(nature, natural))

(* A prior weighs every truth and seed. *)
Uncertain(size, prior) ==
  Initial(size, One(unresolved) @@
    [w \in {ScenarioWeight(scenario[1], scenario[2]) : scenario \in DOMAIN prior} |-> prior[<<w[2], w[3]>>]])

Scenario(size, truth, seed) == Initial(size, One(Truth(truth)) @@ One(Seed(seed)))

Instantiate(truth, seed) ==
  Exchange(TRUE, At(nature, One(unresolved)), At(nature, One(Truth(truth)) @@ One(Seed(seed))),
           At(nature, One(ScenarioWeight(truth, seed))))

BeginObserve ==
  Exchange(TRUE, At(agent, One(planning) @@ One(sensor)),
           At(agent, One(awaiting) @@ One(usedSensor)), At(agent, One(Place(base))))

(* Mutant: the sensor reports after its seed has moved on. *)
ResolveAfterAdvancing(size, truth, seed) ==
  LET next == (seed + 1) % SeedCount(size)
  IN  Exchange(TRUE, At(agent, One(awaiting)) @@ At(nature, One(Seed(seed))),
        At(agent, One(planning) @@ One(Belief(Signal(truth, next)))) @@ At(nature, One(Seed(next))),
        At(agent, One(Place(base))) @@ At(nature, One(Truth(truth))))

ResolveObservation(size, truth, seed) ==
  Exchange(TRUE, At(agent, One(awaiting)) @@ At(nature, One(Seed(seed))),
    At(agent, One(planning) @@ One(Belief(Signal(truth, seed))))
      @@ At(nature, One(Seed((seed + 1) % SeedCount(size)))),
    At(agent, One(Place(base))) @@ At(nature, One(Truth(truth))))

(* A site that the size does not have has no rates. *)
Move(size, to) ==
  Exchange(to \in Sited(size), At(agent, One(planning) @@ One(Place(base)) @@ One(energy)),
           At(agent, One(committed) @@ One(Place(to)) @@ One(spentEnergy)), NoGoods)

RescueAt(size, location) ==
  Exchange(location \in Sited(size), At(agent, One(committed) @@ One(energy)),
           At(agent, One(rescued) @@ One(spentEnergy)),
           At(agent, One(Place(location))) @@ At(nature, One(Truth(location))))

Evacuate(location) ==
  Exchange(TRUE, At(agent, One(rescued) @@ One(Place(location)) @@ One(energy)),
           At(agent, One(evacuated) @@ One(Place(base)) @@ One(spentEnergy)), NoGoods)

Finish(size) ==
  Exchange(TRUE, At(agent, One(IF Extended(size) THEN evacuated ELSE rescued)),
           At(agent, One(solved)), NoGoods)

Proposals(size) ==
  UNION { {Instantiate(t, s) : t \in Sited(size), s \in Seeds(size)},
          {ResolveObservation(size, t, s) : t \in Sited(size), s \in Seeds(size)},
          {BeginObserve, Finish(size)},
          {Move(size, l) : l \in Sited(size)}, {RescueAt(size, l) : l \in Sited(size)},
          IF Extended(size) THEN {Evacuate(l) : l \in Sited(size)} ELSE {} }

Invariants ==
  { {"at"}, {"energy", "spent energy"}, {"sensor", "used sensor"}, {"unresolved", "seed"},
    {"unresolved", "truth"},
    {"planning", "awaiting observation", "committed", "rescued", "evacuated", "solved"} }

Goal == At(agent, One(solved))

-----------------------------------------------------------------------------
(* Policies. *)
Policies == {"observe", "north"}

Has(balances, asset) == Amount(balances, <<agent, asset>>) > 0

(* What a policy proposes from the agent's account alone.                   *)
PublicPolicyAction(size, view, policy) ==
  LET here     == SelectInSeq(Sites, LAMBDA l : Has(view, Place(l)))
      believed == SelectInSeq(Sites, LAMBDA l : Has(view, Belief(l)))
  IN  IF Has(view, evacuated) \/ Has(view, rescued) THEN <<Finish(size)>>
      ELSE IF here > 0 THEN <<RescueAt(size, Sites[here])>>
      ELSE IF ~Has(view, Place(base)) THEN NoProposal
      ELSE IF policy = "observe" /\ Has(view, sensor) THEN <<BeginObserve>>
      ELSE IF policy = "north" THEN <<Move(size, "North")>>
      ELSE IF believed > 0 THEN <<Move(size, Sites[believed])>> ELSE NoProposal

(* The one proposal of a kind that applies, if any.                         *)
OnlyOf(balances, proposals) ==
  LET some == {x \in proposals : Applicable(balances, x)}
  IN  IF some = {} THEN NoProposal ELSE <<CHOOSE x \in some : TRUE>>

AgentView(balances) ==
  NoGoods @@ [cell \in {c \in DOMAIN balances : c[1] = agent} |-> balances[cell]]

NatureObservation(size, balances) ==
  OnlyOf(balances, {ResolveObservation(size, t, s) : t \in Sited(size), s \in Seeds(size)})

Evacuation(size, balances) ==
  IF Has(balances, rescued) /\ Extended(size)
  THEN OnlyOf(balances, {Evacuate(l) : l \in Sited(size)}) ELSE NoProposal

(* Mutant: proposals that would be refused are left out. *)
PolicyActionIfApplicable(size, balances, policy) ==
  IF Has(balances, awaiting) THEN NatureObservation(size, balances)
  ELSE LET x == PublicPolicyAction(size, AgentView(balances), policy)
       IN  IF x # NoProposal /\ Applicable(balances, x[1]) THEN x ELSE Evacuation(size, balances)

PolicyAction(size, balances, policy) ==
  IF Has(balances, awaiting) THEN NatureObservation(size, balances)
  ELSE LET home == Evacuation(size, balances)
       IN  IF home # NoProposal THEN home
           ELSE PublicPolicyAction(size, AgentView(balances), policy)

RunPolicy(size, balances, policy) ==
  RunRollout(balances, Goal, 8, Invariants, LAMBDA b : PolicyAction(size, b, policy))

Succeeded(rollout) == Matches(rollout.world, Goal)

(* The scenarios nature may draw, in the order of their rates.              *)
EncodedScenarios(size, balances) ==
  LET drawn(n) == [truth |-> Destinations(size)[(n - 1) \div SeedCount(size) + 1],
                   seed |-> (n - 1) % SeedCount(size)]
      weight(n) == Amount(balances, <<nature, ScenarioWeight(drawn(n).truth, drawn(n).seed)>>)
      all == [n \in 1 .. Len(Destinations(size)) * SeedCount(size) |->
                Weighted(Instantiate(drawn(n).truth, drawn(n).seed), weight(n))]
  IN  SelectSeq(all, LAMBDA o : o.weight > 0 /\ Applicable(balances, o.exchange))

RunSampledPolicy(size, balances, drawn, policy) ==
  Succeeded(RunPolicy(size, Settled(balances, drawn), policy))

(* Mutant: each scenario is run once, whatever its weight. *)
SuccessesUnweighted(size, balances, policy) ==
  Cardinality({n \in DOMAIN EncodedScenarios(size, balances) :
    RunSampledPolicy(size, balances, EncodedScenarios(size, balances)[n].exchange, policy)})

(* Each ticket of the prior's total weight is drawn once.                   *)
Successes(size, balances, policy) ==
  LET scenarios == EncodedScenarios(size, balances)
      total     == TotalWeight(scenarios)
      winning   == {n \in DOMAIN scenarios :
                      RunSampledPolicy(size, balances, scenarios[n].exchange, policy)}
  IN  Cardinality({i \in 0 .. total - 1 : Chosen(scenarios, SystematicTicket(i, total)) \in winning})

EvaluateScenarios(size, balances) ==
  LET observing == Successes(size, balances, "observe")
      direct    == Successes(size, balances, "north")
  IN  [chosen |-> IF observing >= direct THEN "observe" ELSE "north",
       observing |-> observing, direct |-> direct]

-----------------------------------------------------------------------------
(* The fixtures are uniform; other priors are the user's.                   *)
Init ==
  \E size \in RescueSizes :
    \/ world = [size |-> size, balances |-> Uncertain(size, [w \in Sited(size) \X Seeds(size) |-> 1])]
    \/ \E north \in 0 .. 2, other, lying \in {0, 1} :
         /\ size = "micro"
         /\ world = [size |-> size, balances |->
              Uncertain(size, [w \in Sited(size) \X Seeds(size) |->
                IF w[2] = 0 THEN lying ELSE IF w[1] = "North" THEN north ELSE other])]

Next ==
  \E x \in Proposals(world.size) :
    /\ Accepted(world.balances, x, Invariants)
    /\ world' = [world EXCEPT !.balances = Settled(@, x)]

-----------------------------------------------------------------------------
Holds(account, asset) == Amount(world.balances, <<account, asset>>) > 0

Unresolved == Amount(world.balances, <<nature, unresolved>>) = 1

(* The same world with another truth and seed. *)
HadNatureDrawn(truth, seed) ==
  AgentView(world.balances) @@ At(nature, One(Truth(truth)) @@ One(Seed(seed)))

(* What an agent proposes never tells the truth that nature hides: only the *)
(* observation it asked for depends on it, in every state of every play and *)
(* not only in the first (rescue.rs:888, public_observation_intent_...).    *)
PoliciesAreBlind ==
  ~Has(world.balances, awaiting) =>
    \A policy \in Policies, truth \in Sited(world.size), seed \in {0, 1} :
      PolicyAction(world.size, HadNatureDrawn(truth, seed), policy)
        = PolicyAction(world.size, world.balances, policy)

(* The evaluation by tickets counts each scenario by its weight, one that   *)
(* succeeds when the sensor tells the truth, or when the truth is in the    *)
(* north (rescue.rs:551, "every integer-weighted scenario").                *)
EvaluationIsExact ==
  Unresolved /\ HasSupport(EncodedScenarios(world.size, world.balances)) =>
    LET weigh(some) == MapThenSumSet(
          LAMBDA c : Amount(world.balances, <<nature, ScenarioWeight(c[1], c[2])>>), some)
        drawable    == Sited(world.size) \X Seeds(world.size)
        result      == EvaluateScenarios(world.size, world.balances)
    IN  /\ Holds(agent, planning) /\ Holds(agent, Place(base)) /\ Holds(agent, sensor) =>
             /\ result.observing = weigh({c \in drawable : c[2] # 0})
             /\ result.direct = weigh({c \in drawable : c[1] = "North"})
        /\ result.chosen = "north" <=> result.direct > result.observing

(* Whatever was observed, only the seed that lies explains a belief in the  *)
(* wrong site; a rescue happened where nature hid the truth, and a solved   *)
(* mission has paid for every leg of it, the way home included.             *)
MissionsAreTruthful ==
  ~Unresolved =>
    LET place == CHOOSE t \in Sited(world.size) : Holds(nature, Truth(t))
    IN  /\ Cardinality({t \in Sited(world.size) : Holds(nature, Truth(t))}) = 1
        /\ \A l \in Range(Sites) :
             Holds(agent, Belief(l)) => (l # place <=> Holds(nature, Seed(1)))
        /\ Holds(agent, rescued) => Holds(agent, Place(place))
        /\ Holds(agent, solved) =>
             /\ ~Holds(agent, energy)
             /\ Holds(agent, Place(IF Extended(world.size) THEN base ELSE place))
=============================================================================

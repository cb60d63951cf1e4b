------------------------------ MODULE Mission ------------------------------
(***************************************************************************)
(* A scout and a medic look for a hidden site.  The planner sees the        *)
(* scout's account only and keeps a belief: the worlds that are compatible  *)
(* with what was observed.  Identity assets never move and every proposal   *)
(* binds them to the account they name, so that they are left out.          *)
(***************************************************************************)
EXTENDS RateBook

CONSTANT Leads          \* who decides: "any", "plan", "share", "north"

(* `beliefs` is a list in the code; all weights are 1 and no two beliefs    *)
(* become equal.  `steps` is the length of the trace.                       *)
VARIABLE world          \* [lead, balances, beliefs, steps]

scout == "scout"
medic == "medic"
nature == "nature"
mission == "mission"
success == "success"

base == "base"
energy == <<"energy">>
spentEnergy == <<"spent energy">>
sensor == <<"sensor">>
usedSensor == <<"used sensor">>
kit == <<"medical kit">>
usedKit == <<"used medical kit">>
injured == <<"injured">>
unresolved == <<"unresolved">>
hazardResolved == <<"hazard resolved">>
time == <<"time remaining">>
elapsed == <<"elapsed time">>
planning == <<"planning">>
awaitingScan == <<"awaiting scan">>
awaitingEncounter == <<"awaiting encounter">>
needsTreatment == <<"needs treatment">>
areaSafe == <<"area safe">>
rescued == <<"rescued">>
solved == <<"solved">>
Place(location) == <<"at", location>>
Intel(location) == <<"intel", location>>
SharedIntel(location) == <<"shared intel", location>>
Truth(location) == <<"truth", location>>
Seed(seed) == <<"seed", seed>>
Hazard(hazard) == <<"hazard", hazard>>
ScenarioWeight(truth, seed, hazard) == <<"weight", truth, seed, hazard>>

Sites == {"North", "South"}
OtherSite(site) == IF site = "North" THEN "South" ELSE "North"
Seeds == 0 .. 3
Hazards == {"safe", "injury"}
Horizon == 12

Signal(truth, seed) == IF seed = 0 THEN OtherSite(truth) ELSE truth

Initial ==
  Sparse(At(scout, One(Place(base)) @@ energy :> 2 @@ One(sensor))
    @@ At(medic, One(Place(base)) @@ energy :> 2 @@ One(kit))
    @@ At(nature, One(unresolved) @@
         [w \in {ScenarioWeight(t, s, h) : t \in Sites, s \in Seeds, h \in Hazards} |-> 1])
    @@ At(mission, time :> 10 @@ One(planning)))

(* What every public step costs. *)
Spend == time :> 1
Spent == elapsed :> 1

Instantiate(truth, seed, hazard) ==
  Exchange(TRUE, At(nature, One(unresolved)),
    At(nature, One(Truth(truth)) @@ One(Seed(seed)) @@ One(Hazard(hazard))),
    At(nature, One(ScenarioWeight(truth, seed, hazard))))

BeginScan ==
  Exchange(TRUE, At(scout, One(sensor)) @@ At(mission, One(planning) @@ Spend),
    At(scout, One(usedSensor)) @@ At(mission, One(awaitingScan) @@ Spent),
    At(scout, One(Place(base))))

ResolveScan(truth, seed) ==
  Exchange(TRUE, At(nature, One(Seed(seed))) @@ At(mission, One(awaitingScan)),
    At(scout, One(Intel(Signal(truth, seed)))) @@ At(nature, One(Seed((seed + 1) % 4)))
      @@ At(mission, One(planning)),
    At(nature, One(Truth(truth))))

Share(site) ==
  Exchange(TRUE, At(scout, One(Intel(site))) @@ At(mission, Spend),
    At(scout, One(SharedIntel(site))) @@ At(medic, One(Intel(site))) @@ At(mission, Spent),
    At(mission, One(planning)))

(* Mutant: the medic stays behind. *)
MoveScout(site, proof) ==
  Exchange(TRUE,
    At(scout, One(Place(base)) @@ One(energy)) @@ At(mission, One(planning) @@ Spend),
    At(scout, One(Place(site)) @@ One(spentEnergy)) @@ At(mission, One(awaitingEncounter) @@ Spent),
    proof)

Movement(site, proof) ==
  Exchange(TRUE,
    At(scout, One(Place(base)) @@ One(energy)) @@ At(medic, One(Place(base)) @@ One(energy))
      @@ At(mission, One(planning) @@ Spend),
    At(scout, One(Place(site)) @@ One(spentEnergy)) @@ At(medic, One(Place(site)) @@ One(spentEnergy))
      @@ At(mission, One(awaitingEncounter) @@ Spent),
    proof)

MoveTogether(site) == Movement(site, At(scout, One(SharedIntel(site))) @@ At(medic, One(Intel(site))))
MoveDirect(site) == Movement(site, At(scout, One(sensor)))

BothAt(site) == At(scout, One(Place(site))) @@ At(medic, One(Place(site))) @@ At(nature, One(Truth(site)))

(* Mutant: a team meets the hazard wherever it went. *)
EncounterAnywhere(site, hazard) ==
  Exchange(TRUE,
    At(nature, One(Hazard(hazard))) @@ At(mission, One(awaitingEncounter) @@ Spend),
    At(nature, One(hazardResolved))
      @@ (IF hazard = "safe" THEN At(mission, One(areaSafe) @@ Spent)
          ELSE At(scout, One(injured)) @@ At(mission, One(needsTreatment) @@ Spent)),
    At(scout, One(Place(site))) @@ At(medic, One(Place(site))))

Encounter(site, hazard) ==
  Exchange(TRUE,
    At(nature, One(Hazard(hazard))) @@ At(mission, One(awaitingEncounter) @@ Spend),
    At(nature, One(hazardResolved))
      @@ (IF hazard = "safe" THEN At(mission, One(areaSafe) @@ Spent)
          ELSE At(scout, One(injured)) @@ At(mission, One(needsTreatment) @@ Spent)),
    BothAt(site))

Rescue(site) ==
  Exchange(TRUE, At(mission, One(areaSafe) @@ Spend), At(mission, One(rescued) @@ Spent), BothAt(site))

Treat ==
  Exchange(TRUE,
    At(scout, One(injured)) @@ At(medic, One(kit)) @@ At(mission, One(needsTreatment) @@ Spend),
    At(medic, One(usedKit)) @@ At(mission, One(areaSafe) @@ Spent),
    NoGoods)

Finish == Exchange(TRUE, At(mission, One(rescued)), At(success, One(solved)), NoGoods)

Scans == {ResolveScan(t, s) : t \in Sites, s \in Seeds}
Encounters == {Encounter(t, h) : t \in Sites, h \in Hazards}

Invariants ==
  { {"at"}, {"energy", "spent energy"}, {"time remaining", "elapsed time"}, {"sensor", "used sensor"},
    {"medical kit", "used medical kit"},
    {"planning", "awaiting scan", "awaiting encounter", "needs treatment", "area safe", "rescued", "solved"},
    {"unresolved", "truth"}, {"unresolved", "seed"}, {"unresolved", "hazard", "hazard resolved"} }

Goal == At(success, One(solved))

-----------------------------------------------------------------------------
Held(balances, account, asset) == Amount(balances, <<account, asset>>) > 0

(* The scout sees neither nature nor what the medic carries. *)
ScoutInformation(balances) ==
  NoGoods @@ [cell \in {c \in DOMAIN balances : c[1] \in {scout, mission, success}} |-> balances[cell]]

(* What the planner may propose, from the scout's information alone.        *)
DecisionSource(view) ==
  LET phase(asset) == Held(view, mission, asset)
  IN  IF phase(needsTreatment) THEN {Treat}
      ELSE IF phase(areaSafe) THEN {Rescue(l) : l \in {m \in Sites : Held(view, scout, Place(m))}}
      ELSE IF phase(rescued) THEN {Finish}
      ELSE IF ~phase(planning) THEN {}
      ELSE {Share(l) : l \in {m \in Sites : Held(view, scout, Intel(m))}}
             \cup {MoveTogether(l) : l \in {m \in Sites : Held(view, scout, SharedIntel(m))}}
             \cup (IF Held(view, scout, sensor) THEN {BeginScan} \cup {MoveDirect(l) : l \in Sites} ELSE {})

NatureResponses(balances) == {x \in Scans \cup Encounters : Accepted(balances, x, Invariants)}

(* A world after a public action and the answer it requires of nature.      *)
Answered(balances) ==
  LET answers == NatureResponses(balances)
  IN  IF answers = {} THEN balances ELSE Settled(balances, CHOOSE x \in answers : TRUE)

Scenarios == {Instantiate(t, s, h) : t \in Sites, s \in Seeds, h \in Hazards}

InitialBeliefs == {Settled(Initial, x) : x \in Scenarios}

(* Mutant: beliefs are conditioned before nature has answered. *)
UpdateBeliefsUnanswered(beliefs, x, view) ==
  {b \in {Settled(c, x) : c \in {d \in beliefs : Accepted(d, x, Invariants)}} :
     ScoutInformation(b) = view}

(* Beliefs that take the action and are then observed as the live world is. *)
UpdateBeliefs(beliefs, x, view) ==
  {b \in {Answered(Settled(c, x)) : c \in {d \in beliefs : Accepted(d, x, Invariants)}} :
     ScoutInformation(b) = view}

(* The beliefs a plan samples from. *)
Compatible(beliefs, balances) ==
  {b \in beliefs : ScoutInformation(b) = ScoutInformation(balances)}

Believed(balances, agent) == {l \in Sites : Held(balances, agent, Intel(l))}

(* North is looked up before south. *)
FirstSite(sites) == IF "North" \in sites THEN "North" ELSE "South"

PolicyActions(balances, shares) ==
  LET phase(asset) == Held(balances, mission, asset)
  IN  IF phase(awaitingScan) THEN NatureResponses(balances) \cap Scans
      ELSE IF phase(rescued) THEN {Finish}
      ELSE IF phase(needsTreatment) THEN {Treat}
      ELSE IF phase(areaSafe) THEN {Rescue(l) : l \in {m \in Sites : Held(balances, scout, Place(m))}}
      ELSE IF phase(awaitingEncounter) THEN NatureResponses(balances) \cap Encounters
      ELSE IF ~shares THEN {MoveDirect("North")}
      ELSE IF Held(balances, scout, sensor) THEN {BeginScan}
      ELSE IF Believed(balances, scout) # {} THEN {Share(FirstSite(Believed(balances, scout)))}
      ELSE {MoveTogether(FirstSite(s)) : s \in {Believed(balances, medic)} \ {{}}}

Proposals ==
  Scenarios \cup Scans \cup Encounters \cup {BeginScan, Treat, Finish}
    \cup UNION {{Share(l), MoveTogether(l), MoveDirect(l), Rescue(l)} : l \in Sites}

-----------------------------------------------------------------------------
(* Whoever decides, nature has drawn a scenario first. *)
Init ==
  \E lead \in Leads, x \in Scenarios :
    world = [lead |-> lead, balances |-> Settled(Initial, x), steps |-> 1,
             beliefs |-> IF lead = "plan" THEN InitialBeliefs ELSE {}]

(* A planned decision is one that some compatible belief accepts.           *)
Decisions ==
  CASE world.lead = "any" -> Proposals
    [] world.lead = "plan" ->
         {x \in DecisionSource(ScoutInformation(world.balances)) :
            \E b \in Compatible(world.beliefs, world.balances) : Accepted(b, x, Invariants)}
    [] OTHER -> PolicyActions(world.balances, world.lead = "share")

Decidable ==
  {x \in Decisions : /\ world.lead # "any" => world.steps < Horizon /\ ~Matches(world.balances, Goal)
                     /\ Accepted(world.balances, x, Invariants)}

(* Nature's answer follows a planned decision at once. *)
Replan ==
  /\ world.lead = "plan"
  /\ \E x \in Decidable :
       LET taken == Settled(world.balances, x)
           after == Answered(taken)
       IN  world' = [world EXCEPT
             !.balances = after, !.steps = @ + (IF NatureResponses(taken) = {} THEN 1 ELSE 2),
             !.beliefs = UpdateBeliefs(@, x, ScoutInformation(after))]

(* A policy proposes nature's answers too. *)
Follow ==
  /\ world.lead # "plan"
  /\ \E x \in Decidable :
       world' = [world EXCEPT !.balances = Settled(@, x), !.steps = @ + 1]

Next == Replan \/ Follow

-----------------------------------------------------------------------------
Holds(account, asset) == Held(world.balances, account, asset)

(* The live world is always among the beliefs, no belief is refuted by what *)
(* the scout sees, and they are told apart by what nature hides: as long as *)
(* the planner follows the protocol of mission.rs:828 it never runs out of  *)
(* worlds to sample (ismcts reports an incompatible determinization).       *)
BeliefsHoldTheTruth ==
  world.lead = "plan" =>
    /\ world.balances \in world.beliefs
    /\ world.beliefs = Compatible(world.beliefs, world.balances)
    /\ (Holds(mission, areaSafe) \/ Holds(mission, needsTreatment)) =>
         \A b \in world.beliefs, l \in Sites : Held(b, nature, Truth(l)) <=> Holds(nature, Truth(l))

(* Whether a public action applies is public: it is accepted in the live    *)
(* world just when every belief accepts it, and nature's answer is unique.  *)
PublicActionsArePublic ==
  /\ Cardinality(NatureResponses(world.balances)) <= 1
  /\ \A x \in DecisionSource(ScoutInformation(world.balances)), b \in world.beliefs :
       Accepted(b, x, Invariants) <=> Accepted(world.balances, x, Invariants)

(* The phase of the mission, which no declared invariant ties to the        *)
(* agents, is the one they are in: they travel together, an injury waits    *)
(* for its treatment, and only a wrong site leaves a mission unfinished,    *)
(* within the horizon.                                                      *)
TeamAndMissionAgree ==
  /\ \A l \in Sites \cup {base} : Holds(scout, Place(l)) <=> Holds(medic, Place(l))
  /\ Holds(scout, injured) <=> Holds(mission, needsTreatment)
  /\ \A l \in Sites : Holds(scout, SharedIntel(l)) <=> Holds(medic, Intel(l))
  /\ Decidable = {} /\ ~Matches(world.balances, Goal) =>
       /\ Holds(mission, awaitingEncounter)
       /\ \E l \in Sites : Holds(scout, Place(l)) /\ Holds(nature, Truth(OtherSite(l)))
=============================================================================

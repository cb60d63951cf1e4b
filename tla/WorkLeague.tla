----------------------------- MODULE WorkLeague -----------------------------
(***************************************************************************)
(* Agents compete for a pool of jobs.  Work is a protocol of exchanges:     *)
(* claim, begin, resolve, finish, and a repair after a failure.  `run` of   *)
(* the code plays a whole match, one agent at a turn; the economy itself    *)
(* lets the agents interleave their steps as they like.  Identities, the    *)
(* policies and nature's outcome weights never move.                        *)
(***************************************************************************)
EXTENDS RateBook

CONSTANTS
  Profiles,       \* which leagues: "micro", "showcase"
  Lineups,        \* which policies play: "mixed", "throughput", "sustainable"
  MaxSteps        \* bound: exchanges of a free game

(* A match ends with stage "done", or "failed" where `run` returns an       *)
(* error.  `at` is the place in the loop of `run`; `job`, `mode` belong to  *)
(* the turn.  `steps` counts the exchanges of a free game.                  *)
VARIABLE world    \* [stage, profile, lineup, balances, turn, at, job, mode, steps]

Agents(profile) == IF profile = "micro" THEN 1 .. 2 ELSE 1 .. 4
Jobs(profile) == IF profile = "micro" THEN 1 .. 4 ELSE 1 .. 12

(* The free game is played for two jobs of the micro league. *)
FreeJobs == {1, 2}

Lineup(name) ==
  CASE name = "mixed" -> <<"sprinter", "steward", "value hunter", "resilient">>
    [] name = "throughput" -> <<"sprinter", "sprinter", "value hunter", "sprinter">>
    [] name = "sustainable" -> <<"steward", "steward", "resilient", "steward">>

Agent(agent) == <<"agent", agent>>
Job(job) == <<"job", job>>
workshop == <<"workshop">>
charger == <<"charger">>
recycler == <<"recycler">>

operational == <<"operational">>
energy == <<"energy">>
timeRemaining == <<"time remaining">>
material == <<"material">>
available == <<"available">>
pending == <<"pending">>
inProgress == <<"in progress">>
completed == <<"completed">>
value == <<"value">>
attempts == <<"attempts">>
successes == <<"successes">>
failures == <<"failures">>
spentEnergy == <<"spent energy">>
elapsedTime == <<"elapsed time">>
materialSpent == <<"material spent">>
waste == <<"waste">>
recycledWaste == <<"recycled waste">>
damage == <<"damage">>
repairSupply == <<"repair supply">>
spentRepairSupply == <<"spent repair supply">>
chargeSupply == <<"charge supply">>
Place(location) == <<"at", location>>
Assigned(agent) == <<"assigned", agent>>
Claimed(job) == <<"claimed", job>>
Awaiting(job, mode) == <<"awaiting", job, mode>>
Resolved(job, mode, outcome) == <<"resolved", job, mode, outcome>>

Facilities == {"workshop", "charger", "recycler"}
Sites == {"north", "east", "south", "west"}
Locations == {"depot"} \cup Sites \cup Facilities
Modes == {"rush", "lean", "safe"}
Outcomes == {"success", "failure"}

JobSpec(job) ==
  LET index == job - 1
  IN  [location |-> <<"north", "east", "south", "west">>[(index % 4) + 1],
       value |-> 8 + ((index * 7) % 17), energy |-> 3 + ((index * 5) % 5), time |-> 3 + ((index * 3) % 6),
       material |-> 2 + ((index * 2) % 4), risk |-> 1 + ((index * 3) % 4)]

WorkCost(job, mode) ==
  LET spec == JobSpec(job)
  IN  CASE mode = "rush" -> [energy |-> spec.energy + 2, time |-> Max({spec.time - 1, 1}),
                             material |-> spec.material + 1, waste |-> 2]
        [] mode = "lean" -> [energy |-> spec.energy, time |-> spec.time + 2,
                             material |-> spec.material, waste |-> job % 2]
        [] mode = "safe" -> [energy |-> spec.energy + 1, time |-> spec.time + 1,
                             material |-> spec.material, waste |-> 1]

(* Of ten tickets, those that fail. *)
FailureWeight(job, mode) ==
  LET risk == JobSpec(job).risk
  IN  CASE mode = "rush" -> Min({risk + 2, 8})
        [] mode = "lean" -> Min({risk, 7})
        [] mode = "safe" -> Min({Max({risk - 1, 0}), 4})

Possible(job, mode) ==
  {o \in Outcomes : o = "success" \/ FailureWeight(job, mode) > 0}

Initial(profile) ==
  LET jobs == Cardinality(Jobs(profile))
      Worker == One(Place("depot")) @@ One(operational) @@ energy :> 96 @@ timeRemaining :> 220 @@ material :> 64
  IN  Sparse([cell \in {Agent(a) : a \in Agents(profile)} \X DOMAIN Worker |-> Worker[cell[2]]]
        @@ [cell \in {Job(j) : j \in Jobs(profile)} \X {available} |-> 1]
        @@ At(workshop, repairSupply :> (2 * jobs)) @@ At(charger, chargeSupply :> (20 * jobs)))

(* Mutant: a claimed job stays on offer. *)
ClaimShared(agent, job) ==
  Exchange(TRUE, NoGoods,
    At(Agent(agent), One(Claimed(job))) @@ At(Job(job), One(Assigned(agent)) @@ One(pending)),
    At(Job(job), One(available)))

Claim(agent, job) ==
  Exchange(TRUE, At(Job(job), One(available)),
    At(Agent(agent), One(Claimed(job))) @@ At(Job(job), One(Assigned(agent)) @@ One(pending)), NoGoods)

Move(agent, from, to) ==
  Exchange(TRUE,
    At(Agent(agent), One(Place(from)) @@ One(energy) @@ One(timeRemaining)),
    At(Agent(agent), One(Place(to)) @@ One(spentEnergy) @@ One(elapsedTime)), NoGoods)

Begin(agent, job, mode) ==
  LET cost == WorkCost(job, mode)
  IN  Exchange(TRUE,
        At(Agent(agent), energy :> cost.energy @@ timeRemaining :> cost.time @@ material :> cost.material)
          @@ At(Job(job), One(pending)),
        At(Agent(agent), spentEnergy :> cost.energy @@ elapsedTime :> cost.time
             @@ materialSpent :> cost.material @@ waste :> cost.waste @@ One(attempts)
             @@ One(Awaiting(job, mode)))
          @@ At(Job(job), One(inProgress)),
        At(Agent(agent), One(operational) @@ One(Place(JobSpec(job).location)) @@ One(Claimed(job)))
          @@ At(Job(job), One(Assigned(agent))))

(* Nature must hold a weight for the outcome. *)
Resolve(agent, job, mode, outcome) ==
  Exchange(outcome \in Possible(job, mode), At(Agent(agent), One(Awaiting(job, mode))),
    At(Agent(agent), One(Resolved(job, mode, outcome))), NoGoods)

(* Mutant: a failed attempt is paid as well. *)
FinishPaid(agent, job, mode, outcome) ==
  IF outcome = "success"
  THEN Exchange(TRUE,
         At(Agent(agent), One(Resolved(job, mode, outcome)) @@ One(Claimed(job)))
           @@ At(Job(job), One(inProgress) @@ One(Assigned(agent))),
         At(Agent(agent), value :> JobSpec(job).value @@ One(completed) @@ One(successes))
           @@ At(Job(job), One(completed)), NoGoods)
  ELSE Exchange(TRUE,
         At(Agent(agent), One(Resolved(job, mode, outcome)) @@ One(operational))
           @@ At(Job(job), One(inProgress)),
         At(Agent(agent), One(failures) @@ One(damage) @@ value :> JobSpec(job).value)
           @@ At(Job(job), One(pending)),
         At(Agent(agent), One(Claimed(job))) @@ At(Job(job), One(Assigned(agent))))

Finish(agent, job, mode, outcome) ==
  IF outcome = "success"
  THEN Exchange(TRUE,
         At(Agent(agent), One(Resolved(job, mode, outcome)) @@ One(Claimed(job)))
           @@ At(Job(job), One(inProgress) @@ One(Assigned(agent))),
         At(Agent(agent), value :> JobSpec(job).value @@ One(completed) @@ One(successes))
           @@ At(Job(job), One(completed)), NoGoods)
  ELSE Exchange(TRUE,
         At(Agent(agent), One(Resolved(job, mode, outcome)) @@ One(operational))
           @@ At(Job(job), One(inProgress)),
         At(Agent(agent), One(failures) @@ One(damage)) @@ At(Job(job), One(pending)),
         At(Agent(agent), One(Claimed(job))) @@ At(Job(job), One(Assigned(agent))))

(* Mutant: a repair uses up no supply. *)
RepairForFree(agent) ==
  Exchange(TRUE, At(Agent(agent), One(damage) @@ timeRemaining :> 3),
    At(Agent(agent), One(operational) @@ elapsedTime :> 3),
    At(Agent(agent), One(Place("workshop"))) @@ At(workshop, One(repairSupply)))

Repair(agent) ==
  Exchange(TRUE,
    At(Agent(agent), One(damage) @@ timeRemaining :> 3) @@ At(workshop, One(repairSupply)),
    At(Agent(agent), One(operational) @@ elapsedTime :> 3) @@ At(workshop, One(spentRepairSupply)),
    At(Agent(agent), One(Place("workshop"))))

Recharge(agent) ==
  Exchange(TRUE, At(Agent(agent), timeRemaining :> 2) @@ At(charger, chargeSupply :> 12),
    At(Agent(agent), energy :> 12 @@ elapsedTime :> 2), At(Agent(agent), One(Place("charger"))))

Recycle(agent) ==
  Exchange(TRUE, At(Agent(agent), One(waste) @@ One(energy) @@ One(timeRemaining)),
    At(Agent(agent), One(recycledWaste) @@ One(spentEnergy) @@ One(elapsedTime)),
    At(Agent(agent), One(Place("recycler"))))

Invariants ==
  { {"energy", "spent energy", "charge supply"}, {"material", "material spent"},
    {"time remaining", "elapsed time"}, {"operational", "damage"}, {"repair supply", "spent repair supply"} }

Goal(profile) == [cell \in {Job(j) : j \in Jobs(profile)} \X {completed} |-> 1]

-----------------------------------------------------------------------------
Holds(account, asset) == Amount(world.balances, <<account, asset>>)

Location(balances, agent) == CHOOSE l \in Locations : Amount(balances, <<Agent(agent), Place(l)>>) > 0

(* Keys are compared field by field; a larger value comes first. *)
Precedes(left, right) ==
  \E i \in DOMAIN left : left[i] < right[i] /\ \A k \in 1 .. (i - 1) : left[k] = right[k]

Preference(job, policy) ==
  LET spec == JobSpec(job)
  IN  CASE policy = "sprinter" -> <<spec.time, -spec.value, spec.risk, job>>
        [] policy = "steward" -> <<spec.material, spec.energy, spec.risk, job>>
        [] policy = "value hunter" -> <<-spec.value, spec.risk, spec.time, job>>
        [] policy = "resilient" -> <<spec.risk, spec.energy, -spec.value, job>>

ChooseJob(jobs, policy) ==
  CHOOSE j \in jobs : \A k \in jobs \ {j} : Precedes(Preference(j, policy), Preference(k, policy))

ModeFor(policy) ==
  CASE policy \in {"sprinter", "value hunter"} -> "rush"
    [] policy = "steward" -> "lean" [] policy = "resilient" -> "safe"

Playing == (world.turn % Cardinality(Agents(world.profile))) + 1
Policy == Lineup(world.lineup)[Playing]
Available == {j \in Jobs(world.profile) : Holds(Job(j), available) = 1}

Failed == MapThenSumSet(LAMBDA a : Holds(Agent(a), failures), Agents(world.profile))

(* Bound: how many attempts of a match of the larger league may fail. *)
MayFail == world.profile = "micro" \/ Failed < 1

-----------------------------------------------------------------------------
Init ==
  \E p \in Profiles, l \in Lineups, s \in {"match", "free"} :
    /\ s = "free" => p = "micro" /\ l = "mixed"
    /\ world = [stage |-> s, profile |-> p, lineup |-> l, balances |-> Initial(p), turn |-> 0,
                at |-> "turn", job |-> 0, mode |-> "rush", steps |-> 0]

(* One exchange of `run` and the place the loop goes on at. *)
Perform(x, change) ==
  IF Accepted(world.balances, x, Invariants)
  THEN world' = [change EXCEPT !.balances = Settled(@, x)]
  ELSE world' = [world EXCEPT !.stage = "failed"]

(* move_to: nothing happens where the agent already is. *)
MoveTo(to, change) ==
  LET from == Location(world.balances, Playing)
  IN  IF from = to THEN world' = change ELSE Perform(Move(Playing, from, to), change)

MatchIsOver ==
  /\ world.stage = "match" /\ world.at = "turn" /\ Available = {}
  /\ world' = [world EXCEPT !.stage = "done"]

ClaimJob ==
  /\ world.stage = "match" /\ world.at = "turn" /\ Available # {}
  /\ LET job == ChooseJob(Available, Policy)
     IN  Perform(Claim(Playing, job),
                 [world EXCEPT !.job = job, !.mode = ModeFor(Policy), !.at = "go"])

GoToWork ==
  /\ world.stage = "match" /\ world.at = "go"
  /\ MoveTo(JobSpec(world.job).location, [world EXCEPT !.at = "begin"])

BeginWork ==
  /\ world.stage = "match" /\ world.at = "begin"
  /\ Perform(Begin(Playing, world.job, world.mode), [world EXCEPT !.at = "resolve"])

(* The outcome is sampled by nature's weights; every one that has a weight  *)
(* may be drawn.  Resolve and Finish follow at once.                        *)
ResolveWork ==
  /\ world.stage = "match" /\ world.at = "resolve"
  /\ \E o \in Possible(world.job, world.mode) :
       /\ o = "failure" => MayFail
       /\ Perform(Resolve(Playing, world.job, world.mode, o), [world EXCEPT !.at = o])

FinishWork ==
  /\ world.stage = "match" /\ world.at \in Outcomes
  /\ Perform(Finish(Playing, world.job, world.mode, world.at),
             [world EXCEPT !.at = IF world.at = "success" THEN "recycle" ELSE "workshop"])

GoToWorkshop ==
  /\ world.stage = "match" /\ world.at = "workshop"
  /\ MoveTo("workshop", [world EXCEPT !.at = "repair"])

RepairWorker ==
  /\ world.stage = "match" /\ world.at = "repair"
  /\ Perform(Repair(Playing), [world EXCEPT !.at = "go", !.mode = "safe"])

(* Only a steward with waste recycles, one unit after each of its jobs.     *)
EndTurn ==
  /\ world.stage = "match" /\ world.at = "recycle"
  /\ LET next == [world EXCEPT !.turn = @ + 1, !.at = "turn"]
     IN  IF Policy # "steward" \/ Holds(Agent(Playing), waste) = 0 THEN world' = next
         ELSE IF Location(world.balances, Playing) # "recycler"
              THEN MoveTo("recycler", world)
              ELSE Perform(Recycle(Playing), next)

Match ==
  \/ MatchIsOver \/ ClaimJob \/ GoToWork \/ BeginWork \/ ResolveWork \/ FinishWork
  \/ GoToWorkshop \/ RepairWorker \/ EndTurn

(* Where an agent has something to do; the free game makes no other moves.  *)
Destinations(agent) ==
  {JobSpec(j).location : j \in {k \in FreeJobs : Holds(Agent(agent), Claimed(k)) > 0}}
    \cup (IF Holds(Agent(agent), damage) > 0 THEN {"workshop"} ELSE {})
    \cup (IF Holds(Agent(agent), successes) > 0 THEN {"charger", "recycler"} ELSE {})

FreeMoves(agent) ==
  {Claim(agent, j) : j \in FreeJobs}
    \cup {Begin(agent, j, m) : j \in FreeJobs, m \in {"rush", "safe"}}
    \cup {Resolve(agent, j, m, o) : j \in FreeJobs, m \in {"rush", "safe"}, o \in Outcomes}
    \cup {Finish(agent, j, m, o) : j \in FreeJobs, m \in {"rush", "safe"}, o \in Outcomes}
    \cup {Move(agent, from, to) : from \in {Location(world.balances, agent)},
            to \in Destinations(agent) \ {Location(world.balances, agent)}}
    \cup {Repair(agent), Recharge(agent), Recycle(agent)}

FreeStep ==
  /\ world.stage = "free" /\ world.steps < MaxSteps
  /\ \E a \in Agents("micro") : \E x \in FreeMoves(a) :
       /\ Accepted(world.balances, x, Invariants)
       /\ world' = [world EXCEPT !.balances = Settled(@, x), !.steps = @ + 1]

Next == Match \/ FreeStep

-----------------------------------------------------------------------------
Phases(job) == {p \in {available, pending, inProgress, completed} : Holds(Job(job), p) > 0}

(* The steps of its work that an agent still has to take for a job. *)
OpenWork(agent, job) ==
  {asset \in {Awaiting(job, m) : m \in Modes} \cup {Resolved(job, m, o) : m \in Modes, o \in Outcomes} :
     Holds(Agent(agent), asset) > 0}

(* However the agents interleave, a job has one phase, one agent from claim *)
(* to completion, and one open attempt while it is in progress.             *)
WorkHasOneOwner ==
  \A j \in Jobs(world.profile) :
    LET owners == {a \in Agents(world.profile) : Holds(Agent(a), Claimed(j)) > 0}
        workers == {a \in Agents(world.profile) : OpenWork(a, j) # {}}
    IN  /\ Cardinality(Phases(j)) = 1
        /\ owners = {a \in Agents(world.profile) : Holds(Job(j), Assigned(a)) > 0}
        /\ Cardinality(owners) = IF Phases(j) \cap {pending, inProgress} # {} THEN 1 ELSE 0
        /\ workers = IF Phases(j) = {inProgress} THEN owners ELSE {}
        /\ \A a \in workers : Cardinality(OpenWork(a, j)) = 1

(* The scores are the values of the completed jobs, each counted once.      *)
ScoresAreEarned ==
  MapThenSumSet(LAMBDA a : Holds(Agent(a), value), Agents(world.profile))
    = MapThenSumSet(LAMBDA j : JobSpec(j).value,
                    {k \in Jobs(world.profile) : Holds(Job(k), completed) > 0})

(* A match fails only when an agent has run out of something it needs, and  *)
(* never while the workshop can repair every failure; otherwise it reaches  *)
(* the goal.                                                                *)
OnlyRepairsRunOut ==
  /\ world.stage = "failed" => Holds(workshop, repairSupply) = 0
  /\ world.stage = "done" => Matches(world.balances, Goal(world.profile))
=============================================================================

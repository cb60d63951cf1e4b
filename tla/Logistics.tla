----------------------------- MODULE Logistics -----------------------------
(***************************************************************************)
(* A vehicle carries orders to a customer over routes on which nature draws *)
(* the outcome of every leg; fuel, money and time run out.                  *)
(***************************************************************************)
EXTENDS RateBook

CONSTANTS PolicyOrders,  \* the fixtures, by how many orders are still to be delivered: 1, 4,
          PlanOrders     \* that are left to the policies and to the planner

VARIABLE world           \* [decider, balances]: "direct", "reliable" or "plan"

vehicle == <<"vehicle">>
nature == <<"nature">>
station == <<"fuel station">>
OrderAccount(order) == <<"order", order>>

fuel == <<"fuel">>
spentFuel == <<"spent fuel">>
money == <<"money">>
time == <<"time remaining">>
elapsed == <<"elapsed time">>
space == <<"cargo space">>
occupied == <<"cargo occupied">>
tool == <<"repair tool">>
waiting == <<"waiting">>
inTransit == <<"in transit">>
delivered == <<"delivered">>
weather == <<"weather ready">>
Place(location) == <<"at", location>>
Traveling(route) == <<"traveling", route>>
Package(order) == <<"package", order>>
Outcome(route, outcome) == <<"outcome", route, outcome>>
OutcomeWeight(route, outcome) == <<"weight", route, outcome>>

Orders == 1 .. 4
Routes == {"direct out", "direct back", "safe out 1", "safe out 2", "safe back 1", "safe back 2"}
Outcomes == {"clear", "delayed", "breakdown"}
IsDirect(route) == route \in {"direct out", "direct back"}

Source(route) ==
  CASE route \in {"direct out", "safe out 1"} -> "depot"
    [] route \in {"direct back", "safe back 1"} -> "customer"
    [] route \in {"safe out 2", "safe back 2"} -> "junction"

Destination(route) ==
  CASE route \in {"direct out", "safe out 2"} -> "customer"
    [] route \in {"direct back", "safe back 2"} -> "depot"
    [] route \in {"safe out 1", "safe back 1"} -> "junction"

FuelCost(route) == IF IsDirect(route) THEN 2 ELSE 1

TimeCost(route, outcome) ==
  CASE outcome = "clear" -> (IF IsDirect(route) THEN 2 ELSE 1)
    [] outcome = "delayed" -> (IF IsDirect(route) THEN 5 ELSE 2)

(* Every outcome has a positive weight: twice as likely to be clear on the  *)
(* direct routes, eight times on the safe ones.                             *)
Weight(route, outcome) == IF outcome = "clear" THEN (IF IsDirect(route) THEN 2 ELSE 8) ELSE 1

RefuelAmount == 4
RepairTime == 2

Initial(pending) ==
  Sparse(At(vehicle, One(Place("depot")) @@ fuel :> RefuelAmount @@ money :> 12 @@ time :> 80
                       @@ One(space) @@ One(tool))
    @@ At(nature, One(weather) @@
         [w \in {OutcomeWeight(r, o) : r \in Routes, o \in Outcomes} |-> Weight(w[2], w[3])])
    @@ At(station, fuel :> 12)
    @@ [cell \in {<<OrderAccount(n), Package(n)>> : n \in Orders}
              \cup {<<OrderAccount(n), IF n <= pending THEN waiting ELSE delivered>> : n \in Orders} |-> 1])

Load(n) ==
  Exchange(TRUE, At(vehicle, One(space)) @@ At(OrderAccount(n), One(waiting) @@ One(Package(n))),
    At(vehicle, One(occupied) @@ One(Package(n))) @@ At(OrderAccount(n), One(inTransit)),
    At(vehicle, One(Place("depot"))))

(* Mutant: the package stays in the vehicle. *)
DeliverWithoutHandover(n) ==
  Exchange(TRUE, At(vehicle, One(occupied)) @@ At(OrderAccount(n), One(inTransit)),
    At(vehicle, One(space)) @@ At(OrderAccount(n), One(delivered)),
    At(vehicle, One(Place("customer")) @@ One(Package(n))))

Deliver(n) ==
  Exchange(TRUE, At(vehicle, One(occupied) @@ One(Package(n))) @@ At(OrderAccount(n), One(inTransit)),
    At(vehicle, One(space)) @@ At(OrderAccount(n), One(delivered) @@ One(Package(n))),
    At(vehicle, One(Place("customer"))))

Depart(r) ==
  Exchange(TRUE, At(vehicle, One(Place(Source(r)))), At(vehicle, One(Traveling(r))), NoGoods)

(* Mutant: nature may be asked again before the outcome has been settled. *)
ResolveKeepingWeather(r, o) ==
  Exchange(TRUE, NoGoods, At(nature, One(Outcome(r, o))),
    At(vehicle, One(Traveling(r))) @@ At(nature, One(weather) @@ One(OutcomeWeight(r, o))))

Resolve(r, o) ==
  Exchange(TRUE, At(nature, One(weather)), At(nature, One(Outcome(r, o))),
    At(vehicle, One(Traveling(r))) @@ At(nature, One(OutcomeWeight(r, o))))

Arrive(r, o) ==
  Exchange(o # "breakdown",
    At(vehicle, One(Traveling(r)) @@ fuel :> FuelCost(r) @@ time :> TimeCost(r, o))
      @@ At(nature, One(Outcome(r, o))),
    At(vehicle, One(Place(Destination(r))) @@ spentFuel :> FuelCost(r) @@ elapsed :> TimeCost(r, o))
      @@ At(nature, One(weather)),
    NoGoods)

Repair(r) ==
  Exchange(TRUE, At(vehicle, time :> RepairTime) @@ At(nature, One(Outcome(r, "breakdown"))),
    At(vehicle, elapsed :> RepairTime) @@ At(nature, One(weather)),
    At(vehicle, One(Traveling(r)) @@ One(tool)))

Refuel ==
  Exchange(TRUE, At(vehicle, money :> RefuelAmount) @@ At(station, fuel :> RefuelAmount),
    At(vehicle, fuel :> RefuelAmount) @@ At(station, money :> RefuelAmount),
    At(vehicle, One(Place("depot"))))

Invariants ==
  { {"at", "traveling"}, {"fuel", "spent fuel"}, {"money"}, {"time remaining", "elapsed time"},
    {"cargo space", "cargo occupied"}, {"waiting", "in transit", "delivered"} }

Goal == [cell \in {<<OrderAccount(n), delivered>> : n \in Orders} |-> 1]

-----------------------------------------------------------------------------
Held(balances, account, asset) == Amount(balances, <<account, asset>>) > 0
Underway(balances) == {r \in Routes : Held(balances, vehicle, Traveling(r))}
Carried(balances) == {n \in Orders : Held(balances, vehicle, Package(n))}
Waiting(balances) == {n \in Orders : Held(balances, OrderAccount(n), waiting)}

CurrentLocation(balances) ==
  CHOOSE l \in {"depot", "junction", "customer"} : Held(balances, vehicle, Place(l))

NatureOutcomes(balances, route) ==
  {x \in {Resolve(route, o) : o \in Outcomes} : Applicable(balances, x)}

(* Mutant: a full tank does not keep a policy from refuelling. *)
LowOnFuelOrFull(balances) == Amount(balances, <<vehicle, fuel>>) <= RefuelAmount

LowOnFuel(balances) == Amount(balances, <<vehicle, fuel>>) < RefuelAmount

(* What is done about the leg under way, an answer of nature included.      *)
LegActions(balances, r) ==
  IF Held(balances, nature, weather) THEN NatureOutcomes(balances, r)
  ELSE IF Held(balances, nature, Outcome(r, "breakdown")) THEN {Repair(r)}
  ELSE {Arrive(r, o) : o \in {"clear", "delayed"} \cap {p \in Outcomes : Held(balances, nature, Outcome(r, p))}}

(* The next leg of a policy, by whether an order is on board.               *)
NextLeg(location, loaded, direct) ==
  CASE location = "depot" -> (IF direct THEN "direct out" ELSE "safe out 1")
    [] location = "customer" -> (IF direct THEN "direct back" ELSE "safe back 1")
    [] location = "junction" -> (IF loaded THEN "safe out 2" ELSE "safe back 2")

PolicyActions(balances, direct) ==
  IF Underway(balances) # {} THEN UNION {LegActions(balances, r) : r \in Underway(balances)}
  ELSE LET here == CurrentLocation(balances)
           load == Carried(balances)
       IN  CASE here = "customer" /\ load # {} -> {Deliver(Min(load))}
             [] here = "depot" /\ load = {} ->
                  IF LowOnFuel(balances) THEN {Refuel}
                  ELSE IF Waiting(balances) = {} THEN {} ELSE {Load(Min(Waiting(balances)))}
             [] OTHER -> {Depart(NextLeg(here, load # {}, direct))}

(* What the planner searches: the candidates worth a look at a location.    *)
PlanningCandidates(balances) ==
  IF Underway(balances) # {}
  THEN UNION {{Repair(r)} \cup {Arrive(r, o) : o \in {"clear", "delayed"}} : r \in Underway(balances)}
  ELSE LET here == CurrentLocation(balances)
           load == Carried(balances)
       IN  CASE here = "depot" /\ load # {} ->
                  {Depart("direct out"), Depart("safe out 1")}
                    \cup (IF Held(balances, vehicle, fuel) THEN {} ELSE {Refuel})
             [] here = "depot" /\ load = {} ->
                  {Load(n) : n \in Waiting(balances)} \cup (IF LowOnFuel(balances) THEN {Refuel} ELSE {})
             [] here = "customer" /\ load # {} -> {Deliver(n) : n \in load}
             [] here = "customer" /\ load = {} -> {Depart("direct back"), Depart("safe back 1")}
             [] here = "junction" -> {Depart("safe out 2"), Depart("safe back 2")}

PlanningOutcomes(balances) == UNION {NatureOutcomes(balances, r) : r \in Underway(balances)}

Proposals(w) ==
  IF w.decider = "plan" THEN PlanningCandidates(w.balances) \cup PlanningOutcomes(w.balances)
  ELSE PolicyActions(w.balances, w.decider = "direct")

-----------------------------------------------------------------------------
Init ==
  \/ \E pending \in PolicyOrders, policy \in {"direct", "reliable"} :
       world = [decider |-> policy, balances |-> Initial(pending)]
  \/ \E pending \in PlanOrders : world = [decider |-> "plan", balances |-> Initial(pending)]

(* A rollout and a plan stop at the goal. *)
Next ==
  /\ ~Matches(world.balances, Goal)
  /\ \E x \in Proposals(world) :
       /\ Accepted(world.balances, x, Invariants)
       /\ world' = [world EXCEPT !.balances = Settled(@, x)]

-----------------------------------------------------------------------------
Holds(account, asset) == Held(world.balances, account, asset)

(* Nature owes one answer for the leg under way and no other: a declared    *)
(* invariant covers the vehicle but not what nature holds.                  *)
NatureAnswersTheTraveler ==
  LET answers == {a \in Routes \X Outcomes : Holds(nature, Outcome(a[1], a[2]))}
  IN  /\ Cardinality(answers) + Amount(world.balances, <<nature, weather>>) = 1
      /\ \A a \in answers : Holds(vehicle, Traveling(a[1]))

(* A package is where its order says, and the vehicle has room for the one  *)
(* that is in transit.                                                      *)
PackagesAreWhereOrdersSay ==
  /\ \A n \in Orders :
       /\ Holds(OrderAccount(n), inTransit) <=> Holds(vehicle, Package(n))
       /\ Holds(vehicle, Package(n)) <=> ~Holds(OrderAccount(n), Package(n))
  /\ Cardinality(Carried(world.balances)) = Amount(world.balances, <<vehicle, occupied>>)

(* Whatever nature answers, a policy fails only for want of time: fuel and  *)
(* money suffice.  The planner, which may carry an order back and forth,    *)
(* can run dry on the road, but its pruning never leaves it without a move. *)
OnlyTheRoadEndsAMission ==
  (\A x \in Proposals(world) : ~Accepted(world.balances, x, Invariants)) =>
    \/ Matches(world.balances, Goal)
    \/ \E r \in Underway(world.balances), o \in {"clear", "delayed"} :
         /\ Holds(nature, Outcome(r, o))
         /\ \/ Amount(world.balances, <<vehicle, time>>) < TimeCost(r, o)
            \/ world.decider = "plan" /\ Amount(world.balances, <<vehicle, fuel>>) < FuelCost(r)
    \/ \E r \in Underway(world.balances) :
         Holds(nature, Outcome(r, "breakdown")) /\ Amount(world.balances, <<vehicle, time>>) < RepairTime
=============================================================================

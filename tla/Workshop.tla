------------------------------ MODULE Workshop ------------------------------
(***************************************************************************)
(* A workshop that makes chairs by two recipes.  A third, counterfeit rate  *)
(* is installed too: the declared invariants have to keep it out.           *)
(***************************************************************************)
EXTENDS RateBook

CONSTANT ShopSizes      \* the fixtures: "micro", "showcase", "stress"

VARIABLE world          \* [order, balances]

shop == "workshop"
wood == <<"wood">>
labor == <<"labor">>
time == <<"time">>
chair == <<"chair">>
waste == <<"waste">>
spentTime == <<"spent time">>

Order(size) ==
  CASE size = "micro"    -> [wood |-> 6, labor |-> 4, time |-> 3, target |-> 2]
    [] size = "showcase" -> [wood |-> 18, labor |-> 12, time |-> 18, target |-> 6]
    [] size = "stress"   -> [wood |-> 30, labor |-> 20, time |-> 30, target |-> 10]

Initial(order) ==
  At(shop, wood :> order.wood @@ labor :> order.labor @@ time :> order.time
             @@ One(<<"tool">>) @@ One(<<"active">>))

Recipe(consumed, made) ==
  Exchange(TRUE, At(shop, consumed), At(shop, made), At(shop, One(<<"active">>) @@ One(<<"tool">>)))

BasicChair ==
  Recipe(wood :> 2 @@ labor :> 1 @@ time :> 1,
         One(chair) @@ One(waste) @@ One(<<"spent labor">>) @@ One(spentTime))

(* Mutant: a batch takes an hour longer. *)
SlowerBatch ==
  Recipe(wood :> 3 @@ labor :> 2 @@ time :> 4,
         chair :> 2 @@ One(waste) @@ <<"spent labor">> :> 2 @@ spentTime :> 4)

EfficientBatch ==
  Recipe(wood :> 3 @@ labor :> 2 @@ time :> 3,
         chair :> 2 @@ One(waste) @@ <<"spent labor">> :> 2 @@ spentTime :> 3)

CounterfeitChair ==
  Exchange(TRUE, At(shop, One(wood) @@ One(time)), At(shop, chair :> 2 @@ One(spentTime)),
           At(shop, One(<<"active">>)))

Finish(target) ==
  Exchange(TRUE, At(shop, One(<<"active">>)), At(shop, One(<<"solved">>)), At(shop, chair :> target))

(* Mutant: the mass of the waste is forgotten. *)
InvariantsWithoutMass ==
  { {"labor", "spent labor"}, {"time", "spent time"}, {"active", "solved"} }

Invariants ==
  { {"wood", "chair", "waste"}, {"labor", "spent labor"}, {"time", "spent time"},
    {"active", "solved"} }

Candidates(w, target) ==
  {x \in {BasicChair, EfficientBatch, CounterfeitChair, Finish(target)} : Accepted(w, x, Invariants)}

(* The worlds a search for the goal goes through. *)
Explored(w, order) ==
  Branches(w, LAMBDA v : {Settled(v, x) : x \in Candidates(v, order.target)}, order.time + 1)

Goal == At(shop, One(<<"solved">>))

MinimizeWaste(w, order) ==
  Min({Amount(v, <<shop, waste>>) : v \in {u \in Explored(w, order) : Matches(u, Goal)}})

-----------------------------------------------------------------------------
Init ==
  \E size \in ShopSizes : world = [order |-> Order(size), balances |-> Initial(Order(size))]

Next ==
  \E x \in Candidates(world.balances, world.order.target) :
    world' = [world EXCEPT !.balances = Settled(@, x)]

-----------------------------------------------------------------------------
Holds(asset) == Amount(world.balances, <<shop, asset>>)

(* How often each recipe can be used, whatever the order.                   *)
Plans(order) ==
  {p \in (0 .. order.time) \X (0 .. order.time) :
     /\ 2 * p[1] + 3 * p[2] <= order.wood
     /\ p[1] + 2 * p[2] <= order.labor
     /\ p[1] + 3 * p[2] <= order.time}

(* Every reachable state is one of a plan made of the two honest recipes,   *)
(* and it is finished only with the chairs ordered: the counterfeit recipe  *)
(* never gets past the invariants (workshop.rs:119).                        *)
OnlyHonestPlans ==
  /\ \E p \in Plans(world.order) :
       /\ Holds(chair) = p[1] + 2 * p[2] /\ Holds(waste) = p[1] + p[2]
       /\ Holds(wood) = world.order.wood - 2 * p[1] - 3 * p[2]
       /\ Holds(labor) = world.order.labor - p[1] - 2 * p[2]
       /\ Holds(spentTime) = p[1] + 3 * p[2]
  /\ Holds(<<"solved">>) = 1 => Holds(chair) >= world.order.target

(* The least waste the search reports is the least of all plans that make   *)
(* enough chairs (workshop.rs:177).                                         *)
WasteIsLeast ==
  world.balances = Initial(world.order) =>
    MinimizeWaste(world.balances, world.order)
      = Min({p[1] + p[2] : p \in {q \in Plans(world.order) : q[1] + 2 * q[2] >= world.order.target}})
=============================================================================

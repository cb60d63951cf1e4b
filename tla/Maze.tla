-------------------------------- MODULE Maze --------------------------------
(***************************************************************************)
(* A maze with a key and a locked gate.  The passages, the lock and the     *)
(* distances the solver is guided by are assets of the environment.         *)
(***************************************************************************)
EXTENDS RateBook

CONSTANT MazeSizes      \* the fixtures: "micro", "showcase", "stress"

VARIABLE world          \* [size, balances]

agent == "agent"
environment == "environment"
energy == <<"energy">>
time == <<"time">>
spentEnergy == <<"spent energy">>
key == <<"key">>
open == <<"open">>
active == <<"active">>

MicroEdges ==
  { <<"start", "key room", 2, FALSE>>, <<"key room", "gate", 2, TRUE>>, <<"gate", "exit", 2, FALSE>>,
    <<"start", "detour", 4, FALSE>>, <<"detour", "exit", 5, FALSE>> }

ShowcaseEdges ==
  { <<"start", "atrium", 1, FALSE>>, <<"atrium", "library", 1, FALSE>>,
    <<"library", "key room", 1, FALSE>>, <<"key room", "library", 1, FALSE>>,
    <<"library", "gallery", 1, FALSE>>, <<"atrium", "gallery", 4, FALSE>>,
    <<"gallery", "gate", 1, FALSE>>, <<"gate", "vault", 1, TRUE>>, <<"vault", "exit", 1, FALSE>>,
    <<"start", "garden", 3, FALSE>>, <<"garden", "market", 2, FALSE>>,
    <<"market", "canal", 2, FALSE>>, <<"canal", "bridge", 2, FALSE>>, <<"bridge", "exit", 2, FALSE>>,
    <<"market", "gallery", 3, FALSE>>, <<"gallery", "market", 2, FALSE>>,
    <<"garden", "workshop", 3, FALSE>>, <<"workshop", "canal", 2, FALSE>>,
    <<"start", "tunnel", 6, FALSE>>, <<"tunnel", "workshop", 3, FALSE>>,
    <<"tunnel", "bridge", 4, FALSE>>, <<"bridge", "canal", 2, FALSE>>,
    <<"start", "detour", 8, FALSE>>, <<"detour", "exit", 7, FALSE>> }

StressEdges ==
  ShowcaseEdges \cup
  { <<"atrium", "archive", 2, FALSE>>, <<"archive", "scriptorium", 1, FALSE>>,
    <<"scriptorium", "key room", 1, FALSE>>, <<"key room", "scriptorium", 1, FALSE>>,
    <<"scriptorium", "archive", 1, FALSE>>, <<"archive", "gallery", 2, FALSE>>,
    <<"market", "docks", 2, FALSE>>, <<"docks", "foundry", 2, FALSE>>,
    <<"foundry", "tower", 2, FALSE>>, <<"tower", "observatory", 2, FALSE>>,
    <<"observatory", "exit", 3, FALSE>>, <<"foundry", "canal", 2, FALSE>>,
    <<"tunnel", "ridge", 2, FALSE>>, <<"ridge", "ruins", 2, FALSE>>,
    <<"ruins", "chapel", 2, FALSE>>, <<"chapel", "bridge", 2, FALSE>> }

Edges(size) ==
  CASE size = "micro" -> MicroEdges [] size = "showcase" -> ShowcaseEdges [] size = "stress" -> StressEdges

(* What is left to the exit, as the fixtures declare it. *)
Distances(size) ==
  IF size = "micro"
  THEN ("start" :> 6) @@ ("key room" :> 4) @@ ("gate" :> 2) @@ ("detour" :> 5) @@ ("exit" :> 0)
  ELSE ("start" :> 6) @@ ("atrium" :> 5) @@ ("library" :> 4) @@ ("key room" :> 5) @@ ("gallery" :> 3)
         @@ ("gate" :> 2) @@ ("vault" :> 1) @@ ("garden" :> 8) @@ ("market" :> 6) @@ ("canal" :> 4)
         @@ ("bridge" :> 2) @@ ("workshop" :> 6) @@ ("tunnel" :> 6) @@ ("detour" :> 7) @@ ("exit" :> 0)
         @@ IF size = "showcase" THEN <<>>
            ELSE ("archive" :> 5) @@ ("scriptorium" :> 6) @@ ("docks" :> 8) @@ ("foundry" :> 6)
                   @@ ("tower" :> 5) @@ ("observatory" :> 3) @@ ("ridge" :> 8) @@ ("ruins" :> 6)
                   @@ ("chapel" :> 4)

EnergyOf(size) == CASE size = "micro" -> 9 [] size = "showcase" -> 18 [] size = "stress" -> 24
TimeOf(size)   == CASE size = "micro" -> 6 [] size = "showcase" -> 14 [] size = "stress" -> 18
KeyAt == "key room"
UnlockAt(size) == IF size = "micro" THEN "key room" ELSE "gate"

Initial(size) ==
  Sparse(At(agent, One(<<"at", "start">>) @@ energy :> EnergyOf(size) @@ time :> TimeOf(size) @@ One(active))
    @@ At(environment,
          [asset \in {<<"edge", e[1], e[2]>> : e \in Edges(size)} |-> 1]
            @@ One(key) @@ One(<<"locked">>) @@ One(<<"target", "exit">>)
            @@ [asset \in {"distance"} \X DOMAIN Distances(size) |-> Distances(size)[asset[2]]]))

(* Mutant: the passage behind the gate asks for no open gate. *)
MoveThroughLock(edge) ==
  Exchange(TRUE,
    At(agent, One(<<"at", edge[1]>>) @@ energy :> edge[3] @@ One(time)),
    At(agent, One(<<"at", edge[2]>>) @@ spentEnergy :> edge[3] @@ One(<<"spent time">>)),
    At(agent, One(active)) @@ At(environment, One(<<"edge", edge[1], edge[2]>>)))

Move(edge) ==
  Exchange(TRUE,
    At(agent, One(<<"at", edge[1]>>) @@ energy :> edge[3] @@ One(time)),
    At(agent, One(<<"at", edge[2]>>) @@ spentEnergy :> edge[3] @@ One(<<"spent time">>)),
    At(agent, One(active))
      @@ At(environment, One(<<"edge", edge[1], edge[2]>>) @@ IF edge[4] THEN One(open) ELSE NoGoods))

TakeKey ==
  Exchange(TRUE,
    At(agent, One(time)) @@ At(environment, One(key)),
    At(agent, One(<<"spent time">>) @@ One(key)),
    At(agent, One(<<"at", KeyAt>>) @@ One(active)))

UnlockDoor(size) ==
  Exchange(TRUE,
    At(agent, One(key) @@ One(time)) @@ At(environment, One(<<"locked">>)),
    At(agent, One(<<"spent time">>)) @@ At(environment, One(open)),
    At(agent, One(<<"at", UnlockAt(size)>>) @@ One(active)))

Finish ==
  Exchange(TRUE,
    At(agent, One(active) @@ One(time)),
    At(agent, One(<<"solved">>) @@ One(<<"spent time">>)),
    At(agent, One(<<"at", "exit">>)) @@ At(environment, One(<<"target", "exit">>)))

Invariants == {{"at"}, {"energy", "spent energy"}, {"time", "spent time"}, {"active", "solved"}}

Candidates(w, size) ==
  {x \in {Move(e) : e \in Edges(size)} \cup {TakeKey, UnlockDoor(size), Finish} :
     Accepted(w, x, Invariants)}

Position(w, size) ==
  CHOOSE node \in DOMAIN Distances(size) : Amount(w, <<agent, <<"at", node>>>>) > 0

(* Mutant: opening the gate is counted as part of the way. *)
HeuristicWithLock(w, size) ==
  Amount(w, <<environment, <<"distance", Position(w, size)>>>>) + Amount(w, <<environment, <<"locked">>>>)

Heuristic(w, size) == Amount(w, <<environment, <<"distance", Position(w, size)>>>>)

-----------------------------------------------------------------------------
Init == \E size \in MazeSizes : world = [size |-> size, balances |-> Initial(size)]

Next ==
  \E x \in Candidates(world.balances, world.size) :
    world' = [world EXCEPT !.balances = Settled(@, x)]

-----------------------------------------------------------------------------
Holds(account, asset) == Amount(world.balances, <<account, asset>>)

(* There is one key, in the room, in hand, or used up in the gate, although *)
(* no declared invariant weighs it; whoever is behind the gate has opened   *)
(* it (maze.rs:366, 337).                                                   *)
GateTakesTheKey ==
  /\ Holds(environment, key) + Holds(agent, key) + Holds(environment, open) = 1
  /\ Holds(environment, <<"locked">>) + Holds(environment, open) = 1
  /\ Position(world.balances, world.size) = "vault" \/ (world.size = "micro" /\ Position(world.balances, world.size) = "gate")
       => Holds(environment, open) = 1

(* What an exchange spends is at least what it brings the declared distance *)
(* down by, and a solved maze is at distance zero: A* is guided by a bound  *)
(* that is never too high (maze.rs:437).                                    *)
GuidanceFallsByTheCost ==
  /\ Heuristic(world.balances, world.size)
       <= Heuristic(world'.balances, world.size)
            + Amount(world'.balances, <<agent, spentEnergy>>) - Holds(agent, spentEnergy)
  /\ Amount(world'.balances, <<agent, <<"solved">>>>) = 1
       => Heuristic(world'.balances, world.size) = 0
=============================================================================

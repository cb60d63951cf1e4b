------------------------------- MODULE Sokoban -------------------------------
(***************************************************************************)
(* Sokoban.  A cell is an account with one occupant: the player, a crate    *)
(* with an identity, or nothing.  A push moves what three cells hold at     *)
(* once.  The world keeps the occupant of every floor cell, in place of its *)
(* sparse basket; the identities and the terrain of the cells never change. *)
(***************************************************************************)
EXTENDS RateBook

CONSTANT Warehouses     \* the boards: "micro", "showcase", "stress", "deadlocked"

VARIABLE world          \* [name, at, solved]; `at` says what each floor cell holds

player == <<"player">>
empty == <<"empty">>

(* Cells are <<x, y>>; crates are numbered in the order they are drawn.     *)
Board(name) ==
  CASE name = "micro" ->
         [width |-> 7, height |-> 3, inner |-> {}, player |-> <<1, 1>>,
          crates |-> (0 :> <<3, 1>>), goals |-> {<<4, 1>>}]
    [] name = "deadlocked" ->
         [width |-> 7, height |-> 4, inner |-> {}, player |-> <<3, 1>>,
          crates |-> (0 :> <<1, 1>>), goals |-> {<<5, 1>>}]
    [] name = "showcase" ->
         [width |-> 9, height |-> 7, inner |-> {<<4, 5>>}, player |-> <<4, 4>>,
          crates |-> (0 :> <<3, 3>> @@ 1 :> <<5, 3>>), goals |-> {<<2, 1>>, <<6, 1>>}]
    [] name = "stress" ->
         [width |-> 10, height |-> 8, inner |-> {<<3, 5>>, <<4, 5>>}, player |-> <<4, 4>>,
          crates |-> (0 :> <<2, 3>> @@ 1 :> <<3, 3>> @@ 2 :> <<5, 3>>),
          goals |-> {<<2, 1>>, <<5, 1>>, <<7, 1>>}]

FloorOf(board) == ((1 .. board.width - 2) \X (1 .. board.height - 2)) \ board.inner

Initial(name) ==
  LET board == Board(name)
  IN  [cell \in FloorOf(board) |->
         IF cell = board.player THEN player
         ELSE IF \E id \in DOMAIN board.crates : board.crates[id] = cell
              THEN <<"crate", CHOOSE id \in DOMAIN board.crates : board.crates[id] = cell>>
              ELSE empty]

(* Around the floor there is nothing but walls.                             *)
IsWall(board, cell) == cell \notin FloorOf(board)

Neighbors(cell) ==
  {<<cell[1] - 1, cell[2]>>, <<cell[1] + 1, cell[2]>>, <<cell[1], cell[2] - 1>>, <<cell[1], cell[2] + 1>>}

(* The cell behind `middle`, seen from `from`. *)
Beyond(from, middle) == <<2 * middle[1] - from[1], 2 * middle[2] - from[2]>>

Manhattan(left, right) ==
  (IF left[1] < right[1] THEN right[1] - left[1] ELSE left[1] - right[1])
    + (IF left[2] < right[2] THEN right[2] - left[2] ELSE left[2] - right[2])

IsCrate(occupant) == occupant \notin {player, empty}

CrateCells(at) == {cell \in DOMAIN at : IsCrate(at[cell])}

-----------------------------------------------------------------------------
(* The rates.  What a move or a push consumes of a cell is its occupant, so *)
(* that a cell that holds something else does not cover it.                 *)

Holding(at, occupant) == {cell \in DOMAIN at : at[cell] = occupant}

Moves(at) ==
  UNION {{<<from, to>> : to \in {c \in Neighbors(from) \cap DOMAIN at : at[c] = empty}} :
           from \in Holding(at, player)}

Pushes(at) ==
  UNION {{<<from, middle>> : middle \in
            {c \in Neighbors(from) \cap CrateCells(at) :
               Beyond(from, c) \in DOMAIN at /\ at[Beyond(from, c)] = empty}} :
           from \in Holding(at, player)}

(* One rate for every assignment of the crates to the goals.                *)
Finishes(board, at) ==
  {assigned \in [DOMAIN board.crates -> board.goals] :
     \A id \in DOMAIN board.crates : at[assigned[id]] = <<"crate", id>>}

Moved(at, from, to) == [at EXCEPT ![from] = empty, ![to] = player]

Pushed(at, from, middle) ==
  [at EXCEPT ![from] = empty, ![middle] = player, ![Beyond(from, middle)] = at[middle]]

-----------------------------------------------------------------------------
(* What the solvers propose: moves and pushes of the player that is found,  *)
(* and a finish that lists the crates in the order of the cells they are    *)
(* on, by rows.  Rates list them in the order of the crates.                *)

PlayerCell(at) == CHOOSE cell \in DOMAIN at : at[cell] = player

ProposedMoves(at) == {<<PlayerCell(at), to>> : to \in {c \in Neighbors(PlayerCell(at)) \cap DOMAIN at : at[c] = empty}}

ProposedPushes(at) ==
  {<<PlayerCell(at), middle>> :
     middle \in {c \in Neighbors(PlayerCell(at)) \cap CrateCells(at) :
                   LET to == Beyond(PlayerCell(at), c) IN to \in DOMAIN at /\ at[to] = empty}}

Before(left, right) == left[2] < right[2] \/ (left[2] = right[2] /\ left[1] < right[1])

InOrder(assigned) ==
  \A left, right \in DOMAIN assigned : left < right => Before(assigned[left], assigned[right])

(* Mutant: the crates are listed by their identities. *)
ProposedFinishesByCrate(board, at) ==
  IF CrateCells(at) \subseteq board.goals THEN Finishes(board, at) ELSE {}

ProposedFinishes(board, at) ==
  IF CrateCells(at) \subseteq board.goals THEN {a \in Finishes(board, at) : InOrder(a)} ELSE {}

(* Mutant: the way of the player to the crates is added. *)
DistanceWithApproach(board, at) ==
  MapThenSumSet(LAMBDA cell : Min({Manhattan(cell, goal) : goal \in board.goals}), CrateCells(at))
    + Min({Manhattan(PlayerCell(at), cell) : cell \in CrateCells(at)})

(* The nearest goal of every crate, walls and other crates aside.           *)
CrateGoalDistance(board, at) ==
  MapThenSumSet(LAMBDA cell : Min({Manhattan(cell, goal) : goal \in board.goals}), CrateCells(at))

(* Mutant: one wall is enough. *)
IsDeadNextToWall(board, cell) ==
  /\ ~IsWall(board, cell) /\ cell \notin board.goals
  /\ \E next \in Neighbors(cell) : IsWall(board, next)

(* A corner that is not a goal. *)
IsDeadSquare(board, cell) ==
  LET wall(dx, dy) == IsWall(board, <<cell[1] + dx, cell[2] + dy>>)
  IN  /\ ~IsWall(board, cell) /\ cell \notin board.goals
      /\ wall(-1, 0) \/ wall(1, 0)
      /\ wall(0, -1) \/ wall(0, 1)

-----------------------------------------------------------------------------
Init == \E name \in Warehouses : world = [name |-> name, at |-> Initial(name), solved |-> FALSE]

Move ==
  \E m \in ProposedMoves(world.at) : world' = [world EXCEPT !.at = Moved(@, m[1], m[2])]

Push ==
  \E p \in ProposedPushes(world.at) : world' = [world EXCEPT !.at = Pushed(@, p[1], p[2])]

Finish ==
  /\ ProposedFinishes(Board(world.name), world.at) # {}
  /\ world' = [world EXCEPT !.solved = TRUE]

Next == ~world.solved /\ (Move \/ Push \/ Finish)

-----------------------------------------------------------------------------
(* The solvers leave out nothing the kernel would accept, with one          *)
(* exception: crates that stand on the goals in another order than their    *)
(* identities have no finish among the proposals, although the rate for     *)
(* that assignment is installed and covered (sokoban.rs:157, 382).          *)
OnlyCrossedFinishesAreMissed ==
  /\ ProposedMoves(world.at) = Moves(world.at) /\ ProposedPushes(world.at) = Pushes(world.at)
  /\ \A assigned \in Finishes(Board(world.name), world.at) :
       assigned \in ProposedFinishes(Board(world.name), world.at) <=> InOrder(assigned)

(* A crate in a dead corner is there for good (sokoban.rs:170, the evidence *)
(* that a legal push has lost the game).                                    *)
DeadCrateStays ==
  \A cell \in CrateCells(world.at) : IsDeadSquare(Board(world.name), cell) => world'.at[cell] = world.at[cell]

(* One exchange brings the crates at most one step nearer, and a solved     *)
(* puzzle is at distance zero: A* never overestimates what is left          *)
(* (sokoban.rs:204).                                                        *)
DistanceFallsByOne ==
  /\ CrateGoalDistance(Board(world.name), world.at) <= CrateGoalDistance(Board(world.name), world'.at) + 1
  /\ world'.solved => CrateGoalDistance(Board(world.name), world'.at) = 0
=============================================================================

---------------------------- MODULE ConnectFour ----------------------------
(***************************************************************************)
(* Connect Four on the compact board, whose moves carry line counters, and  *)
(* on the standard one, where a win is claimed with a certificate of four   *)
(* cells.  Identity assets never move and every proposal binds them to the  *)
(* account they name, so that they are left out.                            *)
(***************************************************************************)
EXTENDS RateBook

CONSTANT Openings       \* the positions play starts from, by name

VARIABLE world          \* [board, balances]

Players == {"red", "yellow"}
OtherPlayer(player) == IF player = "red" THEN "yellow" ELSE "red"

game == <<"game">>
result == <<"result">>
empty == <<"empty">>
full == <<"column full">>
draw == <<"draw">>
Piece(player) == <<"piece", player>>
NextRow(row) == <<"next row", row>>
Turn(player) == <<"turn", player>>
Pending(player) == <<"pending", player>>
Winner(player) == <<"winner", player>>
LineCount(player, line, count) == <<"count", player, line, count>>

Column(column) == <<"column", column>>
Cell(column, row) == <<"cell", column, row>>

Width(board) == IF board = "compact" THEN 4 ELSE 7
Height(board) == IF board = "compact" THEN 4 ELSE 6
Columns(board) == 0 .. Width(board) - 1
Rows(board) == 0 .. Height(board) - 1

Lines == ({"row", "column"} \X (0 .. 3)) \cup {<<"main diagonal", 0>>, <<"anti diagonal", 0>>}

(* Mutant: the anti-diagonal is one column off. *)
LinesOfShifted(column, row) ==
  {<<"row", row>>, <<"column", column>>}
    \cup {<<"main diagonal", 0>> : d \in {0} \cap {column - row}}
    \cup {<<"anti diagonal", 0>> : d \in {4} \cap {column + row}}

LinesOf(column, row) ==
  {<<"row", row>>, <<"column", column>>}
    \cup {<<"main diagonal", 0>> : d \in {0} \cap {column - row}}
    \cup {<<"anti diagonal", 0>> : d \in {3} \cap {column + row}}

(* A new board: red moves first. *)
Fresh(board) ==
  At(game, One(Turn("red")) @@
     IF board = "compact"
     THEN [c \in {LineCount(p, l, 0) : p \in Players, l \in Lines} |-> 1] ELSE NoGoods)
  @@ [cell \in {<<Column(c), NextRow(0)>> : c \in Columns(board)} |-> 1]
  @@ [cell \in {<<Cell(c, r), empty>> : c \in Columns(board), r \in Rows(board)} |-> 1]

Above(board, row) == IF row + 1 = Height(board) THEN full ELSE NextRow(row + 1)

(* A piece lands in the next row of its column. *)
Drop(board, player, column, row, consumed, produced, won) ==
  Exchange(TRUE,
    At(game, One(Turn(player)) @@ consumed) @@ At(Column(column), One(NextRow(row)))
      @@ At(Cell(column, row), One(empty)),
    At(game, produced) @@ At(Column(column), One(Above(board, row)))
      @@ At(Cell(column, row), One(Piece(player))) @@ At(result, won),
    NoGoods)

(* The compact move for the counts the lines through its cell stand at.     *)
Move(player, column, row, counts) ==
  LET through == LinesOf(column, row)
      wins    == \E l \in through : counts[l] = 3
  IN  Drop("compact", player, column, row,
        [a \in {LineCount(player, l, counts[l]) : l \in through} |-> 1],
        [a \in {LineCount(player, l, counts[l] + 1) : l \in through} |-> 1]
          @@ (IF wins THEN NoGoods ELSE One(Turn(OtherPlayer(player)))),
        IF wins THEN One(Winner(player)) ELSE NoGoods)

AllFull(board) == [cell \in {<<Column(c), full>> : c \in Columns(board)} |-> 1]

Draw(player) ==
  Exchange(TRUE, At(game, One(Turn(player))), At(result, One(draw)), AllFull("compact"))

StandardMove(player, column, row) ==
  Drop("standard", player, column, row, NoGoods, One(Pending(player)), NoGoods)

Continue(player) ==
  Exchange(TRUE, At(game, One(Pending(player))), At(game, One(Turn(OtherPlayer(player)))), NoGoods)

ClaimWin(player, segment) ==
  Exchange(TRUE, At(game, One(Pending(player))), At(result, One(Winner(player))),
           [cell \in {<<Cell(c[1], c[2]), Piece(player)>> : c \in segment} |-> 1])

StandardDraw(player) ==
  Exchange(TRUE, At(game, One(Pending(player))), At(result, One(draw)), AllFull("standard"))

Run(column, row, dx, dy) == {<<column + n * dx, row + n * dy>> : n \in 0 .. 3}

(* Mutant: falling diagonals are forgotten. *)
RisingSegments ==
  {Run(c, r, 1, 0) : c \in 0 .. 3, r \in 0 .. 5} \cup {Run(c, r, 0, 1) : c \in 0 .. 6, r \in 0 .. 2}
    \cup {Run(c, r, 1, 1) : c \in 0 .. 3, r \in 0 .. 2}

WinningSegments ==
  {Run(c, r, 1, 0) : c \in 0 .. 3, r \in 0 .. 5} \cup {Run(c, r, 0, 1) : c \in 0 .. 6, r \in 0 .. 2}
    \cup {Run(c, r, 1, 1) : c \in 0 .. 3, r \in 0 .. 2}
    \cup {Run(c, r + 3, 1, -1) : c \in 0 .. 3, r \in 0 .. 2}

Invariants ==
  { {"empty", "piece"}, {"column full", "next row"}, {"turn", "pending", "winner", "draw"}, {"count"} }

-----------------------------------------------------------------------------
Held(balances, account, asset) == Amount(balances, <<account, asset>>) > 0

Movers(balances) == {p \in Players : Held(balances, game, Turn(p))}

(* What the line counters of a player stand at. *)
CurrentCounts(balances, player, column, row) ==
  [l \in LinesOf(column, row) |->
     CHOOSE n \in 0 .. 4 : Held(balances, game, LineCount(player, l, n))]

Landings(board, balances) ==
  {c \in Columns(board) \X Rows(board) : Held(balances, Column(c[1]), NextRow(c[2]))}

CompactCandidates(balances) ==
  LET moves == {Move(p, c[1], c[2], CurrentCounts(balances, p, c[1], c[2])) :
                  p \in Movers(balances), c \in Landings("compact", balances)}
  IN  {x \in (IF moves = {} THEN {Draw(p) : p \in Movers(balances)} ELSE moves) : Applicable(balances, x)}

(* A claim comes before a draw, and a draw before going on. *)
Adjudication(balances, player) ==
  LET claims == {x \in {ClaimWin(player, s) : s \in WinningSegments} : Applicable(balances, x)}
  IN  IF claims # {} THEN claims
      ELSE IF Covered(balances, StandardDraw(player)) THEN {StandardDraw(player)} ELSE {Continue(player)}

StandardCandidates(balances) ==
  LET waiting == {p \in Players : Held(balances, game, Pending(p))}
  IN  IF waiting # {} THEN UNION {Adjudication(balances, p) : p \in waiting}
      ELSE {StandardMove(p, c[1], c[2]) : p \in Movers(balances), c \in Landings("standard", balances)}

Candidates(board, balances) ==
  IF board = "standard" THEN StandardCandidates(balances) ELSE CompactCandidates(balances)

(* Red's and yellow's value of an ended game, in halves. *)
TerminalValues(balances) ==
  CASE Held(balances, result, Winner("red")) -> <<2, 0>>
    [] Held(balances, result, Winner("yellow")) -> <<0, 2>>
    [] Held(balances, result, draw) -> <<1, 1>>
    [] OTHER -> <<>>

-----------------------------------------------------------------------------
(* Positions with eight or ten cells left (bound).  Between two moves of    *)
(* the opening of a standard board play goes on.                            *)
Pair(a, b) == <<a, b, a, b, b, a, b, a>>

Opening(name) ==
  CASE name = "compact: two columns" -> Pair(0, 1)
    [] name = "compact: three high" -> <<0, 1, 2, 3, 1, 0, 3, 2>>
    [] name = "compact: red threatens" -> <<0, 0, 1, 1, 2, 2>>
    [] name = "standard: every direction" ->
         <<1, 3, 0, 0, 2, 4, 0, 1, 0, 3, 3, 6, 3, 1, 1, 1, 3, 4, 5, 6, 1, 0, 4, 4, 4, 4, 5, 5, 5, 3, 6, 0, 2, 2>>

BoardOf(name) ==
  IF name \in {"compact: two columns", "compact: three high", "compact: red threatens"}
  THEN "compact" ELSE "standard"

Position(name) ==
  LET board == BoardOf(name)
      moves == Opening(name)
      played(balances, column) ==
        LET landed == Settled(balances, CHOOSE x \in Candidates(board, balances) :
                                          <<Column(column), full>> \in DOMAIN x.produce
                                            \/ \E r \in Rows(board) : <<Column(column), NextRow(r)>> \in DOMAIN x.produce)
        IN  IF board = "standard"
            THEN Settled(landed, CHOOSE x \in Candidates(board, landed) : TRUE) ELSE landed
      after[n \in 0 .. Len(moves)] ==
        IF n = 0 THEN NoGoods @@ Fresh(board)
        ELSE LET before == after[n - 1]
             IN  IF before = NoGoods THEN before ELSE played(before, moves[n])
  IN  after[Len(moves)]

Init == \E name \in Openings : world = [board |-> BoardOf(name), balances |-> Position(name)]

Next ==
  \E x \in Candidates(world.board, world.balances) :
    /\ Accepted(world.balances, x, Invariants)
    /\ world' = [world EXCEPT !.balances = Settled(@, x)]

-----------------------------------------------------------------------------
Holds(account, asset) == Held(world.balances, account, asset)

Occupied(player) ==
  {c \in Columns(world.board) \X Rows(world.board) : Holds(Cell(c[1], c[2]), Piece(player))}

(* Four in a row, found on the pieces alone.                                *)
HasLine(player) ==
  LET mine == Occupied(player)
  IN  \E c \in mine, d \in {<<1, 0>>, <<0, 1>>, <<1, 1>>, <<1, -1>>} :
        Run(c[1], c[2], d[1], d[2]) \subseteq mine

(* The counters by which the compact board finds its lines, and the rows at *)
(* which columns stand, agree with the pieces (connect_four.rs:940).        *)
CountersAreTheBoard ==
  /\ \A c \in Columns(world.board) :
       LET high == Cardinality({d \in Occupied("red") \cup Occupied("yellow") : d[1] = c})
       IN  IF high = Height(world.board) THEN Holds(Column(c), full) ELSE Holds(Column(c), NextRow(high))
  /\ world.board = "compact" =>
       \A p \in Players, l \in Lines, n \in 0 .. 4 :
         Holds(game, LineCount(p, l, n)) <=>
           n = Cardinality({c \in Occupied(p) : l \in
                 {<<"row", c[2]>>, <<"column", c[1]>>}
                   \cup (IF c[1] = c[2] THEN {<<"main diagonal", 0>>} ELSE {})
                   \cup (IF c[1] + c[2] = 3 THEN {<<"anti diagonal", 0>>} ELSE {})})

(* A game ends exactly as the rules say, on both boards: nobody moves past  *)
(* a line, the winner has one, a drawn board is full without one, and play  *)
(* that has not ended goes on (connect_four.rs:1138, generated_prefixes_... *)
(* compares the first five moves of the compact board).                     *)
GamesEndByTheRules ==
  LET ended == TerminalValues(world.balances)
  IN  /\ \A p \in Players : Holds(result, Winner(p)) => HasLine(p) /\ ~HasLine(OtherPlayer(p))
      /\ (\E p \in Players : Holds(game, Turn(p))) => ~HasLine("red") /\ ~HasLine("yellow")
      /\ Holds(result, draw) =>
           /\ ~HasLine("red") /\ ~HasLine("yellow")
           /\ Occupied("red") \cup Occupied("yellow") = Columns(world.board) \X Rows(world.board)
      /\ Candidates(world.board, world.balances) = {} <=> ended # <<>>
=============================================================================

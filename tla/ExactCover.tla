----------------------------- MODULE ExactCover -----------------------------
(***************************************************************************)
(* Exact cover: every element of a universe is to be covered by one of the  *)
(* selected sets.  A set is identified with its members.  Algorithm X only  *)
(* proposes; its proposals are replayed like any other.                     *)
(***************************************************************************)
EXTENDS RateBook

CONSTANT CoverProblems   \* the fixtures, see Available

VARIABLE world           \* [problem, balances]

Block(a, b, c, d) == {{a, b}, {c, d}, {a, c}, {b, d}, {a, d}, {b, c}}

Available(problem) ==
  LET first == Block("A", "B", "C", "D")
      second == Block("E", "F", "G", "H")
      third == Block("I", "J", "K", "L")
  IN  CASE problem = "micro"    -> first \ {{"A", "D"}, {"B", "C"}}
        [] problem = "showcase" -> first \cup second
        [] problem = "stress"   -> first \cup second \cup third
        [] problem = "unsatisfiable" -> {{"A", "B"}, {"A", "C"}}
        [] problem = "unsatisfiable showcase" -> first \cup {{"E", "F"}, {"E", "G"}}
        [] problem = "unsatisfiable stress" ->
             (first \cup {{"E", "F"}, {"G", "H"}, {"E", "G"}, {"F", "H"}, {"I", "K"}, {"I", "L"}})
               \ {{"A", "D"}, {"B", "C"}}

Elements(problem) ==
  CASE problem \in {"micro", "unsatisfiable"} -> {"A", "B", "C", "D"}
    [] problem \in {"showcase", "unsatisfiable showcase"} ->
         {"A", "B", "C", "D", "E", "F", "G", "H"}
    [] OTHER -> {"A", "B", "C", "D", "E", "F", "G", "H", "I", "J", "K", "L"}

matrix == "problem"
Tokens(kind, things) == [asset \in {kind} \X things |-> 1]

Initial(problem) ==
  At(matrix, Tokens("uncovered", Elements(problem)) @@ Tokens("available", Available(problem))
               @@ One(<<"progress", 0>>) @@ One(<<"active">>))

(* Mutant: the set is taken, and its elements are left alone. *)
SelectNothing(set, before) ==
  Exchange(TRUE,
    At(matrix, One(<<"available", set>>) @@ One(<<"progress", before>>)),
    At(matrix, One(<<"selected", set>>) @@ One(<<"progress", before + 2>>)),
    At(matrix, One(<<"active">>)))

Select(set, before) ==
  Exchange(TRUE,
    At(matrix, One(<<"available", set>>) @@ One(<<"progress", before>>) @@ Tokens("uncovered", set)),
    At(matrix, One(<<"selected", set>>) @@ One(<<"progress", before + 2>>) @@ Tokens("covered", set)),
    At(matrix, One(<<"active">>)))

Finish(problem) ==
  Exchange(TRUE, At(matrix, One(<<"active">>)), At(matrix, One(<<"solved">>)),
    At(matrix, Tokens("covered", Elements(problem))
                 @@ One(<<"progress", Cardinality(Elements(problem))>>)))

Invariants ==
  {{"uncovered", "covered"}, {"available", "selected"}, {"progress"}, {"active", "solved"}}

Sized(problem) == {n \in 0 .. Cardinality(Elements(problem)) - 1 : n % 2 = 0}

Candidates(w, problem) ==
  {x \in {Select(s, n) : s \in Available(problem), n \in Sized(problem)} \cup {Finish(problem)} :
     Accepted(w, x, Invariants)}

Goal == At(matrix, One(<<"solved">>))

-----------------------------------------------------------------------------
(* Algorithm X.  It branches on an element that the fewest sets cover; the  *)
(* order in which it tries the sets is left open, so that it has the set of *)
(* covers it may return.                                                    *)

Covering(element, available) == {s \in available : element \in s}

(* Mutant: the search does not come back to try another set. *)
FittingFirst(pivot, remaining, available) ==
  LET fitting == {s \in Covering(pivot, available) : s \subseteq remaining}
  IN  IF fitting = {} THEN {} ELSE {CHOOSE s \in fitting : TRUE}

Fitting(pivot, remaining, available) ==
  {s \in Covering(pivot, available) : s \subseteq remaining}

Cover(elements, sets) ==
  LET cover[remaining \in SUBSET elements, available \in SUBSET sets] ==
        IF remaining = {} THEN {{}}
        ELSE LET pivot == CHOOSE e \in remaining : \A other \in remaining :
                            Cardinality(Covering(e, available)) <= Cardinality(Covering(other, available))
             IN  UNION {{{s} \cup rest : rest \in cover[remaining \ s, {t \in available : t \cap s = {}}]} :
                          s \in Fitting(pivot, remaining, available)}
  IN  cover[elements, sets]

(* All elements of the matrix are to be covered, whatever has been already. *)
AlgorithmX(w, problem) ==
  LET available == {s \in Available(problem) : Amount(w, <<matrix, <<"available", s>>>>) > 0}
      proposed(cover) ==
        LET order == SetToSeq(cover)
        IN  [i \in DOMAIN order |-> Select(order[i], 2 * (i - 1))] \o <<Finish(problem)>>
      accepted(cover) ==
        LET run == Replay(w, proposed(cover), Invariants) IN run.ok /\ Matches(run.world, Goal)
  IN  {cover \in Cover(Elements(problem), available) : accepted(cover)}

-----------------------------------------------------------------------------
Init ==
  \E problem \in CoverProblems : world = [problem |-> problem, balances |-> Initial(problem)]

Next ==
  \E x \in Candidates(world.balances, world.problem) :
    world' = [world EXCEPT !.balances = Settled(@, x)]

-----------------------------------------------------------------------------
Taken == {s \in Available(world.problem) : Amount(world.balances, <<matrix, <<"selected", s>>>>) > 0}
CoveredElements == {e \in Elements(world.problem) : Amount(world.balances, <<matrix, <<"covered", e>>>>) > 0}

IsSolved(w) == Matches(w, Goal)

(* The sets taken never overlap, what they cover is what is entered as      *)
(* covered and counted as progress, and a solution covers everything.       *)
SelectionIsDisjoint ==
  /\ \A s, t \in Taken : s = t \/ s \cap t = {}
  /\ CoveredElements = UNION Taken
  /\ Amount(world.balances, <<matrix, <<"progress", Cardinality(CoveredElements)>>>>) = 1
  /\ IsSolved(world.balances) => CoveredElements = Elements(world.problem)

(* Algorithm X proposes something for a fixture exactly when the search     *)
(* over the economy reaches the goal, every cover it proposes replays, and  *)
(* the two find the same exact covers (exact_cover.rs:212).                 *)
AlgorithmXFindsTheCovers ==
  world.balances = Initial(world.problem) =>
    LET size == Cardinality(Elements(world.problem))
        ends == {w \in Branches(world.balances,
                                LAMBDA v : {Settled(v, x) : x \in Candidates(v, world.problem)},
                                size \div 2 + 1) : IsSolved(w)}
        covers == {{s \in Available(world.problem) : Amount(w, <<matrix, <<"selected", s>>>>) > 0} :
                     w \in ends}
    IN  AlgorithmX(world.balances, world.problem) = covers
=============================================================================

----------------------------- MODULE Leaderboards -----------------------------
(***************************************************************************)
(* The six leaderboards that the service derives from every state of a work *)
(* league.  Scores are ratios, compared without dividing; the code reduces  *)
(* them only to show them.                                                  *)
(***************************************************************************)
EXTENDS WorkLeague

Metrics(agent) ==
  [agent     |-> agent,
   value     |-> Holds(Agent(agent), value),
   completed |-> Holds(Agent(agent), completed),
   attempts  |-> Holds(Agent(agent), attempts),
   successes |-> Holds(Agent(agent), successes),
   elapsed   |-> Holds(Agent(agent), elapsedTime),
   energy    |-> Holds(Agent(agent), spentEnergy),
   material  |-> Holds(Agent(agent), materialSpent),
   waste     |-> Holds(Agent(agent), waste)]

Ratio(row, numerator, denominator, eligible) ==
  [agent |-> row.agent, numerator |-> numerator, denominator |-> Max({denominator, 1}), eligible |-> eligible]

Scalar(row, score, eligible) == Ratio(row, score, 1, eligible)

Above(left, right) == left.numerator * right.denominator > right.numerator * left.denominator

RatiosEqual(left, right) ==
  left.numerator * right.denominator = right.numerator * left.denominator

(* Those who are not eligible come last; agents settle what is left.        *)
ShownBefore(direction, left, right) ==
  IF left.eligible # right.eligible THEN left.eligible
  ELSE IF RatiosEqual(left, right) THEN left.agent < right.agent
  ELSE IF direction = "maximize" THEN Above(left, right) ELSE Above(right, left)

(* Mutant: an agent after a tie is next, not as many places down as share it. *)
RankedDensely(direction, standings) ==
  LET order == SetToSortSeq(standings, LAMBDA left, right : ShownBefore(direction, left, right))
      rank[n \in DOMAIN order] ==
        IF ~order[n].eligible THEN 0
        ELSE IF n = 1 THEN 1
        ELSE IF RatiosEqual(order[n - 1], order[n]) THEN rank[n - 1] ELSE rank[n - 1] + 1
  IN  [n \in DOMAIN order |-> [standing |-> order[n], rank |-> rank[n]]]

(* An entry gets its place for a rank, or the rank of the entry before when *)
(* that scored the same; rank 0 stands for none.                            *)
Ranked(direction, standings) ==
  LET order == SetToSortSeq(standings, LAMBDA left, right : ShownBefore(direction, left, right))
      rank[n \in DOMAIN order] ==
        IF ~order[n].eligible THEN 0
        ELSE IF n > 1 /\ RatiosEqual(order[n - 1], order[n]) THEN rank[n - 1] ELSE n
  IN  [n \in DOMAIN order |-> [standing |-> order[n], rank |-> rank[n]]]

Dominates(other, row) ==
  /\ other.completed > 0
  /\ other.value >= row.value /\ other.completed >= row.completed
  /\ other.waste <= row.waste /\ other.elapsed <= row.elapsed
  /\ \/ other.value > row.value \/ other.completed > row.completed
     \/ other.waste < row.waste \/ other.elapsed < row.elapsed

Rows == {Metrics(a) : a \in Agents(world.profile)}

ParetoStandings ==
  {Scalar(row, IF row.completed > 0 /\ \E other \in Rows \ {row} : Dominates(other, row) THEN 0 ELSE 1,
          row.completed > 0) : row \in Rows}

Board(name) ==
  CASE name = "contract value"      -> Ranked("maximize", {Scalar(r, r.value, TRUE) : r \in Rows})
    [] name = "throughput"          ->
         Ranked("maximize", {Ratio(r, r.completed, r.elapsed, r.completed > 0) : r \in Rows})
    [] name = "resource efficiency" ->
         Ranked("maximize", {Ratio(r, r.value, r.energy + r.material, r.completed > 0) : r \in Rows})
    [] name = "least waste"         ->
         Ranked("minimize", {Scalar(r, r.waste, r.completed > 0) : r \in Rows})
    [] name = "reliability"         ->
         Ranked("maximize", {Ratio(r, r.successes, r.attempts, r.attempts > 0) : r \in Rows})
    [] name = "pareto standing"     -> Ranked("maximize", ParetoStandings)

Boards ==
  {"contract value", "throughput", "resource efficiency", "least waste", "reliability", "pareto standing"}

-----------------------------------------------------------------------------
(* "Eligible entries use one-based competition ranking" (axionomy-view      *)
(* lib.rs:1073): on every board, in every state, every agent has one entry, *)
(* the rank of an eligible one counts the eligible agents above it, and the *)
(* others have no rank.  As soon as a job is done, one of the agents that   *)
(* lead in value is not dominated.                                          *)
RanksCountTheBetter ==
  /\ \A name \in Boards :
       LET entries == Board(name)
           eligible == {n \in DOMAIN entries : entries[n].standing.eligible}
           Beats(n, m) ==
             IF name = "least waste" THEN Above(entries[m].standing, entries[n].standing)
             ELSE Above(entries[n].standing, entries[m].standing)
       IN  /\ IsInjective([n \in DOMAIN entries |-> entries[n].standing.agent])
           /\ {entries[n].standing.agent : n \in DOMAIN entries} = Agents(world.profile)
           /\ \A n \in DOMAIN entries :
                entries[n].rank =
                  IF n \in eligible THEN 1 + Cardinality({m \in eligible : Beats(m, n)}) ELSE 0
  /\ (\E row \in Rows : row.completed > 0) =>
       \E n \in DOMAIN Board("pareto standing") :
          LET first == Board("pareto standing")[n]
          IN  /\ first.rank = 1
              /\ \A row \in Rows :
                   row.completed > 0 => row.value <= Holds(Agent(first.standing.agent), value)
=============================================================================

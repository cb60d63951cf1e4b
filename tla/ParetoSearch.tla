----------------------------- MODULE ParetoSearch -----------------------------
(***************************************************************************)
(* Resumable exhaustive search for the goal economies no other one          *)
(* dominates.  A goal economy is not expanded: it is projected onto its     *)
(* objectives and offered to the front.  An objective vector is a schema,   *)
(* the key and direction of each dimension, with a value per dimension; a   *)
(* value may be NaN, which is not ordered.                                  *)
(***************************************************************************)
EXTENDS SearchProblem, SequencesExt, FiniteSetsExt

CONSTANT NaN

ASSUME ObjectiveAssumption ==
  /\ NaN \notin Int
  /\ \A p \in Problems : \A w \in Worlds : LET vector == p.project[w] IN
       /\ DOMAIN vector.schema = DOMAIN vector.values
       /\ \A d \in DOMAIN vector.values : vector.values[d] \in Int \cup {NaN}
       /\ \A d \in DOMAIN vector.schema : vector.schema[d].direction \in {"Minimize", "Maximize"}
       /\ \A d, e \in DOMAIN vector.schema : vector.schema[d].key = vector.schema[e].key => d = e

VARIABLE
  pareto   \* the fields of the session, and the advance in progress, as in BfsSession

paretoVars == <<problem, pareto>>

ParetoNew ==
  [states    |-> <<[world |-> problem.initial, trace |-> <<>>]>>,
   frontier  |-> <<1>>,
   visited   |-> {problem.initial},
   results   |-> [completeness |-> "Approximate", entries |-> <<>>],
   expanded  |-> 0,
   generated |-> 0,
   outcomes  |-> 0,
   exhausted |-> FALSE,
   at |-> "returned", left |-> 0, current |-> 1, todo |-> <<>>, idle |-> MaxIdle]

ParetoInit ==
  /\ problem \in Problems
  /\ pareto = ParetoNew

-----------------------------------------------------------------------------
(* Dominance and the front. *)

Unordered(vector) == \E d \in DOMAIN vector.values : vector.values[d] = NaN

Improves(left, right, d) ==
  IF left.schema[d].direction = "Minimize"
  THEN left.values[d] < right.values[d]
  ELSE left.values[d] > right.values[d]

(* How the left outcome compares to the right one. *)
Dominance(left, right) ==
  IF left.schema # right.schema \/ Unordered(left) \/ Unordered(right) THEN "Error"
  ELSE LET improves == \E d \in DOMAIN left.schema : Improves(left, right, d)
           worsens  == \E d \in DOMAIN left.schema : Improves(right, left, d)
       IN CASE improves /\ ~worsens  -> "Dominates"
            [] ~improves /\ worsens  -> "Dominated"
            [] ~improves /\ ~worsens -> "Equal"
            [] improves /\ worsens   -> "Incomparable"

(* The entries are compared in order until one settles the matter. *)
Settling(objectives, entries) ==
  {i \in DOMAIN entries :
     Dominance(objectives, entries[i].objectives) \in {"Error", "Dominated", "Equal"}}

Insertion(objectives, entries) ==
  IF Unordered(objectives) THEN "Error"
  ELSE IF Settling(objectives, entries) = {} THEN "Inserted"
  ELSE Dominance(objectives, entries[Min(Settling(objectives, entries))].objectives)

(* Mutant: dominated entries stay. *)
FrontWithKeepingAll(entries, trace, objectives) ==
  IF Insertion(objectives, entries) # "Inserted" THEN entries
  ELSE Append(entries, [trace |-> trace, objectives |-> objectives])

(* What a newcomer dominates makes way for it. *)
Remaining(entries, objectives) ==
  FoldLeft(LAMBDA kept, e : IF Dominance(objectives, e.objectives) = "Dominates" THEN kept
                            ELSE Append(kept, e),
           <<>>, entries)

FrontWith(entries, trace, objectives) ==
  IF Insertion(objectives, entries) # "Inserted" THEN entries
  ELSE Append(Remaining(entries, objectives), [trace |-> trace, objectives |-> objectives])

-----------------------------------------------------------------------------
ParetoAdvance(units) ==
  /\ pareto.at = "returned"
  /\ ~pareto.exhausted
  /\ units = 0 => pareto.idle > 0
  /\ pareto' = [pareto EXCEPT !.at = "loop", !.left = units,
                              !.idle = IF units = 0 THEN @ - 1 ELSE @]
  /\ UNCHANGED problem

ParetoInterrupt ==
  /\ pareto.at = "loop"
  /\ pareto.left > 0
  /\ pareto.idle > 0
  /\ pareto' = [pareto EXCEPT !.at = "returned", !.idle = @ - 1]
  /\ UNCHANGED problem

Popped(at) ==
  [pareto EXCEPT !.at = at, !.left = @ - 1, !.expanded = @ + 1,
                 !.current = Head(pareto.frontier), !.frontier = Tail(@)]

PoppedWorld == pareto.states[Head(pareto.frontier)].world

ParetoTurn == pareto.at = "loop" /\ pareto.left > 0 /\ pareto.frontier # <<>>

(* A goal that cannot be compared makes the advance return an error; it has *)
(* left the frontier, and a caller may advance the session again.           *)
ParetoGoal ==
  /\ ParetoTurn
  /\ PoppedWorld \in problem.goals
  /\ LET trace      == pareto.states[Head(pareto.frontier)].trace
         objectives == problem.project[PoppedWorld]
         refused    == Insertion(objectives, pareto.results.entries) = "Error"
     IN pareto' = [Popped(IF refused THEN "returned" ELSE "loop") EXCEPT
          !.outcomes = @ + 1,
          !.results.entries = FrontWith(@, trace, objectives)]
  /\ UNCHANGED problem

ParetoExpand ==
  /\ ParetoTurn
  /\ PoppedWorld \notin problem.goals
  /\ pareto' = [Popped("scan") EXCEPT !.todo = problem.candidates[PoppedWorld]]
  /\ UNCHANGED problem

Finish(session) ==
  [session EXCEPT !.at = "returned", !.exhausted = TRUE, !.results.completeness = "Exact"]

ParetoExpandNone ==
  /\ pareto.at = "loop"
  /\ pareto.left > 0
  /\ pareto.frontier = <<>>
  /\ pareto' = Finish(pareto)
  /\ UNCHANGED problem

ParetoScanning  == pareto.at = "scan" /\ pareto.todo # <<>>
ParetoParent    == pareto.states[pareto.current]
ParetoNextWorld == Outcome(ParetoParent.world, Head(pareto.todo))

ParetoSkip ==
  /\ ParetoScanning
  /\ ParetoNextWorld \in pareto.visited \cup {Refused}
  /\ pareto' = [pareto EXCEPT !.todo = Tail(@)]
  /\ UNCHANGED problem

ParetoDiscover ==
  /\ ParetoScanning
  /\ ParetoNextWorld \notin pareto.visited \cup {Refused}
  /\ pareto' = [pareto EXCEPT
       !.todo = Tail(@), !.visited = @ \cup {ParetoNextWorld}, !.generated = @ + 1,
       !.states = Append(@, [world |-> ParetoNextWorld,
                             trace |-> Append(ParetoParent.trace, Head(pareto.todo))]),
       !.frontier = Append(@, Len(pareto.states) + 1)]
  /\ UNCHANGED problem

ParetoScanEnd ==
  /\ pareto.at = "scan"
  /\ pareto.todo = <<>>
  /\ pareto' = [pareto EXCEPT !.at = "loop"]
  /\ UNCHANGED problem

(* Mutant: a used-up budget ends the search. *)
ParetoReturnExact ==
  /\ pareto.at = "loop"
  /\ pareto.left = 0
  /\ pareto' = Finish(pareto)
  /\ UNCHANGED problem

ParetoReturn ==
  /\ pareto.at = "loop"
  /\ pareto.left = 0
  /\ pareto' = IF pareto.frontier = <<>> THEN Finish(pareto)
               ELSE [pareto EXCEPT !.at = "returned"]
  /\ UNCHANGED problem

ParetoNext ==
  \/ \E units \in Budgets : ParetoAdvance(units)
  \/ ParetoInterrupt \/ ParetoGoal \/ ParetoExpand \/ ParetoExpandNone
  \/ ParetoSkip \/ ParetoDiscover \/ ParetoScanEnd
  \/ ParetoReturn

ParetoSpec == ParetoInit /\ [][ParetoNext]_paretoVars

-----------------------------------------------------------------------------
Entries == pareto.results.entries

(* The front holds outcomes none of which dominates or repeats another,     *)
(* each with a trace that replays to an economy with those objectives.      *)
FrontIsIncomparable ==
  /\ \A i, j \in DOMAIN Entries :
       i # j => Dominance(Entries[i].objectives, Entries[j].objectives) = "Incomparable"
  /\ \A i \in DOMAIN Entries : \E w \in problem.goals :
       problem.project[w] = Entries[i].objectives /\ Replays(Entries[i].trace, w)

Covered(w) ==
  \E i \in DOMAIN Entries :
    Dominance(Entries[i].objectives, problem.project[w]) \in {"Dominates", "Equal"}

Comparable ==
  \A v, w \in problem.goals : Dominance(problem.project[v], problem.project[w]) # "Error"

(* When objectives can be compared, an exact front covers every goal that   *)
(* can be reached without passing another goal.                             *)
ExactCoversFirstGoals ==
  Comparable /\ pareto.results.completeness = "Exact" =>
    \E closed \in SUBSET Worlds :
      /\ problem.initial \in closed
      /\ \A w \in closed \ problem.goals : Successors(w) \subseteq closed
      /\ \A w \in closed \cap problem.goals : Covered(w)

(* "It becomes exact only when every reachable state has been exhausted":   *)
(* an exact front covers every goal that can be reached at all.             *)
ExactCoversEveryGoal ==
  Comparable /\ pareto.results.completeness = "Exact" =>
    \E closed \in SUBSET Worlds :
      /\ problem.initial \in closed
      /\ \A w \in closed : Successors(w) \subseteq closed
      /\ \A w \in closed \cap problem.goals : Covered(w)
=============================================================================

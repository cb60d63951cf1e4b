----------------------------- MODULE TreeProblem -----------------------------
(***************************************************************************)
(* What the two tree searches are given besides an economy, its terminal    *)
(* worlds (`goals`) and candidates: the players and who is to act, values   *)
(* of worlds, Nature's weighted exchanges, and a stream of random words.    *)
(***************************************************************************)
EXTENDS SearchProblem, Sampling

CONSTANTS
  Bonus(_, _),  \* exploration * sqrt(ln(n) / visits), in thousandths
  Games         \* the tree searches callers ask for

ASSUME GameAssumption ==
  \A p \in Games :
    /\ p.initial \in Worlds
    /\ p.candidates \in [Worlds -> Seq(Exchanges)]
    /\ p.outcome \in [Worlds -> [Exchanges -> Worlds \cup {Refused}]]
    /\ {p.players, p.iterations, p.depth} \subseteq Nat
    /\ p.actor \in [Worlds -> Nat]
    /\ p.values \in [Worlds -> Seq(Int)]
    /\ p.chance \in [Worlds -> Seq([exchange : Exchanges, weight : Nat])]
    /\ p.tape \in Seq(Nat) /\ Len(p.tape) > 0

(* The n-th ticket drawn from the seeded generator, below a total. *)
Ticket(draws, total) == problem.tape[1 + (draws % Len(problem.tape))] % total

(* Values of the wrong dimension stand for those that are not finite, too.  *)
ValidValues(values) == Len(values) = problem.players

ValidActor(actor) == actor < problem.players

ValidConfig == problem.players > 0 /\ problem.iterations > 0 /\ problem.depth > 0

(* The elements of a sequence in these places, in their order. *)
Keeping(sequence, places) ==
  LET kept[n \in 0 .. Len(sequence)] ==
        IF n = 0 THEN <<>>
        ELSE IF n \in places THEN Append(kept[n - 1], sequence[n]) ELSE kept[n - 1]
  IN  kept[Len(sequence)]

(* Proposals are kept if the kernel accepts them, each once. *)
ApplicableActions(w, proposals) ==
  Keeping(proposals, {i \in DOMAIN proposals :
                        /\ Outcome(w, proposals[i]) # Refused
                        /\ \A j \in 1 .. i - 1 : proposals[j] # proposals[i]})

(* Nature's exchange for a world whose support has one. *)
NatureMoves(w)       == problem.chance[w] # <<>>
NatureHasSupport(w)  == HasSupport(problem.chance[w])
NatureSample(w, draws) ==
  ChooseByTicket(problem.chance[w], Ticket(draws, TotalWeight(problem.chance[w])))

(* A random rollout picks any of its actions. *)
RandomAction(actions, draws) == actions[1 + Ticket(draws, Len(actions))]

(* A score above all others, for what was never visited. *)
Infinity == 1000000

AtLeastOne(n) == IF n > 1 THEN n ELSE 1

(* The last of the best, as max_by has it. *)
LastBest(score) ==
  LET best[n \in 1 .. Len(score)] ==
        IF n = 1 THEN 1
        ELSE LET last == best[n - 1] IN IF score[last] <= score[n] THEN n ELSE last
  IN  best[Len(score)]

(* More visits first, then the higher mean for the player at the root, then *)
(* the earlier edge.                                                        *)
MostVisited(visits, total) ==
  CHOOSE i \in DOMAIN visits : \A j \in DOMAIN visits \ {i} :
    \/ visits[i] > visits[j]
    \/ /\ visits[i] = visits[j]
       /\ \/ total[i] > total[j]
          \/ total[i] = total[j] /\ i < j

Plural(n, values) == [p \in DOMAIN values |-> n * values[p]]

NoValues == [p \in 1 .. problem.players |-> 0]

AddValues(totals, values) == [p \in DOMAIN totals |-> totals[p] + values[p]]

Occurrences(path, step) == Cardinality({k \in DOMAIN path : path[k] = step})
=============================================================================

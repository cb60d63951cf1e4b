---------------------------- MODULE SearchProblem ----------------------------
(***************************************************************************)
(* What a search session is given: an economy to start from, a goal, and    *)
(* the caller's policy.  A world stands for an economy up to its state key, *)
(* the balances; the outcome of an exchange is the world `apply` leaves on  *)
(* a fork, or Refused.  The caller's closures are functions of the world.   *)
(***************************************************************************)
EXTENDS Integers, Sequences, FiniteSets

CONSTANTS
  Worlds,     \* economies, told apart by their balances
  Exchanges,
  Refused,    \* the outcome of an exchange the kernel does not accept
  Problems,   \* the searches callers ask for
  Budgets,    \* work budgets callers advance by
  MaxIdle,    \* bound: advances that do no work (interrupted, or by zero units)
  MaxCost     \* largest cost, u64::MAX

ASSUME SearchAssumption ==
  /\ Refused \notin Worlds
  /\ Budgets \subseteq Nat
  /\ MaxIdle \in Nat
  /\ MaxCost \in Nat

ASSUME ProblemAssumption ==
  \A p \in Problems :
    /\ p.initial \in Worlds
    /\ p.goals \subseteq Worlds
    /\ p.candidates \in [Worlds -> Seq(Exchanges)]
    /\ p.outcome \in [Worlds -> [Exchanges -> Worlds \cup {Refused}]]

VARIABLE problem

Outcome(w, x) == problem.outcome[w][x]

(* The worlds one accepted candidate away. *)
Successors(w) ==
  {Outcome(w, problem.candidates[w][i]) : i \in DOMAIN problem.candidates[w]} \ {Refused}

Plus(left, right) == IF left + right > MaxCost THEN MaxCost ELSE left + right

-----------------------------------------------------------------------------
(* What the sessions promise is stated without referring to their state.    *)

(* Applying the exchanges of a trace in order, each accepted, leads from    *)
(* the initial world to this one.                                           *)
Replays(trace, world) ==
  \E path \in [0 .. Len(trace) -> Worlds] :
    /\ path[0] = problem.initial
    /\ path[Len(trace)] = world
    /\ \A i \in 1 .. Len(trace) : path[i] = Outcome(path[i - 1], trace[i])

(* No trace of candidates leads to a target: some set of worlds holds the   *)
(* initial one and every successor of its own, and no target.               *)
Unreachable(targets) ==
  \E closed \in SUBSET Worlds :
    /\ problem.initial \in closed
    /\ \A w \in closed : Successors(w) \subseteq closed
    /\ closed \cap targets = {}

(* No trace of fewer than n candidates leads to a target: some measure that *)
(* starts at 0 and grows by at most one per step is at least n on targets.  *)
NoneNearer(targets, n) ==
  \E distance \in [Worlds -> 0 .. n] :
    /\ distance[problem.initial] = 0
    /\ \A w \in Worlds : \A next \in Successors(w) : distance[next] <= distance[w] + 1
    /\ \A w \in targets : distance[w] = n
=============================================================================

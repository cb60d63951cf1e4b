------------------------------- MODULE Rollout -------------------------------
(***************************************************************************)
(* Speculative trajectories: a controller proposes exchanges of a fork, one *)
(* after the other, until the goal, a stop, a refusal or the horizon.       *)
(***************************************************************************)
EXTENDS RateBook

NoProposal == <<>>

RolloutResult(balances, trace, termination) ==
  [world |-> balances, trace |-> trace, termination |-> termination]

(* One round: the controller's offer, NoProposal or a sequence of the one   *)
(* it proposes, is applied, and the goal looked for.                        *)
RolloutRound(before, offer, required, invariants) ==
  IF offer = NoProposal THEN [before EXCEPT !.termination = "stopped"]
  ELSE IF ~Accepted(before.world, offer[1], invariants) THEN [before EXCEPT !.termination = "rejected"]
  ELSE LET after == Settled(before.world, offer[1])
       IN  RolloutResult(after, Append(before.trace, offer[1]),
             IF Matches(after, required) THEN "terminal" ELSE "running")

RolloutStart(balances, required) ==
  RolloutResult(balances, <<>>, IF Matches(balances, required) THEN "terminal" ELSE "running")

RunRollout(balances, required, maxSteps, invariants, controller(_)) ==
  LET step[n \in 0 .. maxSteps] ==
        IF n = 0 THEN RolloutStart(balances, required)
        ELSE LET before == step[n - 1]
             IN  IF before.termination = "running"
                 THEN RolloutRound(before, controller(before.world), required, invariants)
                 ELSE before
      last == step[maxSteps]
  IN  IF last.termination = "running" THEN [last EXCEPT !.termination = "horizon"] ELSE last
=============================================================================

------------------------------ MODULE Sampling ------------------------------
(***************************************************************************)
(* Selection among weighted proposals by a ticket below their total weight. *)
(***************************************************************************)
EXTENDS Integers, Sequences

CONSTANT MaxWeight      \* the largest total that fits (u64)

ASSUME MaxWeightAssumption == MaxWeight \in Nat

Weighted(exchange, weight) == [exchange |-> exchange, weight |-> weight]

(* The weight of the first n outcomes. *)
WeightUpTo(outcomes, n) ==
  LET sum[k \in 0 .. n] == IF k = 0 THEN 0 ELSE sum[k - 1] + outcomes[k].weight
  IN  sum[n]

TotalWeight(outcomes) == WeightUpTo(outcomes, Len(outcomes))

(* The errors of an empty, a weightless and an overflowing support. *)
HasSupport(outcomes) == TotalWeight(outcomes) \in 1 .. MaxWeight

(* The outcome a ticket below the total weight falls on. *)
Chosen(outcomes, ticket) ==
  CHOOSE n \in DOMAIN outcomes :
    WeightUpTo(outcomes, n - 1) <= ticket /\ ticket < WeightUpTo(outcomes, n)

ChooseByTicket(outcomes, ticket) == outcomes[Chosen(outcomes, ticket)].exchange

SystematicTicket(sampleIndex, total) == sampleIndex % total
=============================================================================

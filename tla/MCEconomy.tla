----------------------------- MODULE MCEconomy -----------------------------
(***************************************************************************)
(* A two-account economy small enough to exhaust: a craft rate with a       *)
(* preserved tool, a trade between distinct roles, a gift whose roles may   *)
(* alias one account, an unconserved work log that drives balances to the   *)
(* quantity bound, a counterfeiting rate that no invariant admits, a        *)
(* constant-product swap and a state-evaluated drain.                       *)
(***************************************************************************)
EXTENDS Economy

MCAssets == {"coin", "wood", "chair", "note"}

None == [s \in MCAssets |-> 0]
Some(asset, n) == [None EXCEPT ![asset] = n]

Rate(roles, consume, produce, preserve) ==
  [roles |-> roles, consume |-> consume, produce |-> produce, preserve |-> preserve,
   distinct |-> {}, computed |-> <<>>, conditions |-> <<>>]

Amt   == [kind |-> "parameter", name |-> "amount"]
Floor == [kind |-> "parameter", name |-> "minimum"]
PoolCoin == [kind |-> "balance", role |-> "pool", asset |-> "coin"]
PoolWood == [kind |-> "balance", role |-> "pool", asset |-> "wood"]
Numerator == [kind |-> "multiply", left |-> Amt, right |-> PoolWood]
Denominator == [kind |-> "add", left |-> PoolCoin, right |-> Amt]
Out == [kind |-> "divide_floor", left |-> Numerator, right |-> Denominator]
Notes == [kind |-> "balance", role |-> "worker", asset |-> "note"]
One == [kind |-> "constant", value |-> 1]
Spare == [kind |-> "subtract", left |-> Notes, right |-> One]
Scaled == [kind |-> "minimum", left |-> Spare, right |-> [kind |-> "units"]]

MCExpressions ==
  {Amt, Floor, PoolCoin, PoolWood, Numerator, Denominator, Out, Notes, One, Spare, Scaled,
   [kind |-> "units"]}

Term(direction, role, asset, quantity) ==
  [direction |-> direction, role |-> role, asset |-> asset, quantity |-> quantity]

MCRates ==
  [craft |-> Rate({"worker", "tool"},
               [worker |-> Some("wood", 2), tool |-> None],
               [worker |-> Some("chair", 1), tool |-> None],
               [worker |-> None, tool |-> Some("wood", 1)]),
   trade |-> [Rate({"buyer", "seller"},
               [buyer |-> Some("coin", 1), seller |-> Some("chair", 1)],
               [buyer |-> Some("chair", 1), seller |-> Some("coin", 1)],
               [buyer |-> None, seller |-> None])
               EXCEPT !.distinct = {<<"buyer", "seller">>}],
   gift |-> Rate({"giver", "taker"},
               [giver |-> Some("coin", 1), taker |-> None],
               [giver |-> None, taker |-> Some("coin", 1)],
               [giver |-> None, taker |-> Some("coin", 1)]),
   log |-> Rate({"worker"}, [worker |-> None], [worker |-> Some("note", 1)],
               [worker |-> Some("coin", 1)]),
   counterfeit |-> Rate({"worker"}, [worker |-> None], [worker |-> Some("chair", 1)],
                        [worker |-> None]),
   swap |-> [Rate({"trader", "pool"},
               [trader |-> None, pool |-> None], [trader |-> None, pool |-> None],
               [trader |-> None, pool |-> None])
               EXCEPT !.distinct = {<<"pool", "trader">>},
                      !.computed = <<Term("consume", "trader", "coin", Amt),
                                     Term("consume", "pool", "wood", Out),
                                     Term("produce", "trader", "wood", Out),
                                     Term("produce", "pool", "coin", Amt)>>,
                      !.conditions = <<[left |-> Out, comparison |-> "greater_than_or_equal",
                                        right |-> Floor]>>],
   drain |-> [Rate({"worker"}, [worker |-> None], [worker |-> None], [worker |-> None])
               EXCEPT !.computed = <<Term("consume", "worker", "note", Scaled)>>]]

Exchange(rate, units, bindings) ==
  [rate |-> rate, units |-> units, bindings |-> bindings, parameters |-> <<>>]

Swap(amount, minimum, trader, pool) ==
  [Exchange("swap", 1, [trader |-> trader, pool |-> pool])
     EXCEPT !.parameters = [amount |-> amount, minimum |-> minimum]]

MCProposals ==
  {Exchange("craft", 1, [worker |-> w, tool |-> t]) : w, t \in {"ann", "bob"}}
    \cup {Exchange("trade", 1, [buyer |-> b, seller |-> s]) : b, s \in {"ann", "bob"}}
    \cup {Exchange("gift", n, [giver |-> g, taker |-> t]) : n \in {1, 2}, g, t \in {"ann", "bob"}}
    \cup {Exchange("log", n, [worker |-> "ann"]) : n \in {0, 1, 2}}
    \cup {Exchange("drain", n, [worker |-> "ann"]) : n \in {1, 2}}
    \cup {Swap(1, 1, "ann", "bob"), Swap(2, 1, "ann", "bob"), Swap(1, 0, "ann", "ghost")}
    \cup {Exchange("counterfeit", 1, [worker |-> "bob"]),
          Exchange("counterfeit", 3, [worker |-> "bob"]),
          Exchange("craft", 2, [worker |-> "bob", tool |-> "bob"]),
          Exchange("craft", 4, [worker |-> "bob", tool |-> "bob"]),
          [Exchange("log", 1, [worker |-> "ann"]) EXCEPT !.parameters = [amount |-> 1]],
          Exchange("log", 1, [worker |-> "ann", idler |-> "bob"]),
          Exchange("trade", 1, [buyer |-> "ann"]),
          Exchange("forge", 1, [worker |-> "ann"]),
          Exchange("swap", 1, [trader |-> "ann", pool |-> "bob"])}

(* Enough to move, forge, log and drain on three branches at once. *)
MCBranchProposals ==
  {Exchange("gift", 1, [giver |-> g, taker |-> t]) : g, t \in {"ann", "bob"}}
    \cup {Exchange("log", 1, [worker |-> "ann"]), Exchange("drain", 1, [worker |-> "ann"]),
          Exchange("counterfeit", 1, [worker |-> "bob"])}

MCTraces ==
  LET log   == Exchange("log", 1, [worker |-> "ann"])
      forge == Exchange("counterfeit", 1, [worker |-> "bob"])
      gift  == Exchange("gift", 1, [giver |-> "ann", taker |-> "bob"])
  IN  {<<>>, <<log, gift>>, <<log, forge, gift>>, <<gift, gift, gift>>}

MCBranchEndowment ==
  [ann |-> Some("coin", 2), bob |-> Some("coin", 1)]

MCEndowment ==
  [ann |-> [None EXCEPT !["coin"] = 2],
   bob |-> [None EXCEPT !["coin"] = 2, !["wood"] = 3]]

(* Money is conserved; so is material, a chair weighing two boards. *)
MCInvariants == <<Some("coin", 1), [None EXCEPT !["wood"] = 1, !["chair"] = 2]>>

(* The owner alone, without branches: the state space of one economy. *)
OwnerSpec == Init /\ [][\E x \in Proposals : Apply(x)]_vars
=============================================================================

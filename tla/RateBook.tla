------------------------------ MODULE RateBook ------------------------------
(***************************************************************************)
(* The kernel as the reference problems use it: worlds with the balances of *)
(* one fixture, and exchanges whose roles are bound to accounts.  `Economy` *)
(* models the kernel in full; a proposal of the right structure is all that *)
(* is left of one here.                                                     *)
(*                                                                         *)
(* A basket is a sparse function from assets to positive amounts, and a     *)
(* world one from cells <<account, asset>>: two worlds are equal when the   *)
(* state keys of the code are.                                              *)
(***************************************************************************)
EXTENDS Integers, Sequences, FiniteSets, FiniteSetsExt, SequencesExt, TLC

NoGoods == <<>>

One(asset) == asset :> 1

(* The goods of one account. *)
At(account, basket) == [cell \in {account} \X DOMAIN basket |-> basket[cell[2]]]

Amount(goods, key) == IF key \in DOMAIN goods THEN goods[key] ELSE 0

(* TLC evaluates @@ at once, but a bracketed function anew at each use.     *)
Sparse(goods) == NoGoods @@ [key \in {k \in DOMAIN goods : goods[k] # 0} |-> goods[key]]

(* Goods of several roles, which may be bound to one account. *)
Together(left, right) ==
  [key \in DOMAIN left \cup DOMAIN right |-> Amount(left, key) + Amount(right, key)]

(* A bound exchange; `when` says whether the conditions of its rate hold.   *)
Exchange(when, consume, produce, preserve) ==
  [when |-> when, consume |-> Sparse(consume), produce |-> Sparse(produce),
   preserve |-> Sparse(preserve)]

Total(goods, weight(_)) ==
  MapThenSumSet(LAMBDA cell : weight(cell[2]) * goods[cell], DOMAIN goods)

(* The gross amounts an exchange moves weigh the same on both sides.        *)
Balanced(x, weight(_)) == Total(x.consume, weight) = Total(x.produce, weight)

Covered(world, x) ==
  \A cell \in DOMAIN x.consume \cup DOMAIN x.preserve :
    Amount(world, cell) >= Amount(x.consume, cell) + Amount(x.preserve, cell)

Applicable(world, x) == x.when /\ Covered(world, x)

Settled(world, x) ==
  Sparse([cell \in DOMAIN world \cup DOMAIN x.produce |->
            Amount(world, cell) - Amount(x.consume, cell) + Amount(x.produce, cell)])

(* A declared invariant that weighs some kinds of assets by one. *)
Upholds(x, kinds) == Balanced(x, LAMBDA asset : IF asset[1] \in kinds THEN 1 ELSE 0)

(* What the kernel accepts: the invariants are a set of such sets of kinds. *)
Accepted(world, x, invariants) ==
  Applicable(world, x) /\ \A kinds \in invariants : Upholds(x, kinds)

(* A goal names what accounts must hold at least. *)
Matches(world, required) ==
  \A cell \in DOMAIN required : Amount(world, cell) >= required[cell]

(* A trace is replayed up to its first exchange that is refused.            *)
Replay(world, trace, invariants) ==
  LET run[n \in 0 .. Len(trace)] ==
        IF n = 0 THEN [ok |-> TRUE, world |-> world]
        ELSE LET before == run[n - 1]
             IN  IF before.ok /\ Accepted(before.world, trace[n], invariants)
                 THEN [before EXCEPT !.world = Settled(@, trace[n])]
                 ELSE [before EXCEPT !.ok = FALSE]
  IN  run[Len(trace)]

(* The worlds that some number of steps lead to. *)
Branches(start, successors(_), depth) ==
  LET level[n \in 0 .. depth] ==
        IF n = 0 THEN {start} ELSE UNION {successors(w) : w \in level[n - 1]}
  IN  UNION {level[n] : n \in 0 .. depth}
=============================================================================

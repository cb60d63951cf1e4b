---------------------------- MODULE LivingMarket ----------------------------
(***************************************************************************)
(* A constant-product pool among producers, consumers, liquidity providers  *)
(* and speculators.  A market day runs the policies of a coalition of       *)
(* actors in a fixed order, each action quoted against the pool it finds;   *)
(* besides, one trader may trade as it likes with a pool its founder left.  *)
(***************************************************************************)
EXTENDS RateBook

CONSTANTS
  PoolSizes,   \* the fixtures a day starts from: "micro", "showcase", "stress"
  TradeSizes,  \* amounts the free trader sells
  MaxTrades    \* bound: trades of the free trader

VARIABLE world   \* [balances, plan, direct, start, panicked, trades]

FeeDenominator == 1000
FeeNumerator   == 997
MaxLpShares    == 1000000

PriceActors == {"generator", "factory", "household", "speculator", "adaptive lp",
                "arbitrageur", "whale"}
Actors == PriceActors \cup {"founder"}

energy == <<"energy">>
credit == <<"credit">>
unissued == <<"unissued">>
share == <<"lp share">>

(* Exact left * right \div divisor, bit by bit: products of balances exceed *)
(* the integers of the model checker.                                       *)
MulDiv(left, right, divisor) ==
  LET bit(i) == (left \div 2^(20 - i)) % 2
      step[i \in 0 .. 20] ==
        LET before == IF i = 0 THEN <<0, 0>> ELSE step[i - 1]
            rest   == 2 * before[2] + bit(i) * (right % divisor)
        IN  <<2 * before[1] + bit(i) * (right \div divisor) + rest \div divisor, rest % divisor>>
  IN  step[20][1]

(* A product of two balances, as thousands and the rest. *)
Product(left, right) ==
  LET low == left * (right % 1000)
  IN  <<left * (right \div 1000) + low \div 1000, low % 1000>>

AtMost(left, right) == left[1] < right[1] \/ (left[1] = right[1] /\ left[2] <= right[2])

-----------------------------------------------------------------------------
PoolEnergy(size) == CASE size = "micro" -> 4000 [] size = "showcase" -> 10000 [] size = "stress" -> 40000
Scale(size) == IF size = "stress" THEN 4 ELSE 1

Initial(size) ==
  LET scale == Scale(size)
      reserve == PoolEnergy(size)
  IN  At("pool", energy :> reserve @@ credit :> 10 * reserve @@ unissued :> MaxLpShares - reserve)
        @@ At("treasury", credit :> 20000 * scale)
        @@ At("information", One(<<"signal">>))
        @@ At("founder", share :> reserve @@ credit :> 5000 * scale)
        @@ At("generator", energy :> 3000 * scale @@ <<"solar">> :> 6000 * scale
                             @@ credit :> 5000 * scale @@ One(<<"obligation", "generator">>))
        @@ At("factory", credit :> 40000 * scale @@ One(<<"need", "factory">>)
                           @@ One(<<"obligation", "factory">>))
        @@ At("household", credit :> 20000 * scale @@ One(<<"need", "household">>))
        @@ At("speculator", credit :> 25000 * scale @@ One(<<"uninformed", "speculator">>))
        @@ At("adaptive lp", energy :> 2000 * scale @@ credit :> 20000 * scale)
        @@ At("arbitrageur", energy :> 2500 * scale @@ credit :> 10000 * scale)
        @@ At("whale", credit :> 80000 * scale)

Pool(w, asset) == Amount(w, <<"pool", asset>>)
Issued(w) == MaxLpShares - Pool(w, unissued)
Price(w) == IF Pool(w, energy) = 0 THEN 0 ELSE (Pool(w, credit) * 1000) \div Pool(w, energy)
Other(asset) == IF asset = energy THEN credit ELSE energy

(* Mutant: what a trade buys is rounded up. *)
SwapOutputRoundedUp(w, input, units) ==
  LET afterFee == FeeNumerator * units
  IN  MulDiv(Pool(w, Other(input)), afterFee, Pool(w, input) * FeeDenominator + afterFee) + 1

SwapOutput(w, input, units) ==
  LET afterFee == FeeNumerator * units
  IN  MulDiv(Pool(w, Other(input)), afterFee, Pool(w, input) * FeeDenominator + afterFee)

Swap(w, trader, input, units, minimum) ==
  LET output == SwapOutput(w, input, units)
  IN  Exchange(output >= minimum,
        At(trader, input :> units) @@ At("pool", Other(input) :> output),
        At("pool", input :> units) @@ At(trader, Other(input) :> output),
        NoGoods)

Least(left, right) == IF left <= right THEN left ELSE right

AddLiquidity(w, provider, energyAmount, creditAmount, minimum) ==
  LET minted == Least(MulDiv(energyAmount, Issued(w), Pool(w, energy)),
                      MulDiv(creditAmount, Issued(w), Pool(w, credit)))
  IN  Exchange(Product(energyAmount, Pool(w, credit)) = Product(creditAmount, Pool(w, energy))
                 /\ minted >= minimum,
        At(provider, energy :> energyAmount @@ credit :> creditAmount) @@ At("pool", unissued :> minted),
        At("pool", energy :> energyAmount @@ credit :> creditAmount) @@ At(provider, share :> minted),
        NoGoods)

RemoveLiquidity(w, provider, units) ==
  LET part(asset) == MulDiv(Pool(w, asset), units, Issued(w))
  IN  Exchange(TRUE,
        At(provider, share :> units) @@ At("pool", energy :> part(energy) @@ credit :> part(credit)),
        At("pool", unissued :> units) @@ At(provider, energy :> part(energy) @@ credit :> part(credit)),
        NoGoods)

ProduceEnergy(actor, units) ==
  Exchange(TRUE, At(actor, <<"solar">> :> units), At(actor, energy :> units), NoGoods)

EnergyUse(actor) ==
  IF actor = "factory" THEN [energy |-> 1500, utility |-> 150] ELSE [energy |-> 350, utility |-> 100]

UseEnergy(actor) ==
  Exchange(TRUE,
    At(actor, energy :> EnergyUse(actor).energy @@ One(<<"need", actor>>)),
    At(actor, <<"spent">> :> EnergyUse(actor).energy @@ One(<<"satisfied", actor>>)
                @@ <<"utility">> :> EnergyUse(actor).utility),
    NoGoods)

ObligationCost(actor) == IF actor = "generator" THEN 4000 ELSE 6000

SettleObligation(actor) ==
  Exchange(TRUE,
    At(actor, credit :> ObligationCost(actor) @@ One(<<"obligation", actor>>)),
    At(actor, One(<<"settled", actor>>)) @@ At("treasury", credit :> ObligationCost(actor)),
    NoGoods)

LearnShortage(actor) ==
  Exchange(TRUE, At(actor, One(<<"uninformed", actor>>)), At(actor, One(<<"informed", actor>>)),
           At("information", One(<<"signal">>)))

(* The declared invariants, by the kinds of assets they weigh. *)
Invariants ==
  { {"energy", "solar", "spent"}, {"credit"}, {"lp share", "unissued"},
    {"need", "satisfied", "obligation", "settled"}, {"uninformed", "informed"} }

Goals(actor) ==
  CASE actor = "factory"    -> At(actor, One(<<"satisfied", actor>>) @@ One(<<"settled", actor>>))
    [] actor = "household"  -> At(actor, One(<<"satisfied", actor>>))
    [] actor = "generator"  -> At(actor, One(<<"settled", actor>>))
    [] actor = "speculator" -> At(actor, One(<<"informed", actor>>))
    [] OTHER                -> NoGoods

-----------------------------------------------------------------------------
(* The policies.  A trade is guarded by 98% of what it was quoted.          *)

GuardedSwap(w, actor, input, units) ==
  Swap(w, actor, input, units, (SwapOutput(w, input, units) * 98) \div 100)

(* Mutant: the first offer is taken, whatever it buys. *)
BuyAtLeastPreferred(w, actor, preferred, required) == GuardedSwap(w, actor, credit, preferred)

(* The offer is raised in steps of 100 until it buys what is needed. *)
GuardedBuyAtLeast(w, actor, preferred, required) ==
  LET enough == {raise \in 0 .. 300 : SwapOutput(w, credit, preferred + 100 * raise) >= required}
  IN  GuardedSwap(w, actor, credit, preferred + 100 * Min(enough))

(* What is proposed at each step of a day. *)
Proposal(w, step, scale) ==
  CASE step = "thin out" -> RemoveLiquidity(w, "founder", Issued(w) \div 2)
    [] step = "deepen"   -> AddLiquidity(w, "adaptive lp", Pool(w, energy) \div 10,
                                         Pool(w, credit) \div 10, Pool(w, energy) \div 10)
    [] step = "generate" -> ProduceEnergy("generator", 1500 * scale)
    [] step = "sell generated" -> GuardedSwap(w, "generator", energy, 2500 * scale)
    [] step = "supply factory" -> GuardedBuyAtLeast(w, "factory", 26000 * scale, 1500)
    [] step = "run factory"    -> UseEnergy("factory")
    [] step = "factory pays"   -> SettleObligation("factory")
    [] step = "supply household" -> GuardedBuyAtLeast(w, "household", 5000 * scale, 350)
    [] step = "heat household" -> UseEnergy("household")
    [] step = "learn"    -> LearnShortage("speculator")
    [] step = "speculate" -> GuardedSwap(w, "speculator", credit, 16000 * scale)
    [] step = "corner"   -> GuardedSwap(w, "whale", credit, 45000 * scale)
    [] step = "generate again" -> ProduceEnergy("generator", 1800 * scale)
    [] step = "sell again" -> GuardedSwap(w, "generator", energy, 1800 * scale)
    [] step = "arbitrage" -> GuardedSwap(w, "arbitrageur", energy, 1200 * scale)
    [] step = "generator pays" -> SettleObligation("generator")

(* Mutant: only the trades that buy energy are attributed. *)
TraderWhenBuying(step) ==
  CASE step = "supply factory"   -> "factory"
    [] step = "supply household" -> "household"
    [] step = "speculate" -> "speculator"
    [] step = "corner"    -> "whale"
    [] OTHER -> "none"

(* Who trades in a step of a day. *)
Trader(step) ==
  CASE step \in {"sell generated", "sell again"} -> "generator"
    [] step = "supply factory"   -> "factory"
    [] step = "supply household" -> "household"
    [] step = "speculate" -> "speculator"
    [] step = "corner"    -> "whale"
    [] step = "arbitrage" -> "arbitrageur"
    [] OTHER -> "none"

(* The day of a coalition: actors that are missing make no proposals.       *)
Plan(scenario, included) ==
  LET of(actor, steps) == IF actor \in included THEN steps ELSE <<>>
  IN  (IF scenario = "thin" THEN <<"thin out">> ELSE of("adaptive lp", <<"deepen">>))
        \o of("generator", <<"generate", "sell generated">>)
        \o of("factory", <<"supply factory", "run factory", "factory pays">>)
        \o of("household", <<"supply household", "heat household">>)
        \o of("speculator", <<"learn", "speculate">>)
        \o (IF scenario = "no whale" THEN <<>> ELSE of("whale", <<"corner">>))
        \o of("generator", <<"generate again", "sell again">>)
        \o of("arbitrageur", <<"arbitrage">>)
        \o of("generator", <<"generator pays">>)

(* Every coalition has its market day; the other scenarios are for all.     *)
Days ==
  {<<"day", included>> : included \in SUBSET PriceActors}
    \cup {<<"no whale", Actors \ {"whale"}>>, <<"thin", Actors>>}

NoTrades == [actor \in PriceActors |-> 0]

DayInit ==
  \E size \in PoolSizes, day \in Days :
    world = [balances |-> Initial(size), size |-> size, included |-> day[2],
             plan |-> Plan(day[1], day[2]), direct |-> NoTrades, panicked |-> FALSE, trades |-> 0]

(* The free trader is the whale; the founder has left a thousandth of the   *)
(* pool behind.                                                             *)
FreeInit ==
  LET fixture == Initial("micro")
  IN  world = [balances |-> Settled(fixture, RemoveLiquidity(fixture, "founder", 3996)),
               size |-> "micro", included |-> {}, plan |-> <<>>, direct |-> NoTrades,
               panicked |-> FALSE, trades |-> MaxTrades]

Init == DayInit \/ FreeInit

(* `push` applies the next action, and panics when the kernel refuses it.   *)
Push ==
  /\ world.plan # <<>> /\ ~world.panicked
  /\ LET step == Head(world.plan)
         before == world.balances
         x == Proposal(before, step, Scale(world.size))
     IN  IF Accepted(before, x, Invariants)
         THEN world' = [world EXCEPT
                !.balances = Settled(before, x), !.plan = Tail(@),
                !.direct = IF Trader(step) = "none" THEN @
                           ELSE [@ EXCEPT ![Trader(step)] = @ + Price(Settled(before, x)) - Price(before)]]
         ELSE world' = [world EXCEPT !.panicked = TRUE]

Trade ==
  /\ world.trades > 0
  /\ \E input \in {energy, credit}, units \in TradeSizes :
       LET x == Swap(world.balances, "whale", input, units, 0)
       IN  /\ Accepted(world.balances, x, Invariants)
           /\ world' = [world EXCEPT !.balances = Settled(@, x), !.trades = @ - 1]

Next == Push \/ Trade

-----------------------------------------------------------------------------
(* No action of a day is refused, whoever stays away: attributing the price *)
(* to actors replays every coalition and panics on the first refusal        *)
(* (amm.rs:716), and whoever took part has what it needed.                  *)
CoalitionsReplay ==
  /\ ~world.panicked
  /\ world.plan = <<>> /\ world.trades = 0 =>
       \A actor \in world.included : Matches(world.balances, Goals(actor))

(* What the trades of the actors moved the price by adds up to all of its   *)
(* movement: changes of liquidity move none of it (amm.rs:752).             *)
TradesExplainPrice ==
  world.trades = 0 /\ world.included # {} =>
    Price(world.balances) - Price(Initial(world.size))
      = MapThenSumSet(LAMBDA actor : world.direct[actor], PriceActors)

ReserveProduct == Product(Pool(world.balances, energy), Pool(world.balances, credit))

Swapping == world.trades > 0 \/ Trader(Head(world.plan)) # "none"

(* A swap never lowers the product of the reserves, rounding included.      *)
SwapKeepsTheProduct == Swapping => AtMost(ReserveProduct, ReserveProduct')

(* However it trades, nobody gets energy or credit for nothing. *)
NoFreeLunch ==
  world.included = {} =>
    LET gained(asset) == Amount(world.balances, <<"whale", asset>>)
                           - Amount(Initial(world.size), <<"whale", asset>>)
    IN  gained(credit) < 0 \/ (gained(credit) = 0 /\ gained(energy) = 0)
=============================================================================

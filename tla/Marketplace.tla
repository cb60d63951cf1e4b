----------------------------- MODULE Marketplace -----------------------------
(***************************************************************************)
(* Multi-party settlement of orders.  Any account of the right kind may be  *)
(* bound to a role: only what it holds decides.                             *)
(***************************************************************************)
EXTENDS RateBook

CONSTANT MarketSizes   \* the fixtures: "micro", "showcase", "stress"

VARIABLE world

Buyers   == {"A", "B", "C"}
Sellers  == {"A", "B", "C"}
Carriers == {"A", "B"}

OrdersOf(size) ==
  CASE size = "micro"    -> {"A", "B"}
    [] size = "showcase" -> {"A", "B", "C", "D"}
    [] size = "stress"   -> {"A", "B", "C", "D", "E", "F"}

Item(order) == IF order \in {"A", "C", "E"} THEN "widget" ELSE "gadget"

(* Gross payment, seller's proceeds, tax, commission, shipping.             *)
Terms(order) ==
  CASE order = "A" -> [gross |-> 100, proceeds |-> 80, tax |-> 10, commission |-> 5, shipping |-> 5]
    [] order = "B" -> [gross |-> 90, proceeds |-> 72, tax |-> 9, commission |-> 5, shipping |-> 4]
    [] order = "C" -> [gross |-> 110, proceeds |-> 86, tax |-> 11, commission |-> 7, shipping |-> 6]
    [] order = "D" -> [gross |-> 95, proceeds |-> 75, tax |-> 10, commission |-> 5, shipping |-> 5]
    [] order = "E" -> [gross |-> 105, proceeds |-> 83, tax |-> 10, commission |-> 6, shipping |-> 6]
    [] order = "F" -> [gross |-> 115, proceeds |-> 90, tax |-> 12, commission |-> 7, shipping |-> 6]

Utility(order) ==
  CASE order = "A" -> [buyer |-> 30, seller |-> 20] [] order = "B" -> [buyer |-> 25, seller |-> 18]
    [] order = "C" -> [buyer |-> 34, seller |-> 17] [] order = "D" -> [buyer |-> 22, seller |-> 24]
    [] order = "E" -> [buyer |-> 28, seller |-> 21] [] order = "F" -> [buyer |-> 31, seller |-> 19]

-----------------------------------------------------------------------------
(* The fixtures differ in budgets, intents, stock and shipping capacity.    *)

Budget(size) ==
  CASE size = "micro"    -> [A |-> 190, B |-> 100, C |-> 75]
    [] size = "showcase" -> [A |-> 300, B |-> 210, C |-> 190]
    [] size = "stress"   -> [A |-> 330, B |-> 300, C |-> 350]

Intents(size) ==
  CASE size = "micro"    -> [A |-> {"A", "B"}, B |-> {"A"}, C |-> {"A"}]
    [] size = "showcase" -> [A |-> {"A", "B", "C"}, B |-> {"A", "C"}, C |-> {"A", "B", "D"}]
    [] size = "stress"   -> [A |-> {"A", "C", "E"}, B |-> {"B", "F"}, C |-> {"D"}]

Stock(size, item) ==
  IF size = "micro"
  THEN IF item = "widget" THEN [A |-> 1, B |-> 1, C |-> 0] ELSE [A |-> 0, B |-> 0, C |-> 1]
  ELSE IF item = "widget" THEN [A |-> 2, B |-> 1, C |-> 0] ELSE [A |-> 0, B |-> 1, C |-> 2]

Capacity(size) ==
  CASE size = "micro"    -> [A |-> 2, B |-> 0]
    [] size = "showcase" -> [A |-> 3, B |-> 1]
    [] size = "stress"   -> [A |-> 3, B |-> 3]

Initial(size) ==
  LET cells == ({"buyer"} \X Buyers) \cup ({"seller"} \X Sellers) \cup ({"carrier"} \X Carriers)
                 \cup ({"order"} \X OrdersOf(size)) \cup {<<"platform">>, <<"tax authority">>}
      goods(account) ==
        CASE account[1] = "buyer"   -> <<"money">> :> Budget(size)[account[2]]
                                         @@ [a \in {"intent"} \X Intents(size)[account[2]] |-> 1]
          [] account[1] = "seller"  -> [a \in {"item", "offer"} \X {"widget", "gadget"} |->
                                          Stock(size, a[2])[account[2]]]
          [] account[1] = "carrier" -> <<"capacity">> :> Capacity(size)[account[2]]
          [] account[1] = "order"   -> One(<<"open", account[2]>>)
          [] account[1] = "platform" -> One(<<"license">>)
          [] account[1] = "tax authority" -> One(<<"tax policy">>)
  IN  Sparse([cell \in UNION {DOMAIN At(a, goods(a)) : a \in cells} |-> goods(cell[1])[cell[2]]])

Orders == {account[2] : account \in {cell[1] : cell \in {c \in DOMAIN world : c[1][1] = "order"}}}

(* Mutant: the value of an order is entered under another amount. *)
EntryMisfiled(order) ==
  [consume |-> One(<<"open", order>>),
   produce |-> One(<<"settled", order>>) @@ One(<<"value", Terms(order).proceeds>>)]

(* What a settlement does to the account of the order itself.               *)
Entry(order) ==
  [consume |-> One(<<"open", order>>),
   produce |-> One(<<"settled", order>>) @@ One(<<"value", Terms(order).gross>>)]

(* One settlement moves six accounts at once. *)
Settlement(order, buyer, seller, carrier) ==
  LET t == Terms(order)
      item == <<"item", Item(order)>>
      benefit == Utility(order)
  IN  Exchange(TRUE,
        At(<<"buyer", buyer>>, <<"money">> :> t.gross @@ One(<<"intent", order>>))
          @@ At(<<"seller", seller>>, One(item) @@ One(<<"offer", Item(order)>>))
          @@ At(<<"carrier", carrier>>, One(<<"capacity">>))
          @@ At(<<"order", order>>, Entry(order).consume),
        At(<<"buyer", buyer>>, One(item) @@ One(<<"receipt", order>>) @@ <<"utility">> :> benefit.buyer)
          @@ At(<<"seller", seller>>, <<"money">> :> t.proceeds @@ One(<<"sale", order>>)
                                        @@ <<"utility">> :> benefit.seller)
          @@ At(<<"platform">>, <<"money">> :> t.commission)
          @@ At(<<"tax authority">>, <<"money">> :> t.tax)
          @@ At(<<"carrier", carrier>>, <<"money">> :> t.shipping @@ One(<<"used capacity">>))
          @@ At(<<"order", order>>, Entry(order).produce),
        At(<<"platform">>, One(<<"license">>)) @@ At(<<"tax authority">>, One(<<"tax policy">>)))

(* The declared invariants: each weighs some kinds of assets by one.        *)
Invariants ==
  { {"money"}, {"item"}, {"intent", "receipt"}, {"offer", "sale"},
    {"capacity", "used capacity"}, {"open", "settled"} }

(* Mutant: all parcels are given to the first carrier. *)
CandidatesOfOneCarrier(orders) == orders \X Buyers \X Sellers \X {"A"}

CandidateMatches(orders) == orders \X Buyers \X Sellers \X Carriers

(* The candidates the kernel accepts. *)
ExactMatches(w, orders) ==
  {x \in {Settlement(m[1], m[2], m[3], m[4]) : m \in CandidateMatches(orders)} :
     Accepted(w, x, Invariants)}

-----------------------------------------------------------------------------
(* Clearing: the best set of settlements, by their number, then their value. *)

SettledOrders(w, orders) == {o \in orders : Amount(w, <<<<"order", o>>, <<"settled", o>>>>) > 0}

GrossValue(w, orders) ==
  MapThenSumSet(LAMBDA o : Amount(w, <<<<"order", o>>, <<"value", Terms(o).gross>>>>) * Terms(o).gross,
                orders)

Score(w, orders) == <<Cardinality(SettledOrders(w, orders)), GrossValue(w, orders)>>

Better(left, right) == left[1] > right[1] \/ (left[1] = right[1] /\ left[2] > right[2])

(* The branches of the search: every world some settlements lead to, once.  *)
Explored(w, orders) ==
  Branches(w, LAMBDA v : {Settled(v, x) : x \in ExactMatches(v, orders)}, Cardinality(orders))

ClearMarket(w, orders) ==
  LET scores == {Score(v, orders) : v \in Explored(w, orders)}
  IN  CHOOSE best \in scores : \A other \in scores : ~Better(other, best)

-----------------------------------------------------------------------------
Init == \E size \in MarketSizes : world = Initial(size)

Settle ==
  \E x \in ExactMatches(world, Orders) : world' = Settled(world, x)

Next == Settle

-----------------------------------------------------------------------------
Held(kind, asset) ==
  MapThenSumSet(LAMBDA cell : world[cell],
                {cell \in DOMAIN world : cell[1][1] = kind /\ cell[2] = asset})

FixtureOf == CHOOSE size \in MarketSizes : OrdersOf(size) = Orders

(* An order is settled once, for one buyer and by one seller, and what all  *)
(* buyers have paid is what the orders say they were settled for: nothing   *)
(* is sold twice although several buyers want it and several sellers have   *)
(* it (marketplace.rs:570).                                                 *)
OrdersSettleOnce ==
  /\ \A o \in Orders :
       /\ Held("buyer", <<"receipt", o>>) = Held("order", <<"settled", o>>)
       /\ Held("seller", <<"sale", o>>) = Held("order", <<"settled", o>>)
       /\ Held("order", <<"settled", o>>) + Held("order", <<"open", o>>) = 1
  /\ GrossValue(world, Orders) =
       MapThenSumSet(LAMBDA b : Budget(FixtureOf)[b], Buyers) - Held("buyer", <<"money">>)

(* Which settlements can be had together, without any order between them:   *)
(* every participant affords all it takes part in.                          *)
Compatible(fixture, needs) ==
  \A cell \in UNION {DOMAIN needs[o] : o \in DOMAIN needs} :
    Amount(fixture, cell) >= MapThenSumSet(LAMBDA o : Amount(needs[o], cell), DOMAIN needs)

(* What each order would consume, for every choice of who takes part in it. *)
Assignments(fixture, orders) ==
  LET alone == [o \in orders |->
                  {Settlement(o, m[1], m[2], m[3]) : m \in Buyers \X Sellers \X Carriers}]
      needs == [o \in orders |->
                  {NoGoods} \cup {x.consume : x \in {y \in alone[o] : Applicable(fixture, y)}}]
  IN  FoldSet(LAMBDA o, partial : {f @@ (o :> need) : f \in partial, need \in needs[o]},
              {<<>>}, orders)

(* The search over interleavings of settlements finds what the best set of  *)
(* compatible settlements is worth (marketplace.rs:507: "the best           *)
(* compatible settlement set").                                             *)
ClearingIsBest ==
  SettledOrders(world, Orders) = {} =>
    LET best == ClearMarket(world, Orders)
    IN  \A needs \in Assignments(world, Orders) :
          Compatible(world, needs) =>
            LET chosen == {o \in Orders : needs[o] # NoGoods}
            IN  ~Better(<<Cardinality(chosen), MapThenSumSet(LAMBDA o : Terms(o).gross, chosen)>>, best)
=============================================================================

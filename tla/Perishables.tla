---------------------------- MODULE Perishables ----------------------------
(***************************************************************************)
(* Fruit that spoils.  Claims on fruit are fungible, and the claims of one  *)
(* cohort share one condition fact.  A scenario run keeps an index of the   *)
(* claims and an agenda of the effects that fall due beside the economy,    *)
(* both updated from the receipts.  The shared identity facts never move    *)
(* and every proposal binds them to their accounts: they are left out.      *)
(***************************************************************************)
EXTENDS RateBook

CONSTANT Stocks         \* which inventories: "none", "micro", "showcase"

(* `balances` is the economy.  While a scenario runs, `index` holds the     *)
(* claims it counted, `agenda` its pending effects, `script` what is left   *)
(* to do and `settled` the last moment whose effects were settled.          *)
VARIABLE world          \* [stage, balances, index, agenda, sequence, script, settled]

globe == "world"
warehouse == "warehouse"
fridge == "fridge"
CohortAccount(cohort) == cohort
StorageFor(cohort) == IF cohort = "ambient" THEN warehouse ELSE fridge

(* Moments, in their order. *)
harvest == 0
ambientExpiry == 1
warmedExpiry == 2
coldExpiry == 3

ambient == <<"ambient">>
cold == <<"cold">>
powered == <<"powered">>
unpowered == <<"unpowered">>
coolingEnergy == <<"cooling energy">>
spentCoolingEnergy == <<"spent cooling energy">>
active == <<"active">>
solved == <<"solved">>
planning == <<"planning">>
planSolved == <<"plan solved">>
Claim(cohort) == <<"claim", cohort>>
Consumed(cohort) == <<"consumed", cohort>>
Rotten(cohort) == <<"rotten " \o cohort>>
Now(moment) == <<"now", moment>>
Before(moment) == <<"before", moment>>
Reached(moment) == <<"reached", moment>>

Cohorts == {"ambient", "refrigerated"}
Due(exposure) ==
  CASE exposure = "ambient" -> ambientExpiry
    [] exposure = "cold" -> coldExpiry
    [] exposure = "warmed" -> warmedExpiry
Fresh(cohort, exposure) == <<"fresh " \o cohort, exposure, Due(exposure)>>

(* Conditions in the order of the code. *)
TimedConditions == << <<"ambient", "ambient">>, <<"refrigerated", "cold">>, <<"refrigerated", "warmed">> >>
Conditions == ToSet(TimedConditions)

(* Thousands of claims in the warehouse and in the fridge. *)
Inventory(stock) ==
  CASE stock = "none" -> <<0, 0>> [] stock = "micro" -> <<3, 1>> [] stock = "showcase" -> <<7, 3>>

Transfer == 1

InitialWithInventory(claims, chilled) ==
  Sparse(At(globe, One(Now(harvest)) @@ One(Reached(harvest)) @@ One(active) @@ One(planning)
               @@ [b \in {Before(m) : m \in 1 .. 3} |-> 1])
    @@ At(warehouse, One(ambient) @@ Claim("ambient") :> claims)
    @@ At(fridge, One(cold) @@ One(powered) @@ coolingEnergy :> claims @@ Claim("refrigerated") :> chilled)
    @@ At(CohortAccount("ambient"), One(Fresh("ambient", "ambient")))
    @@ At(CohortAccount("refrigerated"), One(Fresh("refrigerated", "cold"))))

(* Mutant: the transfer costs no cooling. *)
MoveUncooled(units) ==
  Exchange(TRUE, At(warehouse, Claim("ambient") :> units), At(fridge, Claim("refrigerated") :> units),
    At(warehouse, One(ambient)) @@ At(fridge, One(cold) @@ One(powered))
      @@ At("ambient", One(Fresh("ambient", "ambient")))
      @@ At("refrigerated", One(Fresh("refrigerated", "cold")))
      @@ At(globe, One(active) @@ One(Before(ambientExpiry))))

MoveToFridge(units) ==
  Exchange(TRUE,
    At(warehouse, Claim("ambient") :> units) @@ At(fridge, coolingEnergy :> units),
    At(fridge, Claim("refrigerated") :> units @@ spentCoolingEnergy :> units),
    At(warehouse, One(ambient)) @@ At(fridge, One(cold) @@ One(powered))
      @@ At("ambient", One(Fresh("ambient", "ambient")))
      @@ At("refrigerated", One(Fresh("refrigerated", "cold")))
      @@ At(globe, One(active) @@ One(Before(ambientExpiry))))

Advance(from) ==
  Exchange(TRUE, At(globe, One(Now(from)) @@ One(Before(from + 1))),
    At(globe, One(Now(from + 1)) @@ One(Reached(from + 1))), At(globe, One(active)))

LosePower ==
  Exchange(TRUE,
    At(fridge, One(cold) @@ One(powered)) @@ At("refrigerated", One(Fresh("refrigerated", "cold"))),
    At(fridge, One(ambient) @@ One(unpowered)) @@ At("refrigerated", One(Fresh("refrigerated", "warmed"))),
    At(globe, One(active) @@ One(Reached(ambientExpiry)) @@ One(Before(warmedExpiry))))

StorageRequirements(cohort, exposure) ==
  At(StorageFor(cohort),
     CASE exposure = "ambient" -> One(ambient)
       [] exposure = "cold" -> One(cold) @@ One(powered)
       [] exposure = "warmed" -> One(ambient) @@ One(unpowered))

Eat(cohort, exposure, units) ==
  Exchange(TRUE, At(StorageFor(cohort), Claim(cohort) :> units), At(StorageFor(cohort), Consumed(cohort) :> units),
    StorageRequirements(cohort, exposure) @@ At(cohort, One(Fresh(cohort, exposure)))
      @@ At(globe, One(active) @@ One(Before(Due(exposure)))))

Spoil(cohort, exposure) ==
  Exchange(TRUE, At(cohort, One(Fresh(cohort, exposure))), At(cohort, One(Rotten(cohort))),
    StorageRequirements(cohort, exposure) @@ At(globe, One(active) @@ One(Reached(Due(exposure)))))

Finish ==
  Exchange(TRUE, At(globe, One(active)), At(globe, One(solved)),
    At("ambient", One(Rotten("ambient"))) @@ At("refrigerated", One(Rotten("refrigerated")))
      @@ At(globe, One(Now(coldExpiry))))

SealStoragePlan ==
  Exchange(TRUE, At(globe, One(planning)), At(globe, One(planSolved)),
    At(fridge, One(cold) @@ One(powered)) @@ At("ambient", One(Rotten("ambient")))
      @@ At("refrigerated", One(Fresh("refrigerated", "cold")))
      @@ At(globe, One(Now(ambientExpiry)) @@ One(active)))

Rates ==
  {MoveToFridge(1), LosePower, Finish, SealStoragePlan} \cup {Advance(from) : from \in 0 .. 2}
    \cup {Eat(c[1], c[2], 1) : c \in Conditions} \cup {Spoil(c[1], c[2]) : c \in Conditions}

(* The deadlines pair Before with Reached; the kinds of one moment share    *)
(* their tags with the others, and no exchange mixes moments.               *)
Invariants ==
  { {"claim", "consumed"}, {"fresh ambient", "rotten ambient"},
    {"fresh refrigerated", "rotten refrigerated"}, {"ambient", "cold"},
    {"powered", "unpowered"}, {"cooling energy", "spent cooling energy"}, {"now"},
    {"before", "reached"}, {"active", "solved"}, {"planning", "plan solved"} }

Candidates(balances) == {x \in Rates : Accepted(balances, x, Invariants)}

StoragePlanCandidates(balances, transfer) ==
  {x \in {MoveToFridge(transfer), Advance(harvest), Spoil("ambient", "ambient"), SealStoragePlan} :
     Accepted(balances, x, Invariants)}

UsableInventory(balances) == Amount(balances, <<fridge, Claim("refrigerated")>>)
SpentCoolingEnergy(balances) == Amount(balances, <<fridge, spentCoolingEnergy>>)

(* Outcomes of the sealed plans that no other sealed plan dominates: more   *)
(* fruit for no more energy, or no less fruit for less energy.              *)
StoragePlanFront(balances, transfer) ==
  LET explored == Branches(balances, LAMBDA w : {Settled(w, x) : x \in StoragePlanCandidates(w, transfer)}, 10)
      sealed == {w \in explored : Amount(w, <<globe, planSolved>>) = 1}
      outcomes == {<<UsableInventory(w), SpentCoolingEnergy(w)>> : w \in sealed}
  IN  {o \in outcomes : \A p \in outcomes \ {o} : ~(p[1] >= o[1] /\ p[2] <= o[2])}

-----------------------------------------------------------------------------
(* The claim index. *)
ClaimCells(goods) == {cell \in DOMAIN goods : cell[2][1] = "claim"}

BuildIndex(balances) == NoGoods @@ [cell \in ClaimCells(balances) |-> balances[cell]]

(* Mutant: a holder of nothing stays in the index. *)
DecreaseKeepingHolder(index, cell, units) == [index EXCEPT ![cell] = @ - units]

Decrease(index, cell, units) ==
  NoGoods @@ [c \in {d \in DOMAIN index : d # cell \/ index[d] # units} |->
                IF c = cell THEN index[c] - units ELSE index[c]]

Increase(index, cell, units) == (cell :> (Amount(index, cell) + units)) @@ index

ApplyReceipt(index, x) ==
  LET taken == FoldSet(LAMBDA cell, i : Decrease(i, cell, x.consume[cell]), index, ClaimCells(x.consume))
  IN  FoldSet(LAMBDA cell, i : Increase(i, cell, x.produce[cell]), taken, ClaimCells(x.produce))

TotalClaims(index, cohort) ==
  MapThenSumSet(LAMBDA cell : index[cell], {c \in DOMAIN index : c[2] = Claim(cohort)})

(* Mutant: what is past its date counts until it is found rotten. *)
UsableUntilRotten(index, balances) ==
  MapThenSumSet(LAMBDA c : TotalClaims(index, c[1]),
    {c \in Conditions : Amount(balances, <<c[1], Fresh(c[1], c[2])>>) = 1})

UsableTotal(index, balances) ==
  MapThenSumSet(LAMBDA c : TotalClaims(index, c[1]),
    {c \in Conditions : /\ Amount(balances, <<c[1], Fresh(c[1], c[2])>>) = 1
                        /\ Amount(balances, <<globe, Before(Due(c[2]))>>) = 1})

(* The agenda: a heap by moment and then by order of arrival. *)
Entry(condition, sequence) == [at |-> Due(condition[2]), sequence |-> sequence, condition |-> condition]

Scheduled(conditions, sequence) == {Entry(conditions[i], sequence + i - 1) : i \in DOMAIN conditions}

BuildAgenda(balances) ==
  Scheduled(SelectSeq(TimedConditions, LAMBDA c : Amount(balances, <<c[1], Fresh(c[1], c[2])>>) = 1), 0)

(* The conditions an exchange produces: it moves no more than one.          *)
Started(x) ==
  SelectSeq(TimedConditions, LAMBDA c : <<c[1], Fresh(c[1], c[2])>> \in DOMAIN x.produce)

(* Mutant: an effect is not due at its own moment. *)
PopAfter(agenda, now) ==
  SetToSortSeq({e \in agenda : e.at < now},
    LAMBDA d, e : d.at < e.at \/ (d.at = e.at /\ d.sequence < e.sequence))

PopDue(agenda, now) ==
  SetToSortSeq({e \in agenda : e.at <= now},
    LAMBDA d, e : d.at < e.at \/ (d.at = e.at /\ d.sequence < e.sequence))

(* The record after an exchange that the economy accepted. *)
Recorded(w, x) ==
  [w EXCEPT !.balances = Settled(@, x), !.index = ApplyReceipt(@, x),
            !.agenda = @ \cup Scheduled(Started(x), w.sequence), !.sequence = @ + Len(Started(x))]

(* Due effects are proposed in order; one that is infeasible is stale.      *)
SettleDue(w, now) ==
  LET due == PopDue(w.agenda, now)
      Proposal(e) == Spoil(e.condition[1], e.condition[2])
      after[n \in 0 .. Len(due)] ==
        IF n = 0 THEN [w EXCEPT !.agenda = @ \ ToSet(due), !.settled = now]
        ELSE LET before == after[n - 1]
             IN  IF Applicable(before.balances, Proposal(due[n]))
                 THEN Recorded(before, Proposal(due[n]))
                 ELSE before
  IN  after[Len(due)]

OutageScript(moved) ==
  LET Apply(x) == [do |-> "apply", what |-> x]
      Settle(now) == [do |-> "settle", now |-> now]
  IN  (IF moved > 0 THEN <<Apply(MoveToFridge(moved))>> ELSE <<>>)
        \o << Apply(Advance(harvest)), Settle(ambientExpiry), Apply(LosePower),
              Apply(Advance(ambientExpiry)), Settle(warmedExpiry),
              Apply(Advance(warmedExpiry)), Settle(coldExpiry), Apply(Finish) >>

-----------------------------------------------------------------------------
Init ==
  \E stock \in Stocks :
    world = [stage |-> "open",
             balances |-> InitialWithInventory(Inventory(stock)[1], Inventory(stock)[2]),
             index |-> NoGoods, agenda |-> {}, sequence |-> 0, script |-> <<>>, settled |-> harvest]

(* Any exchange that is a candidate, for one unit. *)
Play ==
  /\ world.stage = "open"
  /\ \E x \in Candidates(world.balances) : world' = [world EXCEPT !.balances = Settled(@, x)]

StartScenario ==
  /\ world.stage = "open"
  /\ \E moved \in 0 .. (Amount(world.balances, <<warehouse, Claim("ambient")>>) + 1) :
       world' = [world EXCEPT !.stage = "running", !.index = BuildIndex(world.balances),
                              !.agenda = BuildAgenda(world.balances),
                              !.sequence = Cardinality(BuildAgenda(world.balances)),
                              !.script = OutageScript(moved)]

(* One call of apply_recorded; its failure ends the run. *)
ApplyRecorded ==
  /\ world.stage = "running" /\ Head(world.script).do = "apply"
  /\ LET x == Head(world.script).what
         rest == Tail(world.script)
     IN  IF Accepted(world.balances, x, Invariants)
         THEN world' = [Recorded(world, x) EXCEPT !.script = rest,
                                                  !.stage = IF rest = <<>> THEN "done" ELSE "running"]
         ELSE world' = [world EXCEPT !.stage = "failed"]

Settle ==
  /\ world.stage = "running" /\ Head(world.script).do = "settle"
  /\ world' = [SettleDue(world, Head(world.script).now) EXCEPT !.script = Tail(@)]

Next == Play \/ StartScenario \/ ApplyRecorded \/ Settle

-----------------------------------------------------------------------------
Recording == world.stage \in {"running", "done"}

(* The index that is kept from receipts is the one the balances would give, *)
(* holders with nothing left included (perishables.rs:488, asserted at 726).*)
IndexFollowsBalances == Recording => world.index = BuildIndex(world.balances)

(* Once the effects of a moment are settled nothing is fresh that was due,  *)
(* and a fresh condition that is due later is still on the agenda: an       *)
(* effect is lost neither at its own moment nor to the outage.              *)
EffectsAreNeverLost ==
  Recording =>
    \A c \in Conditions :
      Amount(world.balances, <<c[1], Fresh(c[1], c[2])>>) = 1 =>
        /\ world.settled > harvest => Due(c[2]) > world.settled
        /\ \E e \in world.agenda : e.condition = c

(* What the index calls usable is what the Eat rates would let be eaten.    *)
UsableIsEdible ==
  world.stage = "open" =>
    UsableTotal(BuildIndex(world.balances), world.balances)
      = MapThenSumSet(LAMBDA c :
          Max({0} \cup {n \in 1 .. 10 : Accepted(world.balances, Eat(c[1], c[2], n), Invariants)}),
          Conditions)

(* The storage front is the whole curve: every whole number of transfers    *)
(* the stock and the cooling allow, each worth its energy.                  *)
StorageFrontIsTheCurve ==
  (/\ world.stage = "open"
   /\ world.balances = InitialWithInventory(Amount(world.balances, <<warehouse, Claim("ambient")>>),
                                            UsableInventory(world.balances))) =>
    StoragePlanFront(world.balances, Transfer)
      = {<<UsableInventory(world.balances) + n, n>> :
           n \in 0 .. Amount(world.balances, <<warehouse, Claim("ambient")>>)}
=============================================================================

----------------------------- MODULE Scheduling -----------------------------
(***************************************************************************)
(* Two jobs compete for machines whose time is cut into slots.  A job holds *)
(* a token that says which operation is ready since when; an operation is   *)
(* reserved on all of its slots at once.  The identity assets of jobs and   *)
(* slots, which the candidates always match, are left out.                  *)
(***************************************************************************)
EXTENDS RateBook

CONSTANT Shops          \* the fixtures, see Shop

VARIABLE world          \* [shop, balances]

Jobs == 1 .. 2

(* How many slots a machine has, and whether jobs have a third operation.   *)
Shop(name) ==
  CASE name = "micro"      -> <<5, FALSE>>
    [] name = "impossible" -> <<2, FALSE>>
    [] name = "showcase"   -> <<6, TRUE>>
    [] name = "impossible showcase" -> <<3, TRUE>>
    [] name = "stress"     -> <<8, TRUE>>

Stages(shop) == IF shop[2] THEN 3 ELSE 2
Operations(shop) == Jobs \X (1 .. Stages(shop))

(* Operation n of a job runs on machine n; the first takes two slots.       *)
Duration(operation) == IF operation[2] = 1 THEN 2 ELSE 1
PredecessorDuration(operation) == IF operation[2] = 1 THEN 0 ELSE IF operation[2] = 2 THEN 2 ELSE 1

success == <<"success">>
JobAccount(job) == <<"job", job>>
Slot(machine, time) == <<"slot", machine, time>>
available == <<"available">>

Initial(shop) ==
  At(success, One(<<"active">>))
    @@ [cell \in {<<JobAccount(j), <<"ready", <<j, 1>>, 0>>>> : j \in Jobs}
                   \cup {<<Slot(m, t), available>> : m \in 1 .. Stages(shop), t \in 0 .. shop[1] - 1} |-> 1]

(* What the job holds after an operation that ends at `end`. *)
Progress(operation, end, final) ==
  IF final THEN <<"completed", operation, end>> ELSE <<"ready", <<operation[1], operation[2] + 1>>, end>>

(* Mutant: only the first slot is taken. *)
SlotsTakenFirst(operation, start) == {Slot(operation[2], start)}

SlotsTaken(operation, start) ==
  {Slot(operation[2], t) : t \in start .. start + Duration(operation) - 1}

Schedule(operation, ready, start, final) ==
  LET job == JobAccount(operation[1])
      slots == SlotsTaken(operation, start)
  IN  Exchange(TRUE,
        At(job, One(<<"ready", operation, ready>>)) @@ [cell \in slots \X {available} |-> 1],
        At(job, One(Progress(operation, start + Duration(operation), final)))
          @@ [cell \in slots \X {<<"reserved", operation>>} |-> 1],
        At(success, One(<<"active">>)))

Finish(shop, oneEnd, twoEnd, makespan) ==
  Exchange(TRUE, At(success, One(<<"active">>)),
    At(success, One(<<"makespan", makespan>>) @@ One(<<"solved">>)),
    At(JobAccount(1), One(<<"completed", <<1, Stages(shop)>>, oneEnd>>))
      @@ At(JobAccount(2), One(<<"completed", <<2, Stages(shop)>>, twoEnd>>)))

(* Mutant: an operation may start a slot before its job is ready. *)
StartsEarly(operation, ready, horizon) ==
  Max({0, ready - 1}) .. horizon - Duration(operation)

(* When an operation that is ready may start. *)
Starts(operation, ready, horizon) == ready .. horizon - Duration(operation)

ReadyTimes(operation, horizon) ==
  IF PredecessorDuration(operation) = 0 THEN {0} ELSE PredecessorDuration(operation) .. horizon

Rates(shop) ==
  UNION {UNION {{Schedule(o, ready, start, o[2] = Stages(shop)) : start \in Starts(o, ready, shop[1])} :
                  ready \in ReadyTimes(o, shop[1]) \cap (0 .. shop[1])} : o \in Operations(shop)}
    \cup {Finish(shop, e[1], e[2], Max({e[1], e[2]})) : e \in (0 .. shop[1]) \X (0 .. shop[1])}

Invariants ==
  {{"ready", "completed"}, {"available", "reserved"}, {"active", "solved"}}

Candidates(w, rates) == {x \in rates : Accepted(w, x, Invariants)}

Goal == At(success, One(<<"solved">>))

Makespan(w) ==
  LET entered == {cell[2][2] : cell \in {c \in DOMAIN w : c[1] = success /\ c[2][1] = "makespan"}}
  IN  IF entered = {} THEN 0 ELSE Min(entered)

(* The branch enumerator: the best of the completed worlds it gets to, or   *)
(* 99 when it gets to none.                                                 *)
BranchOptimize(w, shop) ==
  LET rates == Rates(shop)
      worlds == Branches(w, LAMBDA v : {Settled(v, x) : x \in Candidates(v, rates)},
                         2 * Stages(shop) + 1)
  IN  Min({99} \cup {Makespan(v) : v \in {u \in worlds : Matches(u, Goal)}})

-----------------------------------------------------------------------------
Init == \E name \in Shops : world = [shop |-> Shop(name), balances |-> Initial(Shop(name))]

Next ==
  \E x \in Candidates(world.balances, Rates(world.shop)) :
    world' = [world EXCEPT !.balances = Settled(@, x)]

-----------------------------------------------------------------------------
ReservedSlots(operation) ==
  {cell[1][3] : cell \in {c \in DOMAIN world.balances : c[2] = <<"reserved", operation>>}}

(* An operation holds its slots without a gap and none of another machine,  *)
(* no slot is held twice, and an operation starts when the one before has   *)
(* ended (EXAMPLE_REVIEW.md:97: "machine capacity is never double-booked;   *)
(* precedence is preserved").                                               *)
SchedulesAreFeasible ==
  /\ \A cell \in DOMAIN world.balances : world.balances[cell] = 1
  /\ \A m \in 1 .. Stages(world.shop), t \in 0 .. world.shop[1] - 1 :
       Cardinality({cell \in DOMAIN world.balances : cell[1] = Slot(m, t)}) = 1
  /\ \A o \in Operations(world.shop) :
       LET slots == ReservedSlots(o)
           before == ReservedSlots(<<o[1], o[2] - 1>>)
       IN  slots # {} => /\ Cardinality(slots) = Duration(o) /\ Max(slots) - Min(slots) = Duration(o) - 1
                         /\ o[2] > 1 => before # {} /\ Max(before) < Min(slots)

(* The least end of all ways to give each operation a start; 99 if there is *)
(* none within the horizon.                                                 *)
LeastMakespan(shop) ==
  LET fits(s) ==
        /\ \A o \in DOMAIN s : s[o] + Duration(o) <= shop[1]
        /\ \A o \in DOMAIN s : o[2] > 1 =>
             LET before == <<o[1], o[2] - 1>> IN s[before] + Duration(before) <= s[o]
        /\ \A n \in 1 .. Stages(shop) :
             LET one == <<1, n>>  two == <<2, n>>
             IN  s[one] + Duration(one) <= s[two] \/ s[two] + Duration(two) <= s[one]
  IN  Min({99} \cup {Max({s[<<1, Stages(shop)>>], s[<<2, Stages(shop)>>]}) + 1 :
                       s \in {f \in [Operations(shop) -> 0 .. shop[1] - 1] : fits(f)}})

(* The enumerator, which knows nothing of schedules, finds the makespan of  *)
(* the best schedule, and none where there is none (scheduling.rs:183).     *)
MakespanIsLeast ==
  world.balances = Initial(world.shop) => BranchOptimize(world.balances, world.shop) = LeastMakespan(world.shop)
=============================================================================

------------------------------ MODULE Economy ------------------------------
(***************************************************************************)
(* The kernel of Axionomy: accounts that hold baskets of assets, a closed   *)
(* rate book, exchange proposals, and the one transition `apply`.           *)
(*                                                                         *)
(* Everything a caller learns about a proposal, and everything that may     *)
(* change a balance, goes through Analyze.  A basket is a total function    *)
(* whose zero entries are the assets the code's sparse map leaves out.      *)
(* Role effects are merged per account, and merging is checked addition of  *)
(* non-negative numbers, so a merge overflows at some step exactly when its *)
(* total does: totals replace the loop.                                     *)
(***************************************************************************)
EXTENDS Integers, Sequences, FiniteSets, SequencesExt, FiniteSetsExt

CONSTANTS
  Accounts,     \* identifiers of the economy's accounts
  AccountIds,   \* identifiers a proposal may name, existing or not
  Assets,
  RateIds,      \* identifiers a proposal may name, existing or not
  Rates,        \* the rate book: a function from its rate identifiers
  Invariants,   \* a sequence of weight functions [Assets -> Int]
  Expressions,  \* every expression of the rate book, with its subexpressions
  Proposals,    \* the exchanges callers propose
  Traces,       \* the traces callers replay
  Endowment,    \* the balances the economy is built with
  MaxQuantity,  \* largest value of the quantity backend (u64::MAX)
  MaxMeasure    \* largest value of the signed measure (i128::MAX)

Quantity == 0 .. MaxQuantity
Basket   == [Assets -> Quantity]
Balances == [Accounts -> Basket]

ASSUME BoundsAssumption ==
  /\ MaxQuantity \in Nat
  /\ MaxMeasure \in Nat

ASSUME FiniteAssumption == IsFiniteSet(Accounts) /\ IsFiniteSet(Assets)

ASSUME ModelAssumption ==
  /\ Accounts \subseteq AccountIds
  /\ DOMAIN Rates \subseteq RateIds
  /\ Endowment \in Balances
  /\ Traces \subseteq Seq(Proposals)
  /\ Invariants \in Seq([Assets -> Int])

ASSUME ProposalAssumption ==
  \A x \in Proposals :
    /\ x = [rate |-> x.rate, units |-> x.units, bindings |-> x.bindings, parameters |-> x.parameters]
    /\ x.rate \in RateIds
    /\ x.units \in Quantity
    /\ \A r \in DOMAIN x.bindings : x.bindings[r] \in AccountIds
    /\ \A n \in DOMAIN x.parameters : x.parameters[n] \in Quantity

-----------------------------------------------------------------------------
(* Expressions of state-evaluated rate laws: exact, checked arithmetic over *)
(* the balances before the exchange.  NoValue stands for every error.       *)

NoValue == -1

Checked(v) == IF v \in Quantity THEN v ELSE NoValue

Binary(kind, left, right) ==
  IF NoValue \in {left, right} THEN NoValue
  ELSE CASE kind = "add"          -> Checked(left + right)
         [] kind = "subtract"     -> Checked(left - right)
         [] kind = "multiply"     -> Checked(left * right)
         [] kind = "divide_floor" -> IF right = 0 THEN NoValue ELSE left \div right
         [] kind = "minimum"      -> IF left <= right THEN left ELSE right
         [] kind = "maximum"      -> IF left >= right THEN left ELSE right

Evaluate(e, x, bal) ==
  LET value[t \in Expressions] ==
        CASE t.kind = "constant"  -> t.value
          [] t.kind = "units"     -> x.units
          [] t.kind = "parameter" -> x.parameters[t.name]
          [] t.kind = "balance"   -> bal[x.bindings[t.role]][t.asset]
          [] OTHER                -> Binary(t.kind, value[t.left], value[t.right])
  IN  Checked(value[e])

(* The parameters an expression mentions. *)
Parameters(e) ==
  LET names[t \in Expressions] ==
        CASE t.kind = "parameter"                     -> {t.name}
          [] t.kind \in {"constant", "units", "balance"} -> {}
          [] OTHER                                    -> names[t.left] \cup names[t.right]
  IN  names[e]

(* The roles an expression mentions; Rate registers them as its own. *)
ExpressionRoles(e) ==
  LET named[t \in Expressions] ==
        CASE t.kind = "balance"                          -> {t.role}
          [] t.kind \in {"constant", "units", "parameter"} -> {}
          [] OTHER                                       -> named[t.left] \cup named[t.right]
  IN  named[e]

-----------------------------------------------------------------------------
(* Rates.  A rate gives every role the baskets it consumes, produces and    *)
(* preserves, pairs of roles that must differ, amounts computed from the    *)
(* state, and conditions on the state.                                      *)

Directions == {"consume", "produce", "preserve"}

LawExpressions(rate) ==
  {rate.computed[i].quantity : i \in DOMAIN rate.computed}
    \cup {rate.conditions[i].left : i \in DOMAIN rate.conditions}
    \cup {rate.conditions[i].right : i \in DOMAIN rate.conditions}

ParameterNames(rate) == UNION {Parameters(e) : e \in LawExpressions(rate)}

ASSUME RateAssumption ==
  \A id \in DOMAIN Rates : LET rate == Rates[id] IN
    /\ IsFiniteSet(rate.roles)
    /\ \A d \in Directions : rate[d] \in [rate.roles -> Basket]
    /\ \A pair \in rate.distinct : {pair[1], pair[2]} \subseteq rate.roles
    /\ \A i \in DOMAIN rate.computed :
         /\ rate.computed[i].direction \in Directions
         /\ rate.computed[i].role \in rate.roles
         /\ rate.computed[i].asset \in Assets
    /\ LawExpressions(rate) \subseteq Expressions
    /\ \A e \in LawExpressions(rate) : ExpressionRoles(e) \subseteq rate.roles

(* A rate whose effect and applicability do not read the state. *)
Static(rate) == rate.computed = <<>> /\ rate.conditions = <<>>

Satisfied(condition, x, bal) ==
  LET left  == Evaluate(condition.left, x, bal)
      right == Evaluate(condition.right, x, bal)
  IN  CASE condition.comparison = "equal"                 -> left = right
        [] condition.comparison = "greater_than_or_equal" -> left >= right
        [] condition.comparison = "less_than_or_equal"    -> left <= right

Unevaluable(condition, x, bal) ==
  NoValue \in {Evaluate(condition.left, x, bal), Evaluate(condition.right, x, bal)}

-----------------------------------------------------------------------------
(* Effects.  Several roles may bind one account: their baskets add up.      *)

Effects == [Directions -> Balances]

(* Mutant: preserved baskets scale with the units as well. *)
StaticEffectScalingAll(x) ==
  LET rate == Rates[x.rate]
      bound == [a \in Accounts |-> {r \in rate.roles : x.bindings[r] = a}]
  IN  [d \in Directions |-> [a \in Accounts |-> [s \in Assets |->
         MapThenSumSet(LAMBDA r : rate[d][r][s] * x.units, bound[a])]]]

(* Consumed and produced baskets scale with the units; preserved ones are   *)
(* read thresholds and do not.                                              *)
StaticEffect(x) ==
  LET rate == Rates[x.rate]
      times == [d \in Directions |-> IF d = "preserve" THEN 1 ELSE x.units]
      bound == [a \in Accounts |-> {r \in rate.roles : x.bindings[r] = a}]
  IN  [d \in Directions |-> [a \in Accounts |-> [s \in Assets |->
         MapThenSumSet(LAMBDA r : rate[d][r][s] * times[d], bound[a])]]]

(* The computed amounts are added in order.  An effect that overflowed, or  *)
(* met an amount without a value, stays as it is.                           *)
Unevaluated == <<>>

MergeAmount(effect, amount, x, bal) ==
  LET quantity == Evaluate(amount.quantity, x, bal)
      account  == x.bindings[amount.role]
  IN  IF effect \notin Effects THEN effect
      ELSE IF quantity = NoValue THEN Unevaluated
      ELSE [effect EXCEPT ![amount.direction][account][amount.asset] = @ + quantity]

Effect(x, bal) ==
  FoldLeft(LAMBDA effect, amount : MergeAmount(effect, amount, x, bal),
           StaticEffect(x), Rates[x.rate].computed)

Plus(left, right) ==
  [a \in Accounts |-> [s \in Assets |-> left[a][s] + right[a][s]]]

(* Mutant: what is preserved may be met by what is consumed. *)
RequiredAtLeastEither(effect) ==
  [a \in Accounts |-> [s \in Assets |->
     IF effect["consume"][a][s] >= effect["preserve"][a][s]
     THEN effect["consume"][a][s] ELSE effect["preserve"][a][s]]]

(* Consumption and preservation add up, within and across aliased roles. *)
Required(effect) == Plus(effect["consume"], effect["preserve"])

(* Mutant: the whole requirement is reported missing. *)
ShortfallWholeRequirement(bal, effect) ==
  LET required == Required(effect)
  IN  [a \in Accounts |-> [s \in Assets |->
         IF bal[a][s] < required[a][s] THEN required[a][s] ELSE 0]]

Shortfall(bal, effect) ==
  LET required == Required(effect)
  IN  [a \in Accounts |-> [s \in Assets |->
         IF bal[a][s] < required[a][s] THEN required[a][s] - bal[a][s] ELSE 0]]

Nothing == [a \in Accounts |-> [s \in Assets |-> 0]]

Settled(bal, effect) ==
  [a \in Accounts |-> [s \in Assets |->
     (bal[a][s] - effect["consume"][a][s]) + effect["produce"][a][s]]]

-----------------------------------------------------------------------------
(* Linear invariants: a weighted sum over all accounts.  The code compares  *)
(* the measures of the gross consumed and produced baskets of the touched   *)
(* accounts.  The i128 sum is checked on its total: exact when the weights  *)
(* of an invariant share a sign.                                            *)

Measure(weights, bal) ==
  MapThenSumSet(LAMBDA c : weights[c[2]] * bal[c[1]][c[2]], Accounts \X Assets)

Issue(kind, detected) == IF detected THEN {kind} ELSE {}

MeasureFits(v) == -MaxMeasure <= v /\ v <= MaxMeasure

(* Mutant: an exchange that consumes nothing measured is let through. *)
InvariantIssueConsumedOnly(weights, bal, effect) ==
  LET consumed == Measure(weights, effect["consume"])
      produced == Measure(weights, effect["produce"])
  IN  IF consumed = 0 \/ consumed = produced THEN {} ELSE {"InvariantViolation"}

InvariantIssue(weights, bal, effect) ==
  LET consumed == Measure(weights, effect["consume"])
      produced == Measure(weights, effect["produce"])
  IN  IF ~(MeasureFits(consumed) /\ MeasureFits(produced)) THEN {"InvariantOverflow"}
      ELSE IF consumed = produced THEN {}
      ELSE IF MeasureFits(Measure(weights, bal))
              /\ MeasureFits(Measure(weights, Settled(bal, effect)))
           THEN {"InvariantViolation"}
           ELSE {"InvariantOverflow"}

-----------------------------------------------------------------------------
(* Analysis: what `assess` reports and `apply` commits.                     *)

(* The proposal against the rate book and the account index.  A proposal    *)
(* naming no rate is refused before its bindings are looked at.             *)
StructuralIssues(x) ==
  Issue("ZeroUnits", x.units = 0) \cup
  IF x.rate \notin DOMAIN Rates THEN {"MissingRate"}
  ELSE LET rate == Rates[x.rate]
           named == DOMAIN x.bindings
       IN Issue("MissingBinding", \E r \in rate.roles : r \notin named)
            \cup Issue("UnknownBinding", \E r \in named : r \notin rate.roles)
            \cup Issue("MissingParameter", \E n \in ParameterNames(rate) : n \notin DOMAIN x.parameters)
            \cup Issue("UnknownParameter", \E n \in DOMAIN x.parameters : n \notin ParameterNames(rate))
            \cup Issue("RolesMustDiffer",
                       \E pair \in rate.distinct :
                         /\ {pair[1], pair[2]} \subseteq named
                         /\ x.bindings[pair[1]] = x.bindings[pair[2]])
            \cup Issue("MissingAccount",
                       \E r \in rate.roles \cap named : x.bindings[r] \notin Accounts)

(* The first condition that does not hold decides. *)
ConditionIssue(x, bal) ==
  LET conditions == Rates[x.rate].conditions
      failing == {i \in DOMAIN conditions :
                    \/ Unevaluable(conditions[i], x, bal)
                    \/ ~Satisfied(conditions[i], x, bal)}
  IN  IF failing = {} THEN {}
      ELSE IF Unevaluable(conditions[Min(failing)], x, bal)
           THEN {"RateLawEvaluation"} ELSE {"RateConditionFailed"}

(* Scaling, merging, and adding what is preserved to what is consumed. *)
EffectIssue(effect) ==
  IF effect = Unevaluated THEN {"RateLawEvaluation"}
  ELSE Issue("RateOverflow", effect \notin Effects \/ Required(effect) \notin Balances)

(* Mutant: deposits are not checked against the quantity backend. *)
SettlementIssueUncheckedDeposit(bal, effect) ==
  UNION {InvariantIssue(Invariants[i], bal, effect) : i \in DOMAIN Invariants}

(* What can still refuse a proposal whose requirements are met. *)
SettlementIssue(bal, effect) ==
  LET issues == [i \in DOMAIN Invariants |-> InvariantIssue(Invariants[i], bal, effect)]
      failing == {i \in DOMAIN Invariants : issues[i] # {}}
  IN  IF Settled(bal, effect) \notin Balances THEN {"BalanceOverflow"}
      ELSE IF failing = {} THEN {} ELSE issues[Min(failing)]

Invalid(issues) == [status |-> "Invalid", issues |-> issues]

(* A proposal whose structure and conditions hold, by its effect. *)
AnalyzeEffect(bal, effect) ==
  IF EffectIssue(effect) # {} THEN Invalid(EffectIssue(effect))
  ELSE IF Shortfall(bal, effect) # Nothing
       THEN [status |-> "Infeasible", shortfall |-> Shortfall(bal, effect)]
  ELSE IF SettlementIssue(bal, effect) # {} THEN Invalid(SettlementIssue(bal, effect))
  ELSE [status |-> "Applicable", deltas |-> effect]

Analyze(x, bal) ==
  IF StructuralIssues(x) # {} THEN Invalid(StructuralIssues(x))
  ELSE IF ConditionIssue(x, bal) # {} THEN Invalid(ConditionIssue(x, bal))
  ELSE LET effect == Effect(x, bal) IN AnalyzeEffect(bal, effect)

Applicable(x, bal) == Analyze(x, bal).status = "Applicable"

(* The balances once a proposal is applied; a refused one changes nothing. *)
Applied(x, bal) ==
  LET analysis == Analyze(x, bal)
  IN  IF analysis.status = "Applicable" THEN Settled(bal, analysis.deltas) ELSE bal

-----------------------------------------------------------------------------
(* The economy its owner mutates, a branch forked for speculative work, and *)
(* the replay in progress, if any.  A replay borrows its economy            *)
(* exclusively: nothing else happens until it returns.                      *)

VARIABLES
  live,     \* the balances of the owner's economy
  fork,     \* the balances of a solver's branch
  replay,   \* the call, its trace, how many receipts it has collected, the
            \* balances it set out from (which no code keeps) and its own branch
  answer    \* what the last call that may be refused told its caller

vars == <<live, fork, replay, answer>>

Idle == [op |-> "idle", trace |-> <<>>, done |-> 0, origin |-> Endowment, scratch |-> Endowment]

Verdict(accepted) == IF accepted THEN "ok" ELSE "refused"

Init ==
  /\ live = Endowment
  /\ fork = Endowment
  /\ replay = Idle
  /\ answer = "none"

Fork ==
  /\ replay = Idle
  /\ fork' = live
  /\ UNCHANGED <<live, replay, answer>>

Apply(x) ==
  /\ replay = Idle
  /\ live' = Applied(x, live)
  /\ answer' = Verdict(Applicable(x, live))
  /\ UNCHANGED <<fork, replay>>

ApplyToFork(x) ==
  /\ replay = Idle
  /\ fork' = Applied(x, fork)
  /\ answer' = Verdict(Applicable(x, fork))
  /\ UNCHANGED <<live, replay>>

(* A refused simulation returns an error and no branch. *)
Simulate(x) ==
  /\ replay = Idle
  /\ fork' = IF Applicable(x, live) THEN Applied(x, live) ELSE fork
  /\ answer' = Verdict(Applicable(x, live))
  /\ UNCHANGED <<live, replay>>

BeginReplay(trace) ==
  /\ replay = Idle
  /\ replay' = [Idle EXCEPT !.op = "replay", !.trace = trace, !.origin = live]
  /\ UNCHANGED <<live, fork, answer>>

BeginReplayed(trace) ==
  /\ replay = Idle
  /\ replay' = [Idle EXCEPT !.op = "replayed", !.trace = trace, !.origin = live, !.scratch = live]
  /\ UNCHANGED <<live, fork, answer>>

More == replay.done < Len(replay.trace)

Upcoming == replay.trace[replay.done + 1]

(* Mutant: a refused exchange is passed over and the next one tried. *)
ReplayStepPassingOver ==
  /\ replay.op = "replay"
  /\ More
  /\ live' = Applied(Upcoming, live)
  /\ replay' = [replay EXCEPT !.done = @ + 1]
  /\ UNCHANGED <<fork, answer>>

(* Replay in place stops at the first refusal and keeps the prefix. *)
ReplayStep ==
  /\ replay.op = "replay"
  /\ More
  /\ live' = Applied(Upcoming, live)
  /\ IF Applicable(Upcoming, live)
     THEN replay' = [replay EXCEPT !.done = @ + 1] /\ UNCHANGED answer
     ELSE replay' = Idle /\ answer' = "refused"
  /\ UNCHANGED fork

(* Mutant: the branch is handed out as far as the trace was accepted. *)
ReplayedStepKeepingPrefix ==
  /\ replay.op = "replayed"
  /\ More
  /\ IF Applicable(Upcoming, replay.scratch)
     THEN /\ replay' = [replay EXCEPT !.done = @ + 1, !.scratch = Applied(Upcoming, @)]
          /\ UNCHANGED <<fork, answer>>
     ELSE replay' = Idle /\ fork' = replay.scratch /\ answer' = "refused"
  /\ UNCHANGED live

(* `replayed` works on a branch of its own, dropped at the first refusal. *)
ReplayedStep ==
  /\ replay.op = "replayed"
  /\ More
  /\ IF Applicable(Upcoming, replay.scratch)
     THEN /\ replay' = [replay EXCEPT !.done = @ + 1, !.scratch = Applied(Upcoming, @)]
          /\ UNCHANGED answer
     ELSE replay' = Idle /\ answer' = "refused"
  /\ UNCHANGED <<live, fork>>

ReplayDone ==
  /\ replay.op \in {"replay", "replayed"}
  /\ ~More
  /\ fork' = IF replay.op = "replayed" THEN replay.scratch ELSE fork
  /\ replay' = Idle
  /\ answer' = "ok"
  /\ UNCHANGED live

Next ==
  \/ Fork
  \/ \E x \in Proposals : Apply(x) \/ ApplyToFork(x) \/ Simulate(x)
  \/ \E trace \in Traces : BeginReplay(trace) \/ BeginReplayed(trace)
  \/ ReplayStep
  \/ ReplayedStep
  \/ ReplayDone

Spec == Init /\ [][Next]_vars

-----------------------------------------------------------------------------
(* Every balance of every branch stays a value of the quantity backend: no  *)
(* overdraft and no wrap-around, whatever the rate book computes.           *)
TypeOK ==
  /\ live \in Balances
  /\ fork \in Balances
  /\ replay \in [op : {"idle", "replay", "replayed"}, trace : Seq(Proposals), done : Nat,
                 origin : Balances, scratch : Balances]
  /\ answer \in {"none", "ok", "refused"}

(* Closure: although `apply` never measures an economy, only the gross      *)
(* deltas of the accounts it touches, every declared invariant keeps the    *)
(* value the economy was built with, on the live economy and on branches.   *)
Conserved ==
  \A i \in DOMAIN Invariants : \A bal \in {live, fork, replay.scratch} :
    Measure(Invariants[i], bal) = Measure(Invariants[i], Endowment)

(* Every call is one step of the contract: although a replay works exchange *)
(* by exchange, its caller finds the economy at the end of the longest      *)
(* prefix that is accepted where it is applied, or, on a branch, the whole  *)
(* trace or nothing, and is told which; the economy and the branches never  *)
(* touch each other.  A replay in place that is under way is not yet seen.  *)
Contract == INSTANCE KernelContract
              WITH live <- IF replay.op = "replay" THEN replay.origin ELSE live,
                   Accepts <- Applicable, After <- Applied

CallsAreAtomic == Contract!Spec

(* What an exchange preserves is still there once it is applied, also when  *)
(* another role bound to the same account consumes the same asset.          *)
PreservedSurvives ==
  \A x \in Proposals : LET analysis == Analyze(x, live) IN
    analysis.status = "Applicable" =>
      \A a \in Accounts, s \in Assets :
        Settled(live, analysis.deltas)[a][s] >= analysis.deltas["preserve"][a][s]

(* n firings of one unit of a proposal, or Refused as soon as one is. *)
Refused == <<>>

Firings(x, bal, n) ==
  LET unit == [x EXCEPT !.units = 1]
      after[k \in 0 .. n] ==
        IF k = 0 THEN bal
        ELSE IF after[k - 1] # Refused /\ Applicable(unit, after[k - 1])
             THEN Applied(unit, after[k - 1]) ELSE Refused
  IN  after[n]

(* Nothing an exchange produces meets a requirement of its next firing. *)
Feedforward(x) ==
  LET effect == StaticEffect(x) IN
  \A a \in Accounts, s \in Assets :
    effect["produce"][a][s] = 0 \/ Required(effect)[a][s] = 0

(* One exchange of n units and n exchanges of one unit agree (PDD 4.3: a    *)
(* catalyst supports a batch just as it supports sequential firings).  An   *)
(* applicable batch can be fired unit by unit and ends in the same          *)
(* balances; and where production feeds nothing back, a batch whose firings *)
(* all succeed lacks nothing.                                               *)
BatchIsSequential ==
  \A x \in Proposals :
    StructuralIssues(x) = {} /\ Static(Rates[x.rate]) =>
      LET fired == Firings(x, live, x.units) IN
      /\ Applicable(x, live) => fired = Applied(x, live)
      /\ Feedforward(x) /\ fired # Refused => Analyze(x, live).status # "Infeasible"

(* The shortfall of an infeasible exchange is its exact distance to         *)
(* feasibility: depositing it makes the exchange affordable, and one atom   *)
(* less of any of its entries leaves it infeasible.                         *)
ShortfallIsDistance ==
  \A x \in Proposals : LET analysis == Analyze(x, live) IN
    analysis.status = "Infeasible" /\ Static(Rates[x.rate]) =>
      LET topped == Plus(live, analysis.shortfall) IN
      /\ Analyze(x, topped).status # "Infeasible"
      /\ \A a \in Accounts, s \in Assets :
           analysis.shortfall[a][s] > 0 =>
             Analyze(x, [topped EXCEPT ![a][s] = @ - 1]).status = "Infeasible"
=============================================================================

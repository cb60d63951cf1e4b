--------------------------- MODULE EconomyProofs ---------------------------
(***************************************************************************)
(* What the kernel promises for every rate book, set of proposals and       *)
(* quantity bound.  Sums enter through the lemmas of FiniteSums only.       *)
(***************************************************************************)
EXTENDS Economy, FiniteSums, TLAPS

(* An applicable proposal's deltas passed every check of the analysis. *)
LEMMA ApplicableChecks ==
  ASSUME NEW x, NEW bal, Applicable(x, bal)
  PROVE  /\ Analyze(x, bal).deltas = Effect(x, bal)
         /\ EffectIssue(Effect(x, bal)) = {}
         /\ Shortfall(bal, Effect(x, bal)) = Nothing
         /\ SettlementIssue(bal, Effect(x, bal)) = {}
<1> DEFINE effect == Effect(x, bal)
<1>1. Analyze(x, bal).status = "Applicable"
  BY DEF Applicable
<1>2. Analyze(x, bal) = AnalyzeEffect(bal, effect)
  <2>1. StructuralIssues(x) = {}
    BY <1>1 DEF Analyze, Invalid
  <2>2. ConditionIssue(x, bal) = {}
    BY <1>1, <2>1 DEF Analyze, Invalid
  <2> QED
    BY <2>1, <2>2 DEF Analyze
<1>3. AnalyzeEffect(bal, effect).status = "Applicable"
  BY <1>1, <1>2
<1> HIDE DEF effect
<1>4. EffectIssue(effect) = {}
  BY <1>3 DEF AnalyzeEffect, Invalid
<1>5. Shortfall(bal, effect) = Nothing
  BY <1>3, <1>4 DEF AnalyzeEffect
<1>6. SettlementIssue(bal, effect) = {}
  BY <1>3, <1>4, <1>5 DEF AnalyzeEffect, Invalid
<1>7. Analyze(x, bal).deltas = effect
  BY <1>2, <1>4, <1>5, <1>6 DEF AnalyzeEffect
<1> QED
  BY <1>4, <1>5, <1>6, <1>7 DEF effect

(* Settling an applicable proposal overflows and overdraws nothing. *)
LEMMA SettledInBalances ==
  ASSUME NEW x, NEW bal, Applicable(x, bal)
  PROVE  Settled(bal, Analyze(x, bal).deltas) \in Balances
<1>1. SettlementIssue(bal, Analyze(x, bal).deltas) = {}
  BY ApplicableChecks
<1> HIDE DEF Settled
<1> DEFINE settled == Settled(bal, Analyze(x, bal).deltas)
<1>2. SUFFICES ASSUME settled \notin Balances
               PROVE  FALSE
  OBVIOUS
<1>3. SettlementIssue(bal, Analyze(x, bal).deltas) = {"BalanceOverflow"}
  BY <1>2 DEF SettlementIssue
<1> QED
  BY <1>1, <1>3

LEMMA AppliedInBalances ==
  ASSUME NEW x, NEW bal \in Balances
  PROVE  Applied(x, bal) \in Balances
<1>1. CASE Applicable(x, bal)
  BY <1>1, SettledInBalances DEF Applied, Applicable
<1>2. CASE ~Applicable(x, bal)
  BY <1>2 DEF Applied, Applicable
<1> QED
  BY <1>1, <1>2

-----------------------------------------------------------------------------
LEMMA TypeOKInit == Init => TypeOK
<1> SUFFICES ASSUME Init PROVE TypeOK
  OBVIOUS
<1>1. Endowment \in Balances
  BY ModelAssumption
<1> QED
  BY <1>1 DEF Init, Idle, TypeOK

LEMMA TypeOKNext == TypeOK /\ [Next]_vars => TypeOK'
<1> SUFFICES ASSUME TypeOK, [Next]_vars PROVE TypeOK'
  OBVIOUS
<1> USE DEF TypeOK
<1>1. Idle \in [op : {"idle", "replay", "replayed"}, trace : Seq(Proposals), done : Nat,
                origin : Balances, scratch : Balances]
  BY ModelAssumption DEF Idle
<1>2. CASE Fork
  BY <1>2 DEF Fork
<1>3. ASSUME NEW x \in Proposals, Apply(x) PROVE TypeOK'
  BY <1>3, AppliedInBalances DEF Apply, Verdict
<1>4. ASSUME NEW x \in Proposals, ApplyToFork(x) PROVE TypeOK'
  BY <1>4, AppliedInBalances DEF ApplyToFork, Verdict
<1>5. ASSUME NEW x \in Proposals, Simulate(x) PROVE TypeOK'
  BY <1>5, AppliedInBalances DEF Simulate, Verdict
<1>6. ASSUME NEW trace \in Traces, BeginReplay(trace) PROVE TypeOK'
  BY <1>1, <1>6, ModelAssumption DEF BeginReplay, Idle
<1>7. ASSUME NEW trace \in Traces, BeginReplayed(trace) PROVE TypeOK'
  BY <1>1, <1>7, ModelAssumption DEF BeginReplayed, Idle
<1>8. CASE ReplayStep
  <2>1. live' \in Balances
    BY <1>8, AppliedInBalances DEF ReplayStep
  <2> QED
    BY <1>1, <1>8, <2>1 DEF ReplayStep
<1>9. CASE ReplayedStep
  <2>1. live' \in Balances /\ fork' \in Balances
    BY <1>9 DEF ReplayedStep
  <2>2. Applied(Upcoming, replay.scratch) \in Balances
    BY AppliedInBalances
  <2>3. CASE Applicable(Upcoming, replay.scratch)
    <3>1. /\ replay' = [replay EXCEPT !.done = @ + 1, !.scratch = Applied(Upcoming, replay.scratch)]
          /\ answer' = answer
      BY <1>9, <2>3 DEF ReplayedStep
    <3>2. /\ replay'.op = replay.op /\ replay'.trace = replay.trace /\ replay'.origin = replay.origin
          /\ replay'.done = replay.done + 1 /\ replay'.scratch = Applied(Upcoming, replay.scratch)
          /\ replay' = [op |-> replay'.op, trace |-> replay'.trace, done |-> replay'.done,
                         origin |-> replay'.origin, scratch |-> replay'.scratch]
      BY <3>1
    <3> QED  BY <2>1, <2>2, <3>1, <3>2
  <2>4. CASE ~Applicable(Upcoming, replay.scratch)
    BY <1>1, <1>9, <2>1, <2>4 DEF ReplayedStep
  <2> QED  BY <2>3, <2>4
<1>10. CASE ReplayDone
  BY <1>1, <1>10 DEF ReplayDone
<1>11. CASE UNCHANGED vars
  BY <1>11 DEF vars
<1> QED
  BY <1>2, <1>3, <1>4, <1>5, <1>6, <1>7, <1>8, <1>9, <1>10, <1>11 DEF Next

(* No economy, branch or replay scratch ever holds a balance outside the    *)
(* quantity backend: the wrap-around and the overdraft the checked          *)
(* arithmetic of Basket and Account is there to exclude.                    *)
THEOREM TypeCorrect == Spec => []TypeOK
  BY TypeOKInit, TypeOKNext, PTL DEF Spec

-----------------------------------------------------------------------------
(* A state-independent consequence of the checks: with a checked effect and *)
(* no shortfall, each balance covers what is consumed and preserved.        *)
LEMMA CoveredWithoutShortfall ==
  ASSUME NEW bal \in Balances, NEW effect,
         EffectIssue(effect) = {}, Shortfall(bal, effect) = Nothing,
         NEW a \in Accounts, NEW s \in Assets
  PROVE  /\ effect["consume"][a][s] \in Nat
         /\ effect["produce"][a][s] \in Nat
         /\ effect["preserve"][a][s] \in Nat
         /\ bal[a][s] >= effect["consume"][a][s] + effect["preserve"][a][s]
<1> USE BoundsAssumption
<1>1. effect \in Effects /\ Required(effect) \in Balances
  BY DEF EffectIssue, Issue
<1>2. /\ effect["consume"] \in Balances
      /\ effect["produce"] \in Balances
      /\ effect["preserve"] \in Balances
  BY <1>1 DEF Effects, Directions
<1>3. ASSUME NEW b \in Balances PROVE b[a][s] \in Nat
  BY DEF Balances, Basket, Quantity
<1>4. Required(effect)[a][s] = effect["consume"][a][s] + effect["preserve"][a][s]
  BY DEF Required, Plus
<1>5. Shortfall(bal, effect)[a][s] =
        IF bal[a][s] < Required(effect)[a][s] THEN Required(effect)[a][s] - bal[a][s] ELSE 0
  BY DEF Shortfall
<1>6. Shortfall(bal, effect)[a][s] = 0
  BY DEF Nothing
<1>7. bal[a][s] \in Nat /\ Required(effect)[a][s] \in Nat
  BY <1>1, <1>3
<1>8. bal[a][s] >= Required(effect)[a][s]
  BY <1>5, <1>6, <1>7
<1> QED
  BY <1>2, <1>3, <1>4, <1>8

(* A catalyst is never eaten by the exchange that needed it, whichever      *)
(* roles share its account and whatever else they consume.                  *)
THEOREM PreservedAlwaysSurvives == Spec => []PreservedSurvives
<1>1. TypeOK => PreservedSurvives
  <2> SUFFICES ASSUME TypeOK, NEW x \in Proposals, Applicable(x, live),
                      NEW a \in Accounts, NEW s \in Assets
               PROVE  LET effect == Analyze(x, live).deltas IN
                      Settled(live, effect)[a][s] >= effect["preserve"][a][s]
    BY DEF PreservedSurvives, Applicable
  <2> DEFINE effect == Analyze(x, live).deltas
  <2>1. live \in Balances
    BY DEF TypeOK
  <2>2. EffectIssue(effect) = {} /\ Shortfall(live, effect) = Nothing
    BY ApplicableChecks
  <2>3. live[a][s] \in Nat
    BY <2>1, BoundsAssumption DEF Balances, Basket, Quantity
  <2> HIDE DEF effect
  <2>4. Settled(live, effect)[a][s] =
          (live[a][s] - effect["consume"][a][s]) + effect["produce"][a][s]
    BY DEF Settled
  <2>5. /\ effect["consume"][a][s] \in Nat
        /\ effect["produce"][a][s] \in Nat
        /\ effect["preserve"][a][s] \in Nat
        /\ live[a][s] >= effect["consume"][a][s] + effect["preserve"][a][s]
    BY <2>1, <2>2, CoveredWithoutShortfall
  <2> QED
    BY <2>3, <2>4, <2>5 DEF effect
<1> QED
  BY <1>1, TypeCorrect, PTL

-----------------------------------------------------------------------------
(* Conservation: a measure is a sum, and sums are linear.                   *)

Integral == [Accounts -> [Assets -> Int]]

Weighed(weights, bal) ==
  [c \in Accounts \X Assets |-> weights[c[2]] * bal[c[1]][c[2]]]

LEMMA BalancesAreIntegral == Balances \subseteq Integral
  BY BoundsAssumption DEF Balances, Basket, Quantity, Integral

LEMMA MeasureIsTotal ==
  ASSUME NEW weights \in [Assets -> Int], NEW bal \in Integral
  PROVE  /\ Weighed(weights, bal) \in [Accounts \X Assets -> Int]
         /\ Measure(weights, bal) = Total(Weighed(weights, bal), Accounts \X Assets)
         /\ IsFiniteSet(Accounts \X Assets)
<1> DEFINE S == Accounts \X Assets
           F == Weighed(weights, bal)
           iter == CHOOSE g : g = [s \in SUBSET S |->
                     IF s = {} THEN 0
                     ELSE weights[Picked(s)[2]] * bal[Picked(s)[1]][Picked(s)[2]] + g[s \ {Picked(s)}]]
<1>1. IsFiniteSet(S)
  BY FiniteAssumption, FS_Product
<1>2. F \in [S -> Int]
  <2> SUFFICES ASSUME NEW a \in Accounts, NEW t \in Assets
               PROVE  weights[t] * bal[a][t] \in Int
    BY DEF Weighed
  <2> QED  BY DEF Integral
<1>3. PICK g : PartialSums(g, F, S)
  BY <1>1, <1>2, PartialSumsExist
<1>4. \A s \in SUBSET S : s # {} =>
        weights[Picked(s)[2]] * bal[Picked(s)[1]][Picked(s)[2]] = F[Picked(s)]
  <2> SUFFICES ASSUME NEW s \in SUBSET S, s # {}
               PROVE  weights[Picked(s)[2]] * bal[Picked(s)[1]][Picked(s)[2]] = F[Picked(s)]
    OBVIOUS
  <2>1. Picked(s) \in S
    BY ZenonT(30), <1>1, Smaller
  <2> QED  BY <2>1 DEF Weighed
<1>5. \A h : (h = [s \in SUBSET S |->
                     IF s = {} THEN 0
                     ELSE weights[Picked(s)[2]] * bal[Picked(s)[1]][Picked(s)[2]] + h[s \ {Picked(s)}]])
             <=> PartialSums(h, F, S)
  BY <1>4 DEF PartialSums
<1>6. PartialSums(iter, F, S)
  BY <1>3, <1>5
<1>7. Measure(weights, bal) = iter[S]
  BY DEF Measure, MapThenSumSet, MapThenFoldSet, Picked
<1> HIDE DEF iter, F, S
<1>8. iter[S] = Total(F, S)
  BY <1>1, <1>2, <1>6, PartialSumsEndInTotal
<1> QED
  BY <1>1, <1>2, <1>7, <1>8 DEF F, S

LEMMA MeasureType ==
  ASSUME NEW weights \in [Assets -> Int], NEW bal \in Integral
  PROVE  Measure(weights, bal) \in Int
  BY MeasureIsTotal, TotalType

LEMMA MeasuresAdd ==
  ASSUME NEW weights \in [Assets -> Int], NEW left \in Integral, NEW right \in Integral
  PROVE  /\ Plus(left, right) \in Integral
         /\ Measure(weights, Plus(left, right)) = Measure(weights, left) + Measure(weights, right)
<1> DEFINE S == Accounts \X Assets
           F == Weighed(weights, Plus(left, right))
           A == Weighed(weights, left)
           B == Weighed(weights, right)
<1>1. Plus(left, right) \in Integral
  BY DEF Plus, Integral
<1>2. \A c \in S : F[c] = A[c] + B[c]
  <2> SUFFICES ASSUME NEW a \in Accounts, NEW t \in Assets
               PROVE  weights[t] * (left[a][t] + right[a][t])
                        = weights[t] * left[a][t] + weights[t] * right[a][t]
    BY DEF Weighed, Plus
  <2>1. weights[t] \in Int /\ left[a][t] \in Int /\ right[a][t] \in Int
    BY DEF Integral
  <2> HIDE DEF F, A, B
  <2>2. \A k, x, y \in Int : k * (x + y) = k * x + k * y
    OBVIOUS
  <2> QED  BY <2>1, <2>2
<1>3. /\ F \in [S -> Int] /\ A \in [S -> Int] /\ B \in [S -> Int] /\ IsFiniteSet(S)
      /\ Measure(weights, Plus(left, right)) = Total(F, S)
      /\ Measure(weights, left) = Total(A, S)
      /\ Measure(weights, right) = Total(B, S)
  BY <1>1, MeasureIsTotal
<1> HIDE DEF F, A, B, S
<1> QED
  BY <1>1, <1>2, <1>3, TotalAdds

(* Where settlement has no issue, no invariant has.                         *)
LEMMA NoInvariantIssue ==
  ASSUME NEW bal, NEW effect, SettlementIssue(bal, effect) = {}, NEW i \in DOMAIN Invariants
  PROVE  InvariantIssue(Invariants[i], bal, effect) = {}
<1> DEFINE issues == [j \in DOMAIN Invariants |-> InvariantIssue(Invariants[j], bal, effect)]
           failing == {j \in DOMAIN Invariants : issues[j] # {}}
<1>1. failing = {}
  <2> SUFFICES ASSUME failing # {} PROVE FALSE
    OBVIOUS
  <2>1. SettlementIssue(bal, effect) = {"BalanceOverflow"} \/ SettlementIssue(bal, effect) = issues[Min(failing)]
    BY DEF SettlementIssue
  <2>2. failing \in SUBSET Nat
    BY ModelAssumption
  <2> HIDE DEF failing
  <2>3. Min(failing) \in failing
    BY <2>2, LeastOfNaturals
  <2> QED  BY <2>1, <2>3 DEF failing
<1> QED
  BY <1>1

(* An applicable proposal consumes and produces the same of every measure.  *)
LEMMA ApplicableIsBalanced ==
  ASSUME NEW x, NEW bal, Applicable(x, bal), NEW i \in DOMAIN Invariants
  PROVE  LET effect == Analyze(x, bal).deltas IN
         Measure(Invariants[i], effect["consume"]) = Measure(Invariants[i], effect["produce"])
<1> DEFINE effect == Analyze(x, bal).deltas
<1>1. InvariantIssue(Invariants[i], bal, effect) = {}
  BY ApplicableChecks, NoInvariantIssue
<1> HIDE DEF effect
<1> QED
  BY <1>1 DEF InvariantIssue, effect

(* What is settled, and what was consumed, is what there was, and what is   *)
(* produced.                                                                *)
LEMMA AppliedConserves ==
  ASSUME NEW x, NEW bal \in Balances, NEW i \in DOMAIN Invariants
  PROVE  Measure(Invariants[i], Applied(x, bal)) = Measure(Invariants[i], bal)
<1>1. CASE ~Applicable(x, bal)
  BY <1>1 DEF Applied, Applicable
<1>2. CASE Applicable(x, bal)
  <2> DEFINE effect  == Analyze(x, bal).deltas
             settled == Settled(bal, effect)
             w == Invariants[i]
  <2>1. Applied(x, bal) = settled
    BY <1>2 DEF Applied, Applicable
  <2>2. EffectIssue(effect) = {}
    BY <1>2, ApplicableChecks
  <2>3. settled \in Balances
    BY <1>2, SettledInBalances
  <2>4. Measure(w, effect["consume"]) = Measure(w, effect["produce"])
    BY <1>2, ApplicableIsBalanced
  <2>5. w \in [Assets -> Int]
    BY ModelAssumption
  <2> HIDE DEF effect, w
  <2>6. effect \in Effects
    BY <2>2 DEF EffectIssue, Issue
  <2>7. effect["consume"] \in Integral /\ effect["produce"] \in Integral
    BY <2>6, BalancesAreIntegral DEF Effects, Directions
  <2>8. bal \in Integral /\ settled \in Integral
    BY <2>3, BalancesAreIntegral
  <2>9. Plus(settled, effect["consume"]) = Plus(bal, effect["produce"])
    <3> SUFFICES ASSUME NEW a \in Accounts, NEW t \in Assets
                 PROVE  settled[a][t] + effect["consume"][a][t] = bal[a][t] + effect["produce"][a][t]
      BY DEF Plus
    <3>1. /\ bal[a][t] \in Int /\ effect["consume"][a][t] \in Int
          /\ effect["produce"][a][t] \in Int
      BY <2>7, <2>8 DEF Integral
    <3> QED  BY <3>1 DEF Settled
  <2> HIDE DEF settled
  <2>10. Measure(w, settled) + Measure(w, effect["consume"]) = Measure(w, bal) + Measure(w, effect["produce"])
    BY <2>5, <2>7, <2>8, <2>9, MeasuresAdd
  <2>11. /\ Measure(w, settled) \in Int /\ Measure(w, bal) \in Int
         /\ Measure(w, effect["consume"]) \in Int
    BY <2>5, <2>7, <2>8, MeasureType
  <2> QED  BY <2>1, <2>4, <2>10, <2>11 DEF w
<1> QED
  BY <1>1, <1>2

LEMMA ConservedInit == Init => Conserved
  BY DEF Init, Idle, Conserved

LEMMA ConservedNext == TypeOK /\ Conserved /\ [Next]_vars => Conserved'
<1> SUFFICES ASSUME TypeOK, Conserved, [Next]_vars, NEW i \in DOMAIN Invariants
             PROVE  \A bal \in {live', fork', replay'.scratch} :
                      Measure(Invariants[i], bal) = Measure(Invariants[i], Endowment)
  BY DEF Conserved
<1> DEFINE m(bal) == Measure(Invariants[i], bal)
<1>1. /\ live \in Balances /\ fork \in Balances /\ replay.scratch \in Balances
      /\ m(live) = m(Endowment) /\ m(fork) = m(Endowment) /\ m(replay.scratch) = m(Endowment)
  BY DEF TypeOK, Conserved
<1>2. \A x : /\ m(Applied(x, live)) = m(Endowment)
             /\ m(Applied(x, fork)) = m(Endowment)
             /\ m(Applied(x, replay.scratch)) = m(Endowment)
  BY <1>1, AppliedConserves
<1> HIDE DEF m
<1>3. SUFFICES m(live') = m(Endowment) /\ m(fork') = m(Endowment) /\ m(replay'.scratch) = m(Endowment)
  BY DEF m
<1>4. CASE Fork
  BY <1>1, <1>4 DEF Fork
<1>5. ASSUME NEW x \in Proposals, Apply(x) \/ ApplyToFork(x) \/ Simulate(x)
      PROVE  m(live') = m(Endowment) /\ m(fork') = m(Endowment) /\ m(replay'.scratch) = m(Endowment)
  BY <1>1, <1>2, <1>5 DEF Apply, ApplyToFork, Simulate
<1>6. ASSUME NEW trace \in Traces, BeginReplay(trace) \/ BeginReplayed(trace)
      PROVE  m(live') = m(Endowment) /\ m(fork') = m(Endowment) /\ m(replay'.scratch) = m(Endowment)
  BY <1>1, <1>6 DEF BeginReplay, BeginReplayed, Idle, TypeOK
<1>7. CASE ReplayStep
  BY <1>1, <1>2, <1>7 DEF ReplayStep, Idle, TypeOK
<1>8. CASE ReplayedStep
  <2>1. UNCHANGED <<live, fork>>
    BY <1>8 DEF ReplayedStep
  <2>2. replay'.scratch = Applied(Upcoming, replay.scratch) \/ replay'.scratch = Endowment
    <3>1. CASE Applicable(Upcoming, replay.scratch)
      <4>1. replay' = [replay EXCEPT !.done = @ + 1, !.scratch = Applied(Upcoming, replay.scratch)]
        BY <1>8, <3>1 DEF ReplayedStep
      <4> QED  BY <4>1 DEF TypeOK
    <3>2. CASE ~Applicable(Upcoming, replay.scratch)
      BY <1>8, <3>2 DEF ReplayedStep, Idle
    <3> QED  BY <3>1, <3>2
  <2> QED  BY <1>1, <1>2, <2>1, <2>2
<1>9. CASE ReplayDone
  BY <1>1, <1>9 DEF ReplayDone, Idle
<1>10. CASE UNCHANGED vars
  BY <1>1, <1>10 DEF vars
<1> QED
  BY <1>4, <1>5, <1>6, <1>7, <1>8, <1>9, <1>10 DEF Next

(* Closure: no exchange, branch or replay moves any declared measure, for   *)
(* every rate book and every signed weights, although only gross deltas     *)
(* are ever measured.                                                       *)
THEOREM AlwaysConserved == Spec => []Conserved
  BY TypeOKInit, TypeOKNext, ConservedInit, ConservedNext, PTL DEF Spec

-----------------------------------------------------------------------------
(* What a replay in progress has done: it has applied the first exchanges   *)
(* of its trace, all of them accepted, to the balances it set out from.     *)
Current == IF replay.op = "replay" THEN live ELSE replay.scratch

ReplayInv ==
  replay.op # "idle" =>
    /\ replay.trace \in Traces
    /\ replay.done \in 0 .. Len(replay.trace)
    /\ Contract!Fits(replay.trace, replay.origin, replay.done)
    /\ Current = Contract!Along(replay.trace, replay.origin)[replay.done]
    /\ replay.op = "replayed" => live = replay.origin

(* The balances along a trace are those of one exchange after the other. *)
LEMMA AlongSteps ==
  ASSUME NEW trace \in Seq(Proposals), NEW bal \in Balances
  PROVE  /\ Contract!Along(trace, bal)[0] = bal
         /\ \A k \in 1 .. Len(trace) :
              Contract!Along(trace, bal)[k] = Applied(trace[k], Contract!Along(trace, bal)[k - 1])
<1> DEFINE n == Len(trace)
           Step == [k \in 1 .. n |-> [b \in Balances |-> Applied(trace[k], b)]]
           Is(h) == h = [k \in 0 .. n |-> IF k = 0 THEN bal ELSE Applied(trace[k], h[k - 1])]
           along == CHOOSE h : Is(h)
<1>1. n \in Nat
  OBVIOUS
<1>2. Contract!Along(trace, bal) = along
  BY DEF Contract!Along
<1>3. Step \in [1 .. n -> [Balances -> Balances]]
  BY AppliedInBalances
<1> HIDE DEF n
<1>4. PICK g \in [0 .. n -> Balances] : StepByStep(g, bal, Step, n)
  <2> HIDE DEF Step
  <2> QED  BY <1>1, <1>3, StepsExist
<1>5. ASSUME NEW k \in 0 .. n
      PROVE  g[k] = IF k = 0 THEN bal ELSE Applied(trace[k], g[k - 1])
  <2>1. g[k] = IF k = 0 THEN bal ELSE Step[k][g[k - 1]]
    BY <1>4 DEF StepByStep
  <2>2. CASE k = 0
    BY <2>1, <2>2
  <2>3. CASE k # 0
    <3>1. k \in 1 .. n /\ k - 1 \in 0 .. n
      BY <1>1, <2>3
    <3>2. g[k - 1] \in Balances
      BY <1>4, <3>1
    <3> QED  BY <2>1, <2>3, <3>1, <3>2
  <2> QED  BY <2>2, <2>3
<1> HIDE DEF Step
<1>6. Is(g)
  BY <1>4, <1>5
<1>7. Is(along)
  <2> HIDE DEF Is
  <2> QED  BY <1>6
<1> HIDE DEF along
<1>8. along[0] = bal
  <2>1. 0 \in 0 .. n
    BY <1>1
  <2> QED  BY <1>7, <2>1
<1>9. ASSUME NEW k \in 1 .. n PROVE along[k] = Applied(trace[k], along[k - 1])
  <2>1. k \in 0 .. n /\ k # 0
    BY <1>1
  <2> QED  BY <1>7, <2>1
<1> QED  BY <1>2, <1>8, <1>9 DEF n

(* One more exchange fits if it is accepted where the others lead. *)
LEMMA FitsOneMore ==
  ASSUME NEW trace \in Seq(Proposals), NEW bal, NEW n \in Nat, n < Len(trace), Contract!Fits(trace, bal, n)
  PROVE  Contract!Fits(trace, bal, n + 1) <=> Applicable(trace[n + 1], Contract!Along(trace, bal)[n])
<1>1. 1 .. n + 1 = (1 .. n) \cup {n + 1} /\ (n + 1) - 1 = n
  OBVIOUS
<1> QED  BY <1>1 DEF Contract!Fits

(* A step of a replay that is accepted, and one that is not. *)
LEMMA ReplayGoesOn ==
  ASSUME TypeOK, ReplayInv, replay.op # "idle", More
  PROVE  /\ Upcoming \in Proposals
         /\ replay.done + 1 \in 1 .. Len(replay.trace)
         /\ Contract!Fits(replay.trace, replay.origin, replay.done + 1) <=> Applicable(Upcoming, Current)
         /\ Contract!Along(replay.trace, replay.origin)[replay.done + 1] = Applied(Upcoming, Current)
<1> DEFINE trace == replay.trace
           n == replay.done
<1>1. trace \in Seq(Proposals) /\ n \in Nat /\ replay.origin \in Balances
  BY DEF TypeOK
<1>2. n < Len(trace) /\ Len(trace) \in Nat
  BY <1>1 DEF More
<1>3. n + 1 \in 1 .. Len(trace) /\ (n + 1) - 1 = n
  BY <1>1, <1>2
<1>4. Contract!Fits(trace, replay.origin, n) /\ Current = Contract!Along(trace, replay.origin)[n]
  BY DEF ReplayInv
<1>5. Contract!Along(trace, replay.origin)[n + 1] = Applied(trace[n + 1], Current)
  BY <1>1, <1>3, <1>4, AlongSteps
<1>6. Contract!Fits(trace, replay.origin, n + 1) <=> Applicable(trace[n + 1], Current)
  BY <1>1, <1>2, <1>4, FitsOneMore
<1>7. Upcoming = trace[n + 1] /\ trace[n + 1] \in Proposals
  BY <1>1, <1>3 DEF Upcoming
<1> QED  BY <1>3, <1>5, <1>6, <1>7

LEMMA ReplayBegins ==
  ASSUME TypeOK, NEW trace \in Traces, replay'.op \in {"replay", "replayed"},
         replay'.trace = trace, replay'.done = 0, replay'.origin = live, Current' = live,
         UNCHANGED live
  PROVE  ReplayInv'
<1>1. trace \in Seq(Proposals) /\ live \in Balances
  BY ModelAssumption DEF TypeOK
<1>2. Len(trace) \in Nat
  BY <1>1
<1>3. Contract!Along(trace, live)[0] = live
  BY <1>1, AlongSteps
<1>4. Contract!Fits(trace, live, 0)
  BY DEF Contract!Fits
<1>5. 0 \in 0 .. Len(trace)
  BY <1>2
<1> QED  BY <1>3, <1>4, <1>5 DEF ReplayInv, Current, Contract!Fits, Contract!Along

LEMMA ReplayInvInit == Init => ReplayInv
  BY DEF Init, Idle, ReplayInv

LEMMA ReplayInvNext == TypeOK /\ ReplayInv /\ [Next]_vars => ReplayInv'
<1> SUFFICES ASSUME TypeOK, ReplayInv, [Next]_vars PROVE ReplayInv'
  OBVIOUS
<1>1. ASSUME replay' = Idle PROVE ReplayInv'
  BY <1>1 DEF Idle, ReplayInv
<1>2. ASSUME UNCHANGED <<live, replay>> PROVE ReplayInv'
  BY <1>2 DEF ReplayInv, Current
<1>3. CASE Fork
  BY <1>2, <1>3 DEF Fork
<1>4. ASSUME NEW x \in Proposals, Apply(x) \/ ApplyToFork(x) \/ Simulate(x) PROVE ReplayInv'
  BY <1>1, <1>4 DEF Apply, ApplyToFork, Simulate
<1>5. ASSUME NEW trace \in Traces, BeginReplay(trace) PROVE ReplayInv'
  <2>1. /\ replay'.op = "replay" /\ replay'.trace = trace /\ replay'.done = 0
        /\ replay'.origin = live /\ UNCHANGED live
    BY <1>5 DEF BeginReplay, Idle
  <2>2. Current' = live
    BY <2>1 DEF Current
  <2> QED  BY <2>1, <2>2, ReplayBegins
<1>6. ASSUME NEW trace \in Traces, BeginReplayed(trace) PROVE ReplayInv'
  <2>1. /\ replay'.op = "replayed" /\ replay'.trace = trace /\ replay'.done = 0
        /\ replay'.origin = live /\ replay'.scratch = live /\ UNCHANGED live
    BY <1>6 DEF BeginReplayed, Idle
  <2>2. Current' = live
    BY <2>1 DEF Current
  <2> QED  BY <2>1, <2>2, ReplayBegins
<1>7. ASSUME replay.op # "idle", More, Applicable(Upcoming, Current),
             replay'.op = replay.op, replay'.trace = replay.trace, replay'.origin = replay.origin,
             replay'.done = replay.done + 1, Current' = Applied(Upcoming, Current),
             replay.op = "replayed" => UNCHANGED live
      PROVE  ReplayInv'
  <2>1. /\ replay.done + 1 \in 1 .. Len(replay.trace)
        /\ Contract!Fits(replay.trace, replay.origin, replay.done + 1)
        /\ Contract!Along(replay.trace, replay.origin)[replay.done + 1] = Applied(Upcoming, Current)
    BY <1>7, ReplayGoesOn
  <2>2. replay.trace \in Traces /\ (replay.op = "replayed" => live = replay.origin)
    BY <1>7 DEF ReplayInv
  <2>3. replay'.done \in 0 .. Len(replay'.trace)
    BY <1>7, <2>1
  <2> QED  BY <1>7, <2>1, <2>2, <2>3 DEF ReplayInv
<1>8. CASE ReplayStep
  <2>1. replay.op = "replay" /\ More /\ Current = live /\ live' = Applied(Upcoming, live)
    BY <1>8 DEF ReplayStep, Current
  <2>2. CASE Applicable(Upcoming, live)
    <3>1. replay' = [replay EXCEPT !.done = @ + 1]
      BY <1>8, <2>2 DEF ReplayStep
    <3>2. /\ replay'.op = replay.op /\ replay'.trace = replay.trace /\ replay'.origin = replay.origin
          /\ replay'.done = replay.done + 1
      BY <3>1 DEF TypeOK
    <3>3. Current' = Applied(Upcoming, Current)
      BY <2>1, <3>2 DEF Current
    <3> QED  BY <1>7, <2>1, <2>2, <3>2, <3>3
  <2>3. CASE ~Applicable(Upcoming, live)
    BY <1>1, <1>8, <2>3 DEF ReplayStep
  <2> QED  BY <2>2, <2>3
<1>9. CASE ReplayedStep
  <2>1. replay.op = "replayed" /\ More /\ Current = replay.scratch /\ UNCHANGED live
    BY <1>9 DEF ReplayedStep, Current
  <2>2. CASE Applicable(Upcoming, replay.scratch)
    <3>1. replay' = [replay EXCEPT !.done = @ + 1, !.scratch = Applied(Upcoming, @)]
      BY <1>9, <2>2 DEF ReplayedStep
    <3>2. /\ replay'.op = replay.op /\ replay'.trace = replay.trace /\ replay'.origin = replay.origin
          /\ replay'.done = replay.done + 1 /\ replay'.scratch = Applied(Upcoming, replay.scratch)
      BY <3>1 DEF TypeOK
    <3>3. Current' = Applied(Upcoming, Current)
      BY <2>1, <3>2 DEF Current
    <3> QED  BY <1>7, <2>1, <2>2, <3>2, <3>3
  <2>3. CASE ~Applicable(Upcoming, replay.scratch)
    BY <1>1, <1>9, <2>3 DEF ReplayedStep
  <2> QED  BY <2>2, <2>3
<1>10. CASE ReplayDone
  BY <1>1, <1>10 DEF ReplayDone
<1>11. CASE UNCHANGED vars
  BY <1>2, <1>11 DEF vars
<1> QED
  BY <1>3, <1>4, <1>5, <1>6, <1>8, <1>9, <1>10, <1>11 DEF Next

(* The economy as its callers know it: during a replay in place, as it was. *)
Known == IF replay.op = "replay" THEN replay.origin ELSE live

(* A replay that is refused returns at the end of the longest prefix. *)
LEMMA RefusedReplayIsCall ==
  ASSUME TypeOK, ReplayInv, replay.op # "idle", More, ~Applicable(Upcoming, Current),
         replay' = Idle, answer' = "refused", fork' = fork,
         live' = IF replay.op = "replay" THEN Current ELSE live
  PROVE  \E trace \in Traces : Contract!Replay(trace) \/ Contract!Replayed(trace)
<1> DEFINE trace == replay.trace
           n == replay.done
<1>1. trace \in Traces /\ trace \in Seq(Proposals) /\ Len(trace) \in Nat
  BY DEF TypeOK, ReplayInv
<1>2. n \in 0 .. Len(trace) /\ n # Len(trace) /\ n + 1 \in 1 .. Len(trace)
  BY <1>1 DEF More, ReplayInv
<1>3. Contract!Fits(trace, replay.origin, n) /\ Current = Contract!Along(trace, replay.origin)[n]
  BY DEF ReplayInv
<1>4. ~Contract!Fits(trace, replay.origin, n + 1)
  BY ReplayGoesOn
<1>5. Known' = live'
  BY DEF Known, Idle
<1>6. CASE replay.op = "replay"
  <2>1. Known = replay.origin /\ Known' = Contract!Along(trace, Known)[n]
    BY <1>3, <1>5, <1>6 DEF Known
  <2>2. Contract!Fits(trace, Known, n) /\ ~Contract!Fits(trace, Known, n + 1)
    BY <1>3, <1>4, <2>1
  <2>3. answer' = Contract!Verdict(n = Len(trace))
    BY <1>2 DEF Contract!Verdict
  <2>4. Contract!Replay(trace)
    BY <1>2, <2>1, <2>2, <2>3 DEF Contract!Replay, Known
  <2> QED  BY <1>1, <2>4
<1>7. CASE replay.op # "replay"
  <2>1. Known = replay.origin /\ Known = live /\ Known' = Known
    BY <1>5, <1>7 DEF Known, ReplayInv, TypeOK
  <2>2. ~Contract!Whole(trace, Known)
    BY <1>2, <1>4, <2>1 DEF Contract!Whole, Contract!Fits
  <2>3. Contract!Replayed(trace)
    BY <2>1, <2>2 DEF Contract!Replayed, Contract!Verdict, Known
  <2> QED  BY <1>1, <2>3
<1> QED  BY <1>6, <1>7

(* A replay that comes to the end of its trace has applied all of it. *)
LEMMA DoneReplayIsCall ==
  ASSUME TypeOK, ReplayInv, ReplayDone
  PROVE  \E trace \in Traces : Contract!Replay(trace) \/ Contract!Replayed(trace)
<1> DEFINE trace == replay.trace
           n == Len(trace)
<1>1. replay.op \in {"replay", "replayed"} /\ replay' = Idle /\ answer' = "ok" /\ live' = live
  BY DEF ReplayDone
<1>2. trace \in Traces /\ trace \in Seq(Proposals) /\ n \in Nat
  BY <1>1 DEF TypeOK, ReplayInv
<1>3. replay.done = n /\ n \in 0 .. Len(trace)
  BY <1>1, <1>2 DEF More, ReplayInv, ReplayDone
<1>4. Contract!Fits(trace, replay.origin, n) /\ Current = Contract!Along(trace, replay.origin)[n]
  BY <1>1, <1>3 DEF ReplayInv
<1>5. Known' = live
  BY <1>1 DEF Known, Idle
<1>6. CASE replay.op = "replay"
  <2>1. Known = replay.origin /\ Known' = Contract!Along(trace, Known)[n] /\ fork' = fork
    BY <1>4, <1>5, <1>6 DEF Known, Current, ReplayDone
  <2>2. Contract!Fits(trace, Known, n)
    BY <1>4, <2>1
  <2>3. answer' = Contract!Verdict(n = Len(trace))
    BY <1>1 DEF Contract!Verdict
  <2>4. Contract!Replay(trace)
    BY <1>3, <2>1, <2>2, <2>3 DEF Contract!Replay, Known
  <2> QED  BY <1>2, <2>4
<1>7. CASE replay.op = "replayed"
  <2>1. Known = replay.origin /\ Known' = Known /\ fork' = Contract!Along(trace, Known)[n]
    BY <1>1, <1>4, <1>5, <1>7 DEF Known, Current, ReplayDone, ReplayInv
  <2>2. Contract!Whole(trace, Known)
    BY <1>4, <2>1 DEF Contract!Whole
  <2>3. answer' = Contract!Verdict(TRUE)
    BY <1>1 DEF Contract!Verdict
  <2>4. Contract!Replayed(trace)
    BY <2>1, <2>2, <2>3 DEF Contract!Replayed, Contract!Verdict, Known
  <2> QED  BY <1>2, <2>4
<1> QED  BY <1>1, <1>6, <1>7

LEMMA StepIsCall ==
  TypeOK /\ ReplayInv /\ [Next]_vars =>
    [Contract!Next]_<<IF replay.op = "replay" THEN replay.origin ELSE live, fork, answer>>
<1> SUFFICES ASSUME TypeOK, ReplayInv, [Next]_vars
             PROVE  Contract!Next \/ UNCHANGED <<Known, fork, answer>>
  BY DEF Known
<1>1. CASE Fork
  BY <1>1 DEF Fork, Idle, Contract!Next, Contract!Fork
<1>2. ASSUME NEW x \in Proposals, Apply(x) \/ ApplyToFork(x) \/ Simulate(x) PROVE Contract!Next
  <2>1. \A bal : ~Applicable(x, bal) => Applied(x, bal) = bal
    BY DEF Applicable, Applied
  <2>2. Contract!Apply(x) \/ Contract!ApplyToFork(x) \/ Contract!Simulate(x)
    BY <1>2, <2>1 DEF Apply, ApplyToFork, Simulate, Idle, Verdict, Contract!Apply,
       Contract!ApplyToFork, Contract!Simulate, Contract!Verdict
  <2> QED  BY <2>2 DEF Contract!Next
<1>3. ASSUME NEW trace \in Traces, BeginReplay(trace) \/ BeginReplayed(trace)
      PROVE  UNCHANGED <<Known, fork, answer>>
  <2>1. replay = Idle /\ UNCHANGED <<live, fork, answer>> /\ replay'.origin = live
    BY <1>3 DEF BeginReplay, BeginReplayed, Idle
  <2>2. Known = live
    BY <2>1 DEF Idle, Known
  <2> QED  BY <2>1, <2>2 DEF Known
<1>4. CASE ReplayStep
  <2>1. replay.op = "replay" /\ More /\ Current = live /\ live' = Applied(Upcoming, live) /\ fork' = fork
    BY <1>4 DEF ReplayStep, Current
  <2>2. CASE Applicable(Upcoming, live)
    BY <1>4, <2>1, <2>2 DEF ReplayStep, Known, TypeOK
  <2>3. CASE ~Applicable(Upcoming, live)
    <3>1. live' = Current /\ replay' = Idle /\ answer' = "refused" /\ ~Applicable(Upcoming, Current)
      BY <1>4, <2>1, <2>3 DEF ReplayStep, Applied, Applicable
    <3> QED  BY <2>1, <3>1, RefusedReplayIsCall DEF Contract!Next
  <2> QED  BY <2>2, <2>3
<1>5. CASE ReplayedStep
  <2>1. replay.op = "replayed" /\ More /\ Current = replay.scratch /\ UNCHANGED <<live, fork>>
    BY <1>5 DEF ReplayedStep, Current
  <2>2. CASE Applicable(Upcoming, replay.scratch)
    BY <1>5, <2>1, <2>2 DEF ReplayedStep, Known, TypeOK
  <2>3. CASE ~Applicable(Upcoming, replay.scratch)
    <3>1. replay' = Idle /\ answer' = "refused" /\ ~Applicable(Upcoming, Current)
      BY <1>5, <2>1, <2>3 DEF ReplayedStep
    <3> QED  BY <2>1, <3>1, RefusedReplayIsCall DEF Contract!Next
  <2> QED  BY <2>2, <2>3
<1>6. CASE ReplayDone
  BY <1>6, DoneReplayIsCall DEF Contract!Next
<1>7. CASE UNCHANGED vars
  BY <1>7 DEF vars, Known
<1> QED
  BY <1>1, <1>2, <1>3, <1>4, <1>5, <1>6, <1>7 DEF Next

(* The kernel keeps its contract: whatever is applied, simulated or         *)
(* replayed, every call is one step of KernelContract; a replay in place    *)
(* ends at the longest prefix it could apply, one on a branch is all or     *)
(* nothing, and the caller is told which (economy.rs:667, economy.rs:680).  *)
THEOREM EconomyKeepsContract == Spec => CallsAreAtomic
<1>1. Init => Contract!Init
  BY DEF Init, Idle, Contract!Init
<1> QED
  BY <1>1, TypeOKInit, TypeOKNext, ReplayInvInit, ReplayInvNext, StepIsCall, PTL
  DEF Spec, CallsAreAtomic, Contract!Spec

-----------------------------------------------------------------------------
(* Static rates: what is analyzed does not depend on the balances.          *)

LEMMA StaticEffectOnly ==
  ASSUME NEW x, NEW bal, Static(Rates[x.rate])
  PROVE  Effect(x, bal) = StaticEffect(x)
<1> DEFINE base == StaticEffect(x)
           computed == Rates[x.rate].computed
           others(s, g) == MergeAmount(g[s \ {Max(s)}], computed[Max(s)], x, bal)
           iter == CHOOSE g : g = [s \in SUBSET DOMAIN computed |-> IF s = {} THEN base ELSE others(s, g)]
<1>1. Effect(x, bal) = iter[DOMAIN computed]
  BY DEF Effect, FoldLeft, MapThenFoldSet
<1>2. DOMAIN computed = {}
  BY DEF Static
<1> HIDE DEF base, others, computed
<1>3. \A g : (g = [s \in SUBSET DOMAIN computed |-> IF s = {} THEN base ELSE others(s, g)])
               <=> g = [s \in SUBSET DOMAIN computed |-> base]
  <2> TAKE g
  <2>1. [s \in SUBSET DOMAIN computed |-> IF s = {} THEN base ELSE others(s, g)]
          = [s \in SUBSET DOMAIN computed |-> base]
    BY <1>2
  <2> QED  BY <2>1
<1>4. iter = [s \in SUBSET DOMAIN computed |-> base]
  BY <1>3
<1>5. iter[DOMAIN computed] = base
  BY <1>4
<1> QED
  BY <1>1, <1>5 DEF base

LEMMA StaticAnalysis ==
  ASSUME NEW x, NEW bal, StructuralIssues(x) = {}, Static(Rates[x.rate])
  PROVE  Analyze(x, bal) = AnalyzeEffect(bal, StaticEffect(x))
<1>1. ConditionIssue(x, bal) = {}
  BY DEF ConditionIssue, Static
<1> QED
  BY <1>1, StaticEffectOnly DEF Analyze

(* A proposal is infeasible just when its effect is sound and not covered.  *)
LEMMA InfeasibleEffect ==
  ASSUME NEW bal, NEW effect
  PROVE  /\ AnalyzeEffect(bal, effect).status = "Infeasible"
            <=> EffectIssue(effect) = {} /\ Shortfall(bal, effect) # Nothing
         /\ AnalyzeEffect(bal, effect).status = "Infeasible" =>
              AnalyzeEffect(bal, effect).shortfall = Shortfall(bal, effect)
<1> HIDE DEF EffectIssue, Shortfall, Nothing, SettlementIssue
<1>1. CASE EffectIssue(effect) # {}
  BY <1>1 DEF AnalyzeEffect, Invalid
<1>2. CASE EffectIssue(effect) = {} /\ Shortfall(bal, effect) # Nothing
  BY <1>2 DEF AnalyzeEffect
<1>3. CASE EffectIssue(effect) = {} /\ Shortfall(bal, effect) = Nothing
  <2>1. CASE SettlementIssue(bal, effect) # {}
    BY <1>3, <2>1 DEF AnalyzeEffect, Invalid
  <2>2. CASE SettlementIssue(bal, effect) = {}
    BY <1>3, <2>2 DEF AnalyzeEffect
  <2> QED  BY <2>1, <2>2
<1> QED
  BY <1>1, <1>2, <1>3

LEMMA SoundEffect ==
  ASSUME NEW effect, EffectIssue(effect) = {}, NEW a \in Accounts, NEW s \in Assets
  PROVE  /\ effect \in Effects /\ Required(effect) \in Balances
         /\ effect["consume"][a][s] \in Quantity
         /\ effect["produce"][a][s] \in Quantity
         /\ effect["preserve"][a][s] \in Quantity
         /\ Required(effect)[a][s] = effect["consume"][a][s] + effect["preserve"][a][s]
         /\ Required(effect)[a][s] \in Quantity
<1>1. effect \in Effects /\ Required(effect) \in Balances
  BY DEF EffectIssue, Issue
<1>2. effect["consume"] \in Balances /\ effect["produce"] \in Balances /\ effect["preserve"] \in Balances
  BY <1>1 DEF Effects, Directions
<1>3. Required(effect)[a][s] = effect["consume"][a][s] + effect["preserve"][a][s]
  BY DEF Required, Plus
<1> QED
  BY <1>1, <1>2, <1>3 DEF Balances, Basket

(* The shortfall is the exact distance to feasibility, whatever the rate    *)
(* book and however many roles share an account.                            *)
THEOREM ShortfallAlwaysDistance == Spec => []ShortfallIsDistance
<1>1. TypeOK => ShortfallIsDistance
  <2> SUFFICES ASSUME TypeOK, NEW x \in Proposals,
                      Analyze(x, live).status = "Infeasible", Static(Rates[x.rate])
               PROVE  LET shortfall == Analyze(x, live).shortfall
                          topped == Plus(live, shortfall) IN
                      /\ Analyze(x, topped).status # "Infeasible"
                      /\ \A a \in Accounts, s \in Assets : shortfall[a][s] > 0 =>
                           Analyze(x, [topped EXCEPT ![a][s] = @ - 1]).status = "Infeasible"
    BY DEF ShortfallIsDistance
  <2> DEFINE effect == StaticEffect(x)
             missing == Shortfall(live, effect)
             topped == Plus(live, missing)
  <2>1. StructuralIssues(x) = {}
    <3> SUFFICES ASSUME StructuralIssues(x) # {} PROVE FALSE
      OBVIOUS
    <3> QED  BY DEF Analyze, Invalid
  <2>2. \A bal : Analyze(x, bal) = AnalyzeEffect(bal, effect)
    BY <2>1, StaticAnalysis
  <2> HIDE DEF effect
  <2>3. EffectIssue(effect) = {} /\ Analyze(x, live).shortfall = missing
    BY <2>2, InfeasibleEffect
  <2>4. \A a \in Accounts, s \in Assets :
          /\ live[a][s] \in Nat /\ Required(effect)[a][s] \in Nat
          /\ missing[a][s] = IF live[a][s] < Required(effect)[a][s]
                             THEN Required(effect)[a][s] - live[a][s] ELSE 0
          /\ topped[a][s] = live[a][s] + missing[a][s]
    <3> SUFFICES ASSUME NEW a \in Accounts, NEW s \in Assets
                 PROVE  /\ live[a][s] \in Nat /\ Required(effect)[a][s] \in Nat
                        /\ missing[a][s] = IF live[a][s] < Required(effect)[a][s]
                                           THEN Required(effect)[a][s] - live[a][s] ELSE 0
                        /\ topped[a][s] = live[a][s] + missing[a][s]
      OBVIOUS
    <3>1. Required(effect)[a][s] \in Quantity
      BY <2>3, SoundEffect
    <3>2. live[a][s] \in Quantity
      BY DEF TypeOK, Balances, Basket
    <3> QED  BY <3>1, <3>2, BoundsAssumption DEF Quantity, Shortfall, Plus
  <2>5. \A bal : Shortfall(bal, effect) = Nothing <=>
          \A a \in Accounts, s \in Assets :
            (IF bal[a][s] < Required(effect)[a][s] THEN Required(effect)[a][s] - bal[a][s] ELSE 0) = 0
    <3> TAKE bal
    <3> DEFINE short(a, s) == IF bal[a][s] < Required(effect)[a][s] THEN Required(effect)[a][s] - bal[a][s] ELSE 0
    <3>1. Shortfall(bal, effect) = [a \in Accounts |-> [s \in Assets |-> short(a, s)]]
      BY DEF Shortfall
    <3> HIDE DEF short
    <3>2. [a \in Accounts |-> [s \in Assets |-> short(a, s)]] = Nothing
            <=> \A a \in Accounts, s \in Assets : short(a, s) = 0
      BY DEF Nothing
    <3> QED  BY <3>1, <3>2 DEF short
  <2>6. Analyze(x, topped).status # "Infeasible"
    <3>1. Shortfall(topped, effect) = Nothing
      <4> HIDE DEF topped, missing
      <4> QED  BY <2>4, <2>5
    <3> QED  BY <2>2, <3>1, InfeasibleEffect
  <2>7. ASSUME NEW a \in Accounts, NEW s \in Assets, missing[a][s] > 0
        PROVE  Analyze(x, [topped EXCEPT ![a][s] = @ - 1]).status = "Infeasible"
    <3> DEFINE less == [topped EXCEPT ![a][s] = @ - 1]
    <3>1. less[a][s] = topped[a][s] - 1
      BY DEF Plus
    <3>2. less[a][s] = Required(effect)[a][s] - 1
      <4> HIDE DEF less, topped, missing
      <4> QED  BY <2>4, <2>7, <3>1
    <3> HIDE DEF less, topped, missing
    <3>3. less[a][s] < Required(effect)[a][s] /\ Required(effect)[a][s] - less[a][s] # 0
      BY <2>4, <3>2
    <3>4. Shortfall(less, effect) # Nothing
      BY <2>5, <3>3
    <3> QED  BY <2>2, <2>3, <3>4, InfeasibleEffect DEF less
  <2> QED  BY <2>3, <2>6, <2>7
<1> QED
  BY <1>1, TypeCorrect, PTL

-----------------------------------------------------------------------------
(* Batches: n units at once against one unit n times.                       *)

Unit(x) == [x EXCEPT !.units = 1]

Fire(x, bal) ==
  IF bal # Refused /\ Applicable(Unit(x), bal) THEN Applied(Unit(x), bal) ELSE Refused

LEMMA FiringsAreSteps ==
  ASSUME NEW x, NEW bal, NEW n \in Nat
  PROVE  \E after :
           /\ after[0] = bal
           /\ \A k \in 1 .. n : after[k] = Fire(x, after[k - 1])
           /\ Firings(x, bal, n) = after[n]
<1> DEFINE Is(f, m) == f = [k \in 0 .. m |-> IF k = 0 THEN bal ELSE Fire(x, f[k - 1])]
           T == {m \in Nat : \E f : Is(f, m)}
           after == CHOOSE f : Is(f, n)
<1>1. 0 \in T
  <2> DEFINE f == [k \in 0 .. 0 |-> bal]
  <2>1. Is(f, 0)
    OBVIOUS
  <2> QED  BY <2>1
<1>2. ASSUME NEW m \in Nat, m \in T PROVE m + 1 \in T
  <2>1. PICK f : Is(f, m)
    BY <1>2
  <2> DEFINE g == [k \in 0 .. m + 1 |-> IF k = 0 THEN bal ELSE Fire(x, f[k - 1])]
  <2> HIDE DEF Fire
  <2>2. \A k \in 0 .. m : g[k] = f[k]
    BY <2>1
  <2>3. ASSUME NEW k \in 1 .. m + 1 PROVE g[k - 1] = f[k - 1]
    <3>1. k - 1 \in 0 .. m
      OBVIOUS
    <3> HIDE DEF g
    <3> QED  BY <2>2, <3>1
  <2>4. g = [k \in 0 .. m + 1 |-> IF k = 0 THEN bal ELSE Fire(x, g[k - 1])]
    BY <2>3
  <2> HIDE DEF g
  <2> QED  BY <2>4
<1>3. n \in T
  <2> HIDE DEF T
  <2> QED  BY <1>1, <1>2, SetOfNaturals
<1>4. Is(after, n)
  BY <1>3
<1>5. Firings(x, bal, n) = after[n]
  BY DEF Firings, Fire, Unit
<1> HIDE DEF after
<1>6. after[0] = bal /\ \A k \in 1 .. n : after[k] = Fire(x, after[k - 1])
  BY <1>4
<1> QED
  BY <1>5, <1>6

(* A proposal of a sound structure, by one unit. *)
LEMMA UnitOfProposal ==
  ASSUME NEW x \in Proposals, StructuralIssues(x) = {}, Static(Rates[x.rate])
  PROVE  /\ x.rate \in DOMAIN Rates
         /\ x.units \in Nat /\ x.units >= 1 /\ x.units <= MaxQuantity
         /\ Unit(x).rate = x.rate /\ Unit(x).bindings = x.bindings /\ Unit(x).units = 1
         /\ StructuralIssues(Unit(x)) = {}
<1>1. /\ x = [rate |-> x.rate, units |-> x.units, bindings |-> x.bindings, parameters |-> x.parameters]
      /\ x.units \in Quantity
  BY ProposalAssumption
<1>2. /\ Unit(x).rate = x.rate /\ Unit(x).bindings = x.bindings
      /\ Unit(x).parameters = x.parameters /\ Unit(x).units = 1
  BY <1>1 DEF Unit
<1>3. x.rate \in DOMAIN Rates /\ x.units # 0
  BY DEF StructuralIssues, Issue
<1>4. StructuralIssues(Unit(x)) = {}
  BY <1>2, <1>3 DEF StructuralIssues, Issue
<1> QED
  BY <1>1, <1>2, <1>3, <1>4, BoundsAssumption DEF Quantity

Bound(x, a) == {r \in Rates[x.rate].roles : x.bindings[r] = a}

Times(x, d) == IF d = "preserve" THEN 1 ELSE x.units

(* What each role bound to an account puts into its total. *)
Shares(x, d, a, s) == [r \in Bound(x, a) |-> Rates[x.rate][d][r][s] * Times(x, d)]

LEMMA StaticEffectIsTotal ==
  ASSUME NEW x, x.rate \in DOMAIN Rates, x.units \in Nat,
         NEW d \in Directions, NEW a \in Accounts, NEW s \in Assets
  PROVE  /\ IsFiniteSet(Bound(x, a))
         /\ Shares(x, d, a, s) \in [Bound(x, a) -> Nat]
         /\ StaticEffect(x)[d][a][s] = Total(Shares(x, d, a, s), Bound(x, a))
<1> DEFINE rate == Rates[x.rate]
           S == Bound(x, a)
           F == Shares(x, d, a, s)
           times == [e \in Directions |-> IF e = "preserve" THEN 1 ELSE x.units]
           iter == CHOOSE g : g = [t \in SUBSET S |->
                     IF t = {} THEN 0 ELSE rate[d][Picked(t)][s] * times[d] + g[t \ {Picked(t)}]]
<1>1. IsFiniteSet(S)
  BY RateAssumption, FS_Subset DEF Bound
<1>2. \A r \in S : rate[d][r][s] \in Nat /\ F[r] = rate[d][r][s] * times[d] /\ times[d] \in Nat
  <2> SUFFICES ASSUME NEW r \in S
               PROVE  rate[d][r][s] \in Nat /\ F[r] = rate[d][r][s] * times[d] /\ times[d] \in Nat
    OBVIOUS
  <2>1. rate[d] \in [rate.roles -> Basket]
    BY RateAssumption
  <2>2. rate[d][r][s] \in Nat
    BY <2>1, BoundsAssumption DEF Bound, Basket, Quantity
  <2> QED  BY <2>2 DEF Shares, Times
<1>3. F \in [S -> Nat]
  <2>1. F = [r \in S |-> F[r]]
    BY DEF Shares
  <2> HIDE DEF F, S, times, rate
  <2>2. \A r \in S : F[r] \in Nat
    <3>1. \A m, n \in Nat : m * n \in Nat
      OBVIOUS
    <3> QED  BY <1>2, <3>1
  <2> QED  BY <2>1, <2>2
<1>4. F \in [S -> Int]
  BY <1>3
<1>5. StaticEffect(x)[d][a][s] = iter[S]
  BY DEF StaticEffect, MapThenSumSet, MapThenFoldSet, Picked, Bound
<1> HIDE DEF rate, times, S, F
<1>6. PICK g : PartialSums(g, F, S)
  BY <1>1, <1>4, PartialSumsExist
<1>7. \A t \in SUBSET S : t # {} => rate[d][Picked(t)][s] * times[d] = F[Picked(t)]
  <2> SUFFICES ASSUME NEW t \in SUBSET S, t # {}
               PROVE  rate[d][Picked(t)][s] * times[d] = F[Picked(t)]
    OBVIOUS
  <2>1. Picked(t) \in S
    BY <1>1, Smaller
  <2> QED  BY <1>2, <2>1
<1>8. \A h : (h = [t \in SUBSET S |->
                     IF t = {} THEN 0 ELSE rate[d][Picked(t)][s] * times[d] + h[t \ {Picked(t)}]])
             <=> PartialSums(h, F, S)
  BY <1>7 DEF PartialSums
<1>9. PartialSums(iter, F, S)
  BY <1>6, <1>8
<1> HIDE DEF iter
<1>10. iter[S] = Total(F, S)
  BY <1>1, <1>4, <1>9, PartialSumsEndInTotal
<1> QED
  BY <1>1, <1>3, <1>5, <1>10 DEF S, F

(* What is consumed and produced scales with the units; what is preserved   *)
(* does not.                                                                *)
LEMMA StaticEffectScales ==
  ASSUME NEW x \in Proposals, StructuralIssues(x) = {}, Static(Rates[x.rate]),
         NEW a \in Accounts, NEW s \in Assets
  PROVE  LET effect == StaticEffect(x)
             unit   == StaticEffect(Unit(x)) IN
         /\ unit["consume"][a][s] \in Nat /\ unit["produce"][a][s] \in Nat
         /\ unit["preserve"][a][s] \in Nat
         /\ effect["consume"][a][s] = x.units * unit["consume"][a][s]
         /\ effect["produce"][a][s] = x.units * unit["produce"][a][s]
         /\ effect["preserve"][a][s] = unit["preserve"][a][s]
<1>1. /\ x.rate \in DOMAIN Rates /\ x.units \in Nat
      /\ Unit(x).rate = x.rate /\ Unit(x).bindings = x.bindings /\ Unit(x).units = 1
  BY UnitOfProposal
<1>2. Bound(Unit(x), a) = Bound(x, a)
  BY <1>1 DEF Bound
<1>3. ASSUME NEW d \in Directions
      PROVE  /\ IsFiniteSet(Bound(x, a))
             /\ Shares(Unit(x), d, a, s) \in [Bound(x, a) -> Nat]
             /\ Shares(x, d, a, s) \in [Bound(x, a) -> Nat]
             /\ StaticEffect(Unit(x))[d][a][s] = Total(Shares(Unit(x), d, a, s), Bound(x, a))
             /\ StaticEffect(x)[d][a][s] = Total(Shares(x, d, a, s), Bound(x, a))
             /\ StaticEffect(Unit(x))[d][a][s] \in Nat
  <2>1. /\ IsFiniteSet(Bound(x, a))
        /\ Shares(Unit(x), d, a, s) \in [Bound(x, a) -> Nat]
        /\ Shares(x, d, a, s) \in [Bound(x, a) -> Nat]
        /\ StaticEffect(Unit(x))[d][a][s] = Total(Shares(Unit(x), d, a, s), Bound(x, a))
        /\ StaticEffect(x)[d][a][s] = Total(Shares(x, d, a, s), Bound(x, a))
    BY <1>1, <1>2, StaticEffectIsTotal
  <2> QED  BY <2>1, TotalNatural
<1>4. ASSUME NEW d \in Directions
      PROVE  StaticEffect(x)[d][a][s] = Times(x, d) * StaticEffect(Unit(x))[d][a][s]
  <2> DEFINE S == Bound(x, a)
             F == Shares(x, d, a, s)
             A == Shares(Unit(x), d, a, s)
             k == Times(x, d)
  <2>1. \A r \in S : F[r] = k * A[r]
    <3> SUFFICES ASSUME NEW r \in S PROVE F[r] = k * A[r]
      OBVIOUS
    <3>1. F[r] = Rates[x.rate][d][r][s] * k
      BY DEF Shares
    <3>2. A[r] = Rates[x.rate][d][r][s] * 1
      BY <1>1, <1>2 DEF Shares, Times
    <3>3. Rates[x.rate][d][r][s] \in Nat
      <4>1. Rates[x.rate][d] \in [Rates[x.rate].roles -> Basket]
        BY <1>1, RateAssumption
      <4> QED  BY <4>1, BoundsAssumption DEF Bound, Basket, Quantity
    <3>4. k \in Nat
      BY <1>1 DEF Times
    <3> HIDE DEF F, A, k
    <3>5. \A m, n \in Nat : m * n = n * (m * 1)
      OBVIOUS
    <3> QED  BY <3>1, <3>2, <3>3, <3>4, <3>5
  <2>2. k \in Int
    BY <1>1 DEF Times
  <2>3. F \in [S -> Int] /\ A \in [S -> Int] /\ IsFiniteSet(S)
    BY <1>3
  <2>4. Total(F, S) = k * Total(A, S)
    <3> HIDE DEF F, A, S, k
    <3> QED  BY <2>1, <2>2, <2>3, TotalScales
  <2> QED  BY <1>3, <2>4
<1>5. Times(x, "consume") = x.units /\ Times(x, "produce") = x.units /\ Times(x, "preserve") = 1
  BY DEF Times
<1>6. \A n \in Nat : 1 * n = n
  OBVIOUS
<1> QED
  BY <1>3, <1>4, <1>5, <1>6 DEF Directions

LEMMA MoreOfTheSame ==
  ASSUME NEW c \in Nat, NEW m \in Nat, NEW n \in Nat, m <= n
  PROVE  m * c \in Nat /\ n * c \in Nat /\ m * c <= n * c
<1>1. n - m \in Nat
  OBVIOUS
<1>2. \A x, y \in Nat : x * y \in Nat
  OBVIOUS
<1>3. \A x, y \in Nat : (x + y) * c = x * c + y * c
  OBVIOUS
<1>4. n * c = m * c + (n - m) * c
  BY <1>1, <1>3
<1> QED
  BY <1>1, <1>2, <1>4

(* A balance on its way through a batch: no firing needs more than there    *)
(* is, and the balance stays between nothing and the bound.                 *)
LEMMA OnTheWay ==
  ASSUME NEW bal \in Nat, NEW c \in Nat, NEW p \in Nat, NEW kept \in Nat,
         NEW n \in Nat, NEW k \in Nat, NEW bound \in Nat, k + 1 <= n,
         bal <= bound, bal >= n * c + kept, (bal - n * c) + n * p <= bound
  PROVE  /\ (bal - k * c) + k * p >= c + kept
         /\ (((bal - k * c) + k * p) - c) + p = (bal - (k + 1) * c) + (k + 1) * p
         /\ (bal - (k + 1) * c) + (k + 1) * p \in 0 .. bound
<1>1. (k + 1) * c = k * c + c /\ (k + 1) * p = k * p + p
  OBVIOUS
<1>2. /\ k * c \in Nat /\ k * p \in Nat /\ n * c \in Nat /\ n * p \in Nat
      /\ (k + 1) * c \in Nat /\ (k + 1) * p \in Nat
      /\ (k + 1) * c <= n * c /\ (k + 1) * p <= n * p
  BY MoreOfTheSame
<1>3. (bal - (k + 1) * c) + (k + 1) * p <= bound
  <2>1. CASE p <= c
    <3>1. c - p \in Nat /\ c = p + (c - p)
      BY <2>1
    <3>2. (k + 1) * (c - p) \in Nat
      <4>1. \A x, y \in Nat : x * y \in Nat
        OBVIOUS
      <4> QED  BY <3>1, <4>1
    <3>3. \A x, y, z \in Nat : x * (y + z) = x * y + x * z
      OBVIOUS
    <3>4. (k + 1) * c = (k + 1) * p + (k + 1) * (c - p)
      BY <3>1, <3>3
    <3> QED  BY <1>2, <3>2, <3>4
  <2>2. CASE p > c
    <3>1. p - c \in Nat /\ p = c + (p - c)
      BY <2>2
    <3>2. \A x, y, z \in Nat : x * (y + z) = x * y + x * z
      OBVIOUS
    <3>3. (k + 1) * p = (k + 1) * c + (k + 1) * (p - c) /\ n * p = n * c + n * (p - c)
      BY <3>1, <3>2
    <3>4. /\ (k + 1) * (p - c) \in Nat /\ n * (p - c) \in Nat
          /\ (k + 1) * (p - c) <= n * (p - c)
      BY <3>1, MoreOfTheSame
    <3> QED  BY <1>2, <3>3, <3>4
  <2> QED  BY <2>1, <2>2
<1> QED
  BY <1>1, <1>2, <1>3

LEMMA StaticEffectShape ==
  ASSUME NEW x,
         \A d \in Directions, a \in Accounts, s \in Assets : StaticEffect(x)[d][a][s] \in Quantity
  PROVE  StaticEffect(x) \in Effects
<1> DEFINE times == [d \in Directions |-> IF d = "preserve" THEN 1 ELSE x.units]
           bound == [a \in Accounts |-> {r \in Rates[x.rate].roles : x.bindings[r] = a}]
           amount(d, a, s) == MapThenSumSet(LAMBDA r : Rates[x.rate][d][r][s] * times[d], bound[a])
<1>1. StaticEffect(x) = [d \in Directions |-> [a \in Accounts |-> [s \in Assets |-> amount(d, a, s)]]]
  BY DEF StaticEffect
<1> HIDE DEF amount
<1>2. \A d \in Directions, a \in Accounts, s \in Assets : amount(d, a, s) \in Quantity
  BY <1>1
<1> QED
  BY <1>1, <1>2 DEF Effects, Balances, Basket

(* The balances when k of the units have been fired. *)
Partly(x, bal, k) ==
  LET unit == StaticEffect(Unit(x)) IN
  [a \in Accounts |-> [s \in Assets |->
     (bal[a][s] - k * unit["consume"][a][s]) + k * unit["produce"][a][s]]]

(* The measure of scaled baskets is the scaled measure. *)
LEMMA MeasuresScale ==
  ASSUME NEW weights \in [Assets -> Int], NEW one \in Integral, NEW all \in Integral, NEW k \in Int,
         \A a \in Accounts, s \in Assets : all[a][s] = k * one[a][s]
  PROVE  Measure(weights, all) = k * Measure(weights, one)
<1> DEFINE S == Accounts \X Assets
           F == Weighed(weights, all)
           A == Weighed(weights, one)
<1>1. \A c \in S : F[c] = k * A[c]
  <2> SUFFICES ASSUME NEW a \in Accounts, NEW s \in Assets
               PROVE  weights[s] * all[a][s] = k * (weights[s] * one[a][s])
    BY DEF Weighed
  <2>1. all[a][s] = k * one[a][s] /\ weights[s] \in Int /\ one[a][s] \in Int
    BY DEF Integral
  <2> HIDE DEF F, A
  <2>2. \A w, m, n \in Int : w * (m * n) = m * (w * n)
    OBVIOUS
  <2> QED  BY <2>1, <2>2
<1>2. /\ F \in [S -> Int] /\ A \in [S -> Int] /\ IsFiniteSet(S)
      /\ Measure(weights, all) = Total(F, S) /\ Measure(weights, one) = Total(A, S)
  BY MeasureIsTotal
<1> HIDE DEF F, A, S
<1> QED
  BY <1>1, <1>2, TotalScales

(* What a batch passed, each of its firings passes. *)
LEMMA BatchChecks ==
  ASSUME NEW x \in Proposals, StructuralIssues(x) = {}, Static(Rates[x.rate]),
         NEW bal \in Balances, Applicable(x, bal),
         NEW a \in Accounts, NEW s \in Assets
  PROVE  LET unit == StaticEffect(Unit(x)) IN
         /\ bal[a][s] \in Nat /\ bal[a][s] <= MaxQuantity
         /\ unit["consume"][a][s] \in Quantity /\ unit["produce"][a][s] \in Quantity
         /\ unit["preserve"][a][s] \in Quantity
         /\ unit["consume"][a][s] + unit["preserve"][a][s] \in Quantity
         /\ bal[a][s] >= x.units * unit["consume"][a][s] + unit["preserve"][a][s]
         /\ Settled(bal, StaticEffect(x))[a][s]
              = (bal[a][s] - x.units * unit["consume"][a][s]) + x.units * unit["produce"][a][s]
         /\ Settled(bal, StaticEffect(x))[a][s] \in Quantity
<1> DEFINE effect == StaticEffect(x)
           unit == StaticEffect(Unit(x))
           n == x.units
<1>1. /\ EffectIssue(effect) = {} /\ Shortfall(bal, effect) = Nothing
      /\ Settled(bal, effect) \in Balances
  <2>1. Effect(x, bal) = effect /\ Analyze(x, bal).deltas = Effect(x, bal)
    BY StaticEffectOnly, ApplicableChecks
  <2> QED  BY <2>1, ApplicableChecks, SettledInBalances
<1>2. /\ unit["consume"][a][s] \in Nat /\ unit["produce"][a][s] \in Nat
      /\ unit["preserve"][a][s] \in Nat
      /\ effect["consume"][a][s] = n * unit["consume"][a][s]
      /\ effect["produce"][a][s] = n * unit["produce"][a][s]
      /\ effect["preserve"][a][s] = unit["preserve"][a][s]
  BY StaticEffectScales
<1>3. n \in Nat /\ n >= 1
  BY UnitOfProposal
<1> HIDE DEF effect, unit, n
<1>4. /\ effect["consume"][a][s] \in Quantity /\ effect["produce"][a][s] \in Quantity
      /\ effect["preserve"][a][s] \in Quantity
      /\ effect["consume"][a][s] + effect["preserve"][a][s] \in Quantity
  BY <1>1, SoundEffect
<1>5. bal[a][s] >= effect["consume"][a][s] + effect["preserve"][a][s]
  BY <1>1, CoveredWithoutShortfall
<1>6. bal[a][s] \in Quantity /\ Settled(bal, effect)[a][s] \in Quantity
  BY <1>1 DEF Balances, Basket
<1>7. Settled(bal, effect)[a][s] = (bal[a][s] - effect["consume"][a][s]) + effect["produce"][a][s]
  BY DEF Settled
<1>8. /\ unit["consume"][a][s] <= n * unit["consume"][a][s]
      /\ unit["produce"][a][s] <= n * unit["produce"][a][s]
  <2>1. \A c \in Nat : 1 * c = c
    OBVIOUS
  <2> QED  BY <1>2, <1>3, <2>1, MoreOfTheSame
<1> QED
  BY <1>2, <1>4, <1>5, <1>6, <1>7, <1>8, BoundsAssumption DEF Quantity, effect, unit, n

LEMMA UnitIsBalanced ==
  ASSUME NEW x \in Proposals, StructuralIssues(x) = {}, Static(Rates[x.rate]),
         NEW bal \in Balances, Applicable(x, bal), NEW between, NEW i \in DOMAIN Invariants
  PROVE  InvariantIssue(Invariants[i], between, StaticEffect(Unit(x))) = {}
<1> DEFINE effect == StaticEffect(x)
           unit == StaticEffect(Unit(x))
           n == x.units
           w == Invariants[i]
<1>1. /\ Effect(x, bal) = effect /\ Analyze(x, bal).deltas = effect
      /\ EffectIssue(effect) = {} /\ SettlementIssue(bal, effect) = {}
  <2>1. Effect(x, bal) = effect /\ Analyze(x, bal).deltas = Effect(x, bal)
    BY StaticEffectOnly, ApplicableChecks
  <2> QED  BY <2>1, ApplicableChecks
<1>2. effect \in Effects
  BY <1>1 DEF EffectIssue, Issue
<1>3. unit \in Effects
  <2>1. ASSUME NEW d \in Directions, NEW a \in Accounts, NEW s \in Assets
        PROVE  unit[d][a][s] \in Quantity
    BY BatchChecks DEF Directions
  <2> QED  BY <2>1, StaticEffectShape
<1>4. n \in Nat /\ n >= 1 /\ w \in [Assets -> Int]
  BY UnitOfProposal, ModelAssumption
<1>5. \A a \in Accounts, s \in Assets :
        /\ effect["consume"][a][s] = n * unit["consume"][a][s]
        /\ effect["produce"][a][s] = n * unit["produce"][a][s]
  BY StaticEffectScales
<1>6. InvariantIssue(w, bal, effect) = {}
  BY <1>1, NoInvariantIssue
<1> HIDE DEF effect, unit, n, w
<1>7. /\ effect["consume"] \in Integral /\ effect["produce"] \in Integral
      /\ unit["consume"] \in Integral /\ unit["produce"] \in Integral
  BY <1>2, <1>3, BalancesAreIntegral DEF Effects, Directions
<1> DEFINE spent == Measure(w, unit["consume"])
           made == Measure(w, unit["produce"])
<1>8. spent \in Int /\ made \in Int
  BY <1>4, <1>7, MeasureType
<1>9. Measure(w, effect["consume"]) = n * spent /\ Measure(w, effect["produce"]) = n * made
  <2>1. n \in Int
    BY <1>4
  <2>2. Measure(w, effect["consume"]) = n * spent
    BY ZenonT(30), <1>4, <1>5, <1>7, <2>1, MeasuresScale
  <2>3. Measure(w, effect["produce"]) = n * made
    BY ZenonT(30), <1>4, <1>5, <1>7, <2>1, MeasuresScale
  <2> QED  BY <2>2, <2>3
<1> HIDE DEF spent, made
<1>10. MeasureFits(n * spent) /\ MeasureFits(n * made) /\ n * spent = n * made
  BY <1>6, <1>9 DEF InvariantIssue
<1>11. spent = made
  <2>1. \A j \in Nat, y, z \in Int : j >= 1 /\ j * y = j * z => y = z
    <3> SUFFICES ASSUME NEW j \in Nat, NEW y \in Int, NEW z \in Int, j >= 1, y # z
                 PROVE  j * y # j * z
      OBVIOUS
    <3>1. j * (y - z) = j * y - j * z
      OBVIOUS
    <3>2. \A u, v \in Int : u # 0 /\ v # 0 => u * v # 0
      OBVIOUS
    <3>3. y - z \in Int /\ y - z # 0 /\ j # 0 /\ j \in Int
      OBVIOUS
    <3>4. j * (y - z) # 0
      BY <3>2, <3>3
    <3>5. j * y \in Int /\ j * z \in Int
      OBVIOUS
    <3> QED  BY <3>1, <3>4, <3>5
  <2> QED  BY <1>4, <1>8, <1>10, <2>1
<1>12. MeasureFits(spent)
  <2>1. CASE spent >= 0
    <3>1. 1 * spent <= n * spent
      BY <1>4, <1>8, <2>1, MoreOfTheSame
    <3> QED  BY <1>4, <1>8, <1>10, <2>1, <3>1, BoundsAssumption DEF MeasureFits
  <2>2. CASE spent < 0
    <3>1. 1 * (-spent) <= n * (-spent)
      BY <1>4, <1>8, <2>2, MoreOfTheSame
    <3>2. n * (-spent) = -(n * spent)
      BY <1>4, <1>8
    <3>3. n * spent \in Int
      BY <1>4, <1>8
    <3> QED  BY <1>8, <1>10, <2>2, <3>1, <3>2, <3>3, BoundsAssumption DEF MeasureFits
  <2> QED  BY <1>8, <2>1, <2>2
<1>13. InvariantIssue(w, between, unit) = {}
  BY <1>11, <1>12 DEF InvariantIssue, spent, made
<1> QED
  BY <1>13 DEF unit, w

LEMMA UnitIsSound ==
  ASSUME NEW x \in Proposals, StructuralIssues(x) = {}, Static(Rates[x.rate]),
         NEW bal \in Balances, Applicable(x, bal)
  PROVE  EffectIssue(StaticEffect(Unit(x))) = {}
<1> DEFINE unit == StaticEffect(Unit(x))
<1>1. \A a \in Accounts, s \in Assets :
        /\ unit["consume"][a][s] \in Quantity /\ unit["produce"][a][s] \in Quantity
        /\ unit["preserve"][a][s] \in Quantity
        /\ unit["consume"][a][s] + unit["preserve"][a][s] \in Quantity
  BY BatchChecks
<1>2. unit \in Effects
  BY <1>1, StaticEffectShape DEF Directions
<1> HIDE DEF unit
<1>3. Required(unit) \in Balances
  BY <1>1 DEF Required, Plus, Balances, Basket
<1>4. unit # Unevaluated
  <2>1. DOMAIN unit # {}
    BY <1>2 DEF Effects, Directions
  <2>2. DOMAIN Unevaluated = {}
    BY DEF Unevaluated
  <2> QED  BY <2>1, <2>2
<1> QED
  BY <1>2, <1>3, <1>4 DEF EffectIssue, Issue, unit

(* Every unit of an applicable batch can be fired in turn. *)
LEMMA BatchStep ==
  ASSUME NEW x \in Proposals, StructuralIssues(x) = {}, Static(Rates[x.rate]),
         NEW bal \in Balances, Applicable(x, bal), NEW k \in Nat, k + 1 <= x.units
  PROVE  /\ Applicable(Unit(x), Partly(x, bal, k))
         /\ Applied(Unit(x), Partly(x, bal, k)) = Partly(x, bal, k + 1)
<1> DEFINE unit == StaticEffect(Unit(x))
           now == Partly(x, bal, k)
           next == Partly(x, bal, k + 1)
<1>1. /\ x.units \in Nat /\ Unit(x).rate = x.rate /\ StructuralIssues(Unit(x)) = {}
  BY UnitOfProposal
<1>2. Analyze(Unit(x), now) = AnalyzeEffect(now, unit)
  BY <1>1, StaticAnalysis
<1>3. EffectIssue(unit) = {}
  BY UnitIsSound
<1>4. ASSUME NEW a \in Accounts, NEW s \in Assets
      PROVE  /\ now[a][s] >= unit["consume"][a][s] + unit["preserve"][a][s]
             /\ now[a][s] \in Int
             /\ unit["consume"][a][s] + unit["preserve"][a][s] \in Int
             /\ (now[a][s] - unit["consume"][a][s]) + unit["produce"][a][s] = next[a][s]
             /\ next[a][s] \in Quantity
  <2> DEFINE c == unit["consume"][a][s]
             p == unit["produce"][a][s]
             kept == unit["preserve"][a][s]
             b == bal[a][s]
             n == x.units
  <2>1. /\ b \in Nat /\ b <= MaxQuantity /\ c \in Quantity /\ p \in Quantity /\ kept \in Quantity
        /\ b >= n * c + kept /\ (b - n * c) + n * p \in Quantity
    BY BatchChecks
  <2>2. now[a][s] = (b - k * c) + k * p /\ next[a][s] = (b - (k + 1) * c) + (k + 1) * p
    BY DEF Partly
  <2> HIDE DEF now, next, c, p, kept, b, n
  <2>3. c \in Nat /\ p \in Nat /\ kept \in Nat /\ MaxQuantity \in Nat
        /\ (b - n * c) + n * p <= MaxQuantity /\ n \in Nat /\ k + 1 <= n
    BY <1>1, <2>1, BoundsAssumption DEF Quantity, n
  <2>4. /\ (b - k * c) + k * p >= c + kept
        /\ (((b - k * c) + k * p) - c) + p = (b - (k + 1) * c) + (k + 1) * p
        /\ (b - (k + 1) * c) + (k + 1) * p \in 0 .. MaxQuantity
    BY <2>1, <2>3, OnTheWay
  <2>5. k * c \in Nat /\ k * p \in Nat
    BY <2>3, MoreOfTheSame
  <2> QED  BY <2>1, <2>2, <2>3, <2>4, <2>5 DEF Quantity, c, p, kept
<1> HIDE DEF unit, now
<1>5. Shortfall(now, unit) = Nothing
  <2>1. \A a \in Accounts, s \in Assets :
          (IF now[a][s] < Required(unit)[a][s] THEN Required(unit)[a][s] - now[a][s] ELSE 0) = 0
    BY <1>4 DEF Required, Plus
  <2> QED  BY <2>1 DEF Shortfall, Nothing
<1>6. Settled(now, unit) = next
  <2>1. next = [a \in Accounts |-> [s \in Assets |-> next[a][s]]]
    BY DEF Partly
  <2> HIDE DEF next
  <2> QED  BY <1>4, <2>1 DEF Settled
<1>7. next \in Balances
  <2>1. next = [a \in Accounts |-> [s \in Assets |-> next[a][s]]]
    BY DEF Partly
  <2> HIDE DEF next
  <2> QED  BY <1>4, <2>1 DEF Balances, Basket
<1>8. SettlementIssue(now, unit) = {}
  <2>1. \A i \in DOMAIN Invariants : InvariantIssue(Invariants[i], now, unit) = {}
    BY UnitIsBalanced DEF unit
  <2> QED  BY <1>6, <1>7, <2>1 DEF SettlementIssue
<1>9. AnalyzeEffect(now, unit) = [status |-> "Applicable", deltas |-> unit]
  BY <1>3, <1>5, <1>8 DEF AnalyzeEffect
<1> HIDE DEF next
<1>10. Analyze(Unit(x), now).status = "Applicable" /\ Analyze(Unit(x), now).deltas = unit
  BY <1>2, <1>9
<1> QED
  BY <1>6, <1>10 DEF Applicable, Applied, now, next

LEMMA BatchFires ==
  ASSUME NEW x \in Proposals, StructuralIssues(x) = {}, Static(Rates[x.rate]),
         NEW bal \in Balances, Applicable(x, bal)
  PROVE  Firings(x, bal, x.units) = Applied(x, bal)
<1> DEFINE n == x.units
<1>1. n \in Nat
  BY UnitOfProposal
<1>2. PICK after :
        /\ after[0] = bal
        /\ \A k \in 1 .. n : after[k] = Fire(x, after[k - 1])
        /\ Firings(x, bal, n) = after[n]
  BY <1>1, FiringsAreSteps
<1> DEFINE T == {k \in Nat : k <= n => after[k] = Partly(x, bal, k)}
<1>3. 0 \in T
  <2>1. bal = Partly(x, bal, 0)
    <3>1. ASSUME NEW a \in Accounts, NEW s \in Assets
          PROVE  Partly(x, bal, 0)[a][s] = bal[a][s]
      <4>1. /\ StaticEffect(Unit(x))["consume"][a][s] \in Nat
            /\ StaticEffect(Unit(x))["produce"][a][s] \in Nat
            /\ bal[a][s] \in Nat
        BY StaticEffectScales, BatchChecks
      <4>2. \A b, c, p \in Nat : (b - 0 * c) + 0 * p = b
        OBVIOUS
      <4> QED  BY <4>1, <4>2 DEF Partly
    <3>2. /\ Partly(x, bal, 0) = [a \in Accounts |-> [s \in Assets |-> Partly(x, bal, 0)[a][s]]]
      BY DEF Partly
    <3>3. bal = [a \in Accounts |-> [s \in Assets |-> bal[a][s]]]
      BY DEF Balances, Basket
    <3> QED  BY <3>1, <3>2, <3>3
  <2> QED  BY <1>2, <2>1
<1>4. ASSUME NEW k \in Nat, k \in T PROVE k + 1 \in T
  <2> SUFFICES ASSUME k + 1 <= n PROVE after[k + 1] = Partly(x, bal, k + 1)
    OBVIOUS
  <2>1. after[k] = Partly(x, bal, k)
    BY <1>1, <1>4
  <2>2. after[k + 1] = Fire(x, after[k])
    <3>1. k + 1 \in 1 .. n /\ (k + 1) - 1 = k
      BY <1>1
    <3> QED  BY <1>2, <3>1
  <2>3. /\ Applicable(Unit(x), after[k])
        /\ Applied(Unit(x), after[k]) = Partly(x, bal, k + 1)
    BY <2>1, BatchStep
  <2>4. CASE Accounts = {}
    <3>1. \A j \in Nat : Partly(x, bal, j) = Refused
      BY <2>4 DEF Partly, Refused
    <3> QED  BY <2>1, <2>2, <3>1 DEF Fire
  <2>5. CASE Accounts # {}
    <3>1. after[k] # Refused
      <4>1. DOMAIN Partly(x, bal, k) = Accounts
        BY DEF Partly
      <4>2. DOMAIN Refused = {}
        BY DEF Refused
      <4> QED  BY <2>1, <2>5, <4>1, <4>2
    <3> QED  BY <2>2, <2>3, <3>1 DEF Fire
  <2> QED  BY <2>4, <2>5
<1>5. n \in T
  <2> HIDE DEF T
  <2> QED  BY <1>1, <1>3, <1>4, SetOfNaturals
<1>6. Firings(x, bal, n) = Partly(x, bal, n)
  BY <1>1, <1>2, <1>5
<1>7. Applied(x, bal) = Settled(bal, StaticEffect(x))
  BY ApplicableChecks, StaticEffectOnly DEF Applied, Applicable
<1>8. Settled(bal, StaticEffect(x)) = Partly(x, bal, n)
  <2>1. ASSUME NEW a \in Accounts, NEW s \in Assets
        PROVE  Settled(bal, StaticEffect(x))[a][s] = Partly(x, bal, n)[a][s]
    BY BatchChecks DEF Partly
  <2>2. Settled(bal, StaticEffect(x)) = [a \in Accounts |-> [s \in Assets |-> Settled(bal, StaticEffect(x))[a][s]]]
    BY DEF Settled
  <2>3. Partly(x, bal, n) = [a \in Accounts |-> [s \in Assets |-> Partly(x, bal, n)[a][s]]]
    BY DEF Partly
  <2> QED  BY <2>1, <2>2, <2>3
<1> QED
  BY <1>6, <1>7, <1>8

LEMMA FiredOnce ==
  ASSUME NEW x \in Proposals, StructuralIssues(x) = {}, Static(Rates[x.rate]),
         NEW bal \in Balances, Applicable(Unit(x), bal),
         NEW a \in Accounts, NEW s \in Assets
  PROVE  LET unit == StaticEffect(Unit(x)) IN
         /\ Applied(Unit(x), bal) \in Balances
         /\ bal[a][s] >= unit["consume"][a][s] + unit["preserve"][a][s]
         /\ Applied(Unit(x), bal)[a][s] = (bal[a][s] - unit["consume"][a][s]) + unit["produce"][a][s]
<1> DEFINE unit == StaticEffect(Unit(x))
<1>1. Unit(x).rate = x.rate
  BY UnitOfProposal
<1>2. /\ Analyze(Unit(x), bal).deltas = unit
      /\ EffectIssue(unit) = {} /\ Shortfall(bal, unit) = Nothing
  BY <1>1, ApplicableChecks, StaticEffectOnly
<1>3. Applied(Unit(x), bal) = Settled(bal, unit)
  BY <1>2 DEF Applied, Applicable
<1>4. bal[a][s] >= unit["consume"][a][s] + unit["preserve"][a][s]
  BY <1>2, CoveredWithoutShortfall
<1>5. Settled(bal, unit)[a][s] = (bal[a][s] - unit["consume"][a][s]) + unit["produce"][a][s]
  BY DEF Settled
<1> QED
  BY <1>3, <1>4, <1>5, AppliedInBalances

(* Where nothing produced is needed again, firings that all succeed show    *)
(* that there was enough for the batch.                                     *)
LEMMA FiringsCover ==
  ASSUME NEW x \in Proposals, StructuralIssues(x) = {}, Static(Rates[x.rate]),
         NEW bal \in Balances, Firings(x, bal, x.units) # Refused,
         NEW a \in Accounts, NEW s \in Assets, StaticEffect(Unit(x))["produce"][a][s] = 0
  PROVE  bal[a][s] >= x.units * StaticEffect(Unit(x))["consume"][a][s]
                        + StaticEffect(Unit(x))["preserve"][a][s]
<1> DEFINE n == x.units
           c == StaticEffect(Unit(x))["consume"][a][s]
           kept == StaticEffect(Unit(x))["preserve"][a][s]
<1>1. n \in Nat /\ n >= 1 /\ c \in Nat /\ kept \in Nat
  BY UnitOfProposal, StaticEffectScales
<1>2. PICK after :
        /\ after[0] = bal
        /\ \A k \in 1 .. n : after[k] = Fire(x, after[k - 1])
        /\ Firings(x, bal, n) = after[n]
  BY <1>1, FiringsAreSteps
<1>3. \A b \in Balances : Applicable(Unit(x), b) =>
        /\ Applied(Unit(x), b) \in Balances
        /\ b[a][s] \in Nat
        /\ b[a][s] >= c + kept
        /\ Applied(Unit(x), b)[a][s] = b[a][s] - c
  <2> SUFFICES ASSUME NEW b \in Balances, Applicable(Unit(x), b)
               PROVE  /\ Applied(Unit(x), b) \in Balances
                      /\ b[a][s] \in Nat
                      /\ b[a][s] >= c + kept
                      /\ Applied(Unit(x), b)[a][s] = b[a][s] - c
    OBVIOUS
  <2>1. /\ Applied(Unit(x), b) \in Balances
        /\ b[a][s] >= c + kept
        /\ Applied(Unit(x), b)[a][s] = (b[a][s] - c) + StaticEffect(Unit(x))["produce"][a][s]
    BY FiredOnce
  <2>2. b[a][s] \in Nat
    BY BoundsAssumption DEF Balances, Basket, Quantity
  <2> HIDE DEF c, kept
  <2> QED  BY <1>1, <2>1, <2>2
<1> HIDE DEF n, c, kept
<1>4. \A k \in 0 .. n : after[k] # Refused
  <2> DEFINE T == {j \in Nat : j <= n => after[n - j] # Refused}
  <2>1. 0 \in T
    <3>1. n - 0 = n
      BY <1>1
    <3> QED  BY <1>2, <3>1 DEF n
  <2>2. ASSUME NEW j \in Nat, j \in T PROVE j + 1 \in T
    <3> SUFFICES ASSUME j + 1 <= n PROVE after[n - (j + 1)] # Refused
      OBVIOUS
    <3>1. n - j \in 1 .. n /\ (n - j) - 1 = n - (j + 1) /\ j <= n
      BY <1>1
    <3>2. after[n - j] = Fire(x, after[n - (j + 1)]) /\ after[n - j] # Refused
      BY <1>2, <2>2, <3>1
    <3> QED  BY <3>2 DEF Fire
  <2>3. Nat \subseteq T
    <3> HIDE DEF T
    <3> QED  BY <2>1, <2>2, SetOfNaturals
  <2> TAKE k \in 0 .. n
  <2>4. n - k \in Nat /\ n - k <= n /\ n - (n - k) = k
    BY <1>1
  <2> QED  BY <2>3, <2>4
<1>5. \A k \in 0 .. n - 1 :
        Applicable(Unit(x), after[k]) /\ after[k + 1] = Applied(Unit(x), after[k])
  <2> TAKE k \in 0 .. n - 1
  <2>1. k + 1 \in 1 .. n /\ (k + 1) - 1 = k /\ k + 1 \in 0 .. n
    BY <1>1
  <2>2. after[k + 1] = Fire(x, after[k]) /\ after[k + 1] # Refused
    BY <1>2, <1>4, <2>1
  <2> QED  BY <2>2 DEF Fire
<1> DEFINE T == {k \in Nat : k <= n => after[k] \in Balances /\ after[k][a][s] = bal[a][s] - k * c}
<1>6. bal[a][s] \in Nat
  BY BoundsAssumption DEF Balances, Basket, Quantity
<1>7. 0 \in T
  <2>1. bal[a][s] - 0 * c = bal[a][s]
    BY <1>1, <1>6
  <2> QED  BY <1>2, <2>1
<1>8. ASSUME NEW k \in Nat, k \in T PROVE k + 1 \in T
  <2> SUFFICES ASSUME k + 1 <= n
               PROVE  after[k + 1] \in Balances /\ after[k + 1][a][s] = bal[a][s] - (k + 1) * c
    OBVIOUS
  <2>1. k \in 0 .. n - 1 /\ k <= n
    BY <1>1
  <2>2. after[k] \in Balances /\ after[k][a][s] = bal[a][s] - k * c
    BY <1>8, <2>1
  <2>3. after[k + 1] \in Balances /\ after[k + 1][a][s] = after[k][a][s] - c
    BY <1>3, <1>5, <2>1, <2>2
  <2>4. (k + 1) * c = k * c + c /\ k * c \in Nat
    BY <1>1, MoreOfTheSame
  <2> QED  BY <1>1, <1>6, <2>2, <2>3, <2>4
<1>9. Nat \subseteq T
  <2> HIDE DEF T
  <2> QED  BY <1>7, <1>8, SetOfNaturals
<1>10. n - 1 \in Nat /\ n - 1 <= n /\ n - 1 \in 0 .. n - 1
  BY <1>1
<1>11. after[n - 1] \in Balances /\ after[n - 1][a][s] = bal[a][s] - (n - 1) * c
  BY <1>9, <1>10
<1>12. after[n - 1][a][s] >= c + kept
  BY <1>3, <1>5, <1>10, <1>11
<1>13. (n - 1) * c + c = n * c /\ (n - 1) * c \in Nat /\ n * c \in Nat
  <2>1. \A m \in Nat : (m + 1) * c = m * c + c
    BY <1>1
  <2>2. (n - 1) + 1 = n
    BY <1>1
  <2> QED  BY <1>1, <1>10, <2>1, <2>2, MoreOfTheSame
<1>14. bal[a][s] >= n * c + kept
  BY <1>1, <1>6, <1>11, <1>12, <1>13
<1> QED
  BY <1>14 DEF n, c, kept

(* A batch is its firings, for every static rate, number of units and       *)
(* balances (PDD 4.3), and no batch is called infeasible that its firings   *)
(* show to be covered.                                                      *)
THEOREM BatchAlwaysSequential == Spec => []BatchIsSequential
<1>1. TypeOK => BatchIsSequential
  <2> SUFFICES ASSUME TypeOK, NEW x \in Proposals, StructuralIssues(x) = {}, Static(Rates[x.rate])
               PROVE  LET fired == Firings(x, live, x.units) IN
                      /\ Applicable(x, live) => fired = Applied(x, live)
                      /\ Feedforward(x) /\ fired # Refused => Analyze(x, live).status # "Infeasible"
    BY DEF BatchIsSequential
  <2> DEFINE effect == StaticEffect(x)
             unit == StaticEffect(Unit(x))
  <2>1. live \in Balances
    BY DEF TypeOK
  <2>2. Applicable(x, live) => Firings(x, live, x.units) = Applied(x, live)
    BY <2>1, BatchFires
  <2>3. ASSUME Feedforward(x), Firings(x, live, x.units) # Refused,
               Analyze(x, live).status = "Infeasible"
        PROVE  FALSE
    <3>1. EffectIssue(effect) = {} /\ Shortfall(live, effect) # Nothing
      BY <2>3, StaticAnalysis, InfeasibleEffect
    <3> HIDE DEF effect, unit
    <3>2. PICK a \in Accounts, s \in Assets : live[a][s] < Required(effect)[a][s]
      <4>1. (\A a \in Accounts, s \in Assets : ~(live[a][s] < Required(effect)[a][s]))
              => Shortfall(live, effect) = Nothing
        BY DEF Shortfall, Nothing
      <4> QED  BY <3>1, <4>1
    <3>3. /\ unit["consume"][a][s] \in Nat /\ unit["produce"][a][s] \in Nat
          /\ unit["preserve"][a][s] \in Nat
          /\ effect["consume"][a][s] = x.units * unit["consume"][a][s]
          /\ effect["produce"][a][s] = x.units * unit["produce"][a][s]
          /\ effect["preserve"][a][s] = unit["preserve"][a][s]
      BY StaticEffectScales DEF effect, unit
    <3>4. Required(effect)[a][s] = effect["consume"][a][s] + effect["preserve"][a][s]
      BY DEF Required, Plus
    <3>5. live[a][s] \in Nat /\ x.units \in Nat /\ x.units >= 1
      BY <2>1, UnitOfProposal, BoundsAssumption DEF Balances, Basket, Quantity
    <3>6. x.units * unit["consume"][a][s] \in Nat
      BY <3>3, <3>5, MoreOfTheSame
    <3>7. Required(effect)[a][s] # 0
      BY <3>2, <3>3, <3>4, <3>5, <3>6
    <3>8. effect["produce"][a][s] = 0
      BY <2>3, <3>7 DEF Feedforward, effect
    <3>9. unit["produce"][a][s] = 0
      <4>1. 1 * unit["produce"][a][s] <= x.units * unit["produce"][a][s]
        BY <3>3, <3>5, MoreOfTheSame
      <4>2. 1 * unit["produce"][a][s] = unit["produce"][a][s]
        BY <3>3
      <4> QED  BY <3>3, <3>8, <4>1, <4>2
    <3>10. live[a][s] >= x.units * unit["consume"][a][s] + unit["preserve"][a][s]
      BY <2>1, <2>3, <3>9, FiringsCover DEF unit
    <3> QED  BY <3>2, <3>3, <3>4, <3>5, <3>6, <3>10
  <2> QED  BY <2>2, <2>3
<1> QED
  BY <1>1, TypeCorrect, PTL
=============================================================================

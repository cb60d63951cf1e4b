--------------------------- MODULE StatisticsProofs ---------------------------
(***************************************************************************)
(* What the sampling sessions of the search crate count is what happened:   *)
(* for every problem, seed, budget, interruption and failure.               *)
(***************************************************************************)
EXTENDS MonteCarlo, MctsSession, IsmctsSession, FiniteSums, FiniteSetTheorems, SequenceTheorems, TLAPS

(* The samples of a policy seen so far. *)
Observed(p) ==
  IF p < mc.policyIndex THEN evaluation.samples
  ELSE IF p = mc.policyIndex THEN mc.sampleIndex ELSE 0

OutcomeVectors == Seq(Int \cup {NotFinite})

Evidence == [Contenders -> Seq(OutcomeVectors)]

McSession ==
  [policyIndex : Nat \ {0}, sampleIndex : Nat, completed : Nat, statistics : Evidence,
   surplus : Evidence, at : {"returned", "loop", "failed"}, left : Nat, idle : Nat]

McTypeInv == evaluation \in Evaluations /\ mc \in McSession

(* The place of the next sample: in range, or behind the last policy, where *)
(* nothing can have been refused.                                           *)
McPlaceInv ==
  /\ mc.policyIndex <= Len(evaluation.outcome) + 1
  /\ mc.sampleIndex < evaluation.samples \/ mc.sampleIndex = 0
  /\ mc.policyIndex \notin Contenders => mc.sampleIndex = 0
  /\ mc.at = "loop" => evaluation.samples > 0
  /\ \A p \in Contenders : mc.surplus[p] # <<>> => mc.sampleIndex < evaluation.samples

CountedIsFit ==
  \A p \in Contenders : \A i \in DOMAIN mc.statistics[p] : ~Unfit(mc.statistics[p][i])

McInv == McTypeInv /\ McPlaceInv /\ SamplesAreCommon /\ CountedIsFit /\ SurplusIsOfTheRefused

LEMMA EvaluationIsTyped ==
  ASSUME evaluation \in Evaluations
  PROVE  /\ evaluation.samples \in Nat
         /\ evaluation.outcome \in Seq([0 .. evaluation.samples - 1 -> OutcomeVectors])
         /\ Len(evaluation.outcome) \in Nat
         /\ Contenders = 1 .. Len(evaluation.outcome)
         /\ \A p \in Contenders :
              evaluation.outcome[p] \in [0 .. evaluation.samples - 1 -> OutcomeVectors]
<1>1. evaluation.samples \in Nat
      /\ evaluation.outcome \in Seq([0 .. evaluation.samples - 1 -> OutcomeVectors])
  BY EvaluationAssumption DEF OutcomeVectors
<1> DEFINE T == [0 .. evaluation.samples - 1 -> OutcomeVectors]
<1>2. evaluation.outcome \in Seq(T)
  BY <1>1
<1> HIDE DEF T
<1>3. /\ Len(evaluation.outcome) \in Nat
      /\ DOMAIN evaluation.outcome = 1 .. Len(evaluation.outcome)
      /\ \A p \in 1 .. Len(evaluation.outcome) : evaluation.outcome[p] \in T
  BY <1>2
<1> QED
  BY <1>1, <1>3 DEF Contenders, T

(* Steps leave the policies alone. *)
LEMMA StaysTyped ==
  ASSUME McInv, evaluation' = evaluation, mc' \in McSession
  PROVE  McTypeInv'
<1>1. Contenders' = Contenders
  BY DEF Contenders
<1>2. McSession' = McSession
  BY <1>1 DEF McSession, Evidence
<1> QED
  BY <1>2 DEF McInv, McTypeInv

LEMMA McInvInit == McInit => McInv
<1> SUFFICES ASSUME McInit PROVE McInv
  OBVIOUS
<1>1. evaluation \in Evaluations
  BY DEF McInit
<1>2. McTypeInv
  BY <1>1, EvaluationAssumption DEF McInit, McTypeInv, McSession, Evidence
<1>3. McPlaceInv
  BY <1>1, EvaluationIsTyped DEF McInit, McPlaceInv
<1>4. SamplesAreCommon
  <2>1. mc.policyIndex = 1 /\ mc.sampleIndex = 0 /\ mc.completed = 0
        /\ mc.statistics = [p \in Contenders |-> <<>>]
    BY DEF McInit
  <2>2. mc.completed = (mc.policyIndex - 1) * evaluation.samples + mc.sampleIndex
    BY <1>1, <2>1, EvaluationIsTyped
  <2>3. ASSUME NEW p \in Contenders
        PROVE  Observed(p) = 0 /\ mc.statistics[p] = [i \in 1 .. Observed(p) |-> evaluation.outcome[p][i - 1]]
    BY <1>1, <2>1, EvaluationIsTyped DEF Observed
  <2> QED
    BY <2>2, <2>3 DEF SamplesAreCommon, Observed
<1>5. mc.statistics = [p \in Contenders |-> <<>>] /\ mc.surplus = [p \in Contenders |-> <<>>]
  BY DEF McInit
<1>6. CountedIsFit /\ SurplusIsOfTheRefused
  BY <1>5 DEF CountedIsFit, SurplusIsOfTheRefused
<1> QED
  BY <1>2, <1>3, <1>4, <1>6 DEF McInv

(* A step that samples nothing leaves the evidence as it was. *)
LEMMA NothingSampled ==
  ASSUME McInv, evaluation' = evaluation, McTypeInv',
         mc'.policyIndex = mc.policyIndex, mc'.sampleIndex = mc.sampleIndex,
         mc'.completed = mc.completed, mc'.statistics = mc.statistics,
         \/ mc'.surplus = mc.surplus
         \/ /\ mc.policyIndex \in Contenders /\ mc.sampleIndex < evaluation.samples /\ Unfit(Sampled)
            /\ mc'.surplus = [mc.surplus EXCEPT ![mc.policyIndex] = Append(@, Sampled)],
         mc'.at = "loop" => evaluation.samples > 0
  PROVE  McInv'
<1>1. McPlaceInv'
  BY DEF McInv, McTypeInv, McSession, Evidence, McPlaceInv, Contenders
<1>2. SamplesAreCommon'
  <2>1. /\ mc.completed = (mc.policyIndex - 1) * evaluation.samples + mc.sampleIndex
        /\ \A p \in Contenders :
             mc.statistics[p] = [i \in 1 .. Observed(p) |-> evaluation.outcome[p][i - 1]]
    BY DEF McInv, SamplesAreCommon, Observed
  <2>2. Contenders' = Contenders /\ \A p \in Contenders : Observed(p)' = Observed(p)
    BY DEF Contenders, Observed
  <2>3. ASSUME NEW p \in Contenders
        PROVE  mc'.statistics[p] = [i \in 1 .. Observed(p)' |-> evaluation'.outcome[p][i - 1]]
    BY <2>1, <2>2
  <2> QED
    BY <2>1, <2>2, <2>3 DEF SamplesAreCommon, Observed
<1>3. Contenders' = Contenders /\ Sampled' = Sampled /\ \A v : Unfit(v)' <=> Unfit(v)
  BY DEF Contenders, Sampled, Unfit, Entered
<1>4. CountedIsFit'
  BY <1>3 DEF McInv, CountedIsFit, Unfit, Entered
<1>5. ASSUME NEW p \in Contenders, NEW k \in DOMAIN mc'.surplus[p]
      PROVE  p = mc.policyIndex /\ Unfit(Sampled) /\ mc'.surplus[p][k] = Sampled
  <2>1. CASE mc'.surplus[p] = mc.surplus[p]
    BY <1>5, <2>1 DEF McInv, SurplusIsOfTheRefused
  <2>2. CASE mc'.surplus[p] # mc.surplus[p]
    <3>1. p = mc.policyIndex /\ Unfit(Sampled) /\ mc'.surplus[p] = Append(mc.surplus[p], Sampled)
      BY <2>2 DEF McInv, McTypeInv, McSession, Evidence
    <3>2. mc.surplus[p] \in Seq(OutcomeVectors)
      BY DEF McInv, McTypeInv, McSession, Evidence
    <3>3. \A j \in DOMAIN mc.surplus[p] : mc.surplus[p][j] = Sampled
      BY DEF McInv, SurplusIsOfTheRefused
    <3>4. mc'.surplus[p][k] = Sampled
      BY <1>5, <3>1, <3>2, <3>3
    <3> QED
      BY <3>1, <3>4
  <2> QED
    BY <2>1, <2>2
<1>6. SurplusIsOfTheRefused'
  BY <1>3, <1>5 DEF SurplusIsOfTheRefused, Unfit, Entered
<1> QED
  BY <1>1, <1>2, <1>4, <1>6 DEF McInv

(* A sample that is observed is the next one of its policy. *)
LEMMA SampleKeeps == McInv /\ McSample => McInv'
<1> SUFFICES ASSUME McInv, McSample PROVE McInv'
  OBVIOUS
<1> DEFINE n == evaluation.samples
           q == mc.policyIndex
           s == mc.sampleIndex
           last == s + 1 = n
<1>1. /\ evaluation \in Evaluations /\ evaluation' = evaluation
      /\ q \in Contenders /\ q \in Nat \ {0} /\ s \in Nat /\ mc.completed \in Nat
      /\ mc.at = "loop" /\ ~Unfit(Sampled)
      /\ mc \in McSession /\ mc.statistics \in [Contenders -> Seq(OutcomeVectors)]
  BY DEF McInv, McTypeInv, McSession, Evidence, McSample, McMoreWork
<1>2. n \in Nat /\ n > 0 /\ s < n
  BY <1>1, EvaluationIsTyped DEF McInv, McPlaceInv
<1>3. evaluation.outcome[q] \in [0 .. n - 1 -> OutcomeVectors] /\ q \in 1 .. Len(evaluation.outcome)
      /\ Len(evaluation.outcome) \in Nat /\ Contenders = 1 .. Len(evaluation.outcome)
  BY <1>1, EvaluationIsTyped
<1>4. Sampled = evaluation.outcome[q][s] /\ Sampled \in OutcomeVectors
  BY <1>1, <1>2, <1>3 DEF Sampled
<1>5. /\ mc'.completed = mc.completed + 1
      /\ mc'.statistics = [mc.statistics EXCEPT ![q] = Append(@, Sampled)]
      /\ mc'.sampleIndex = (IF last THEN 0 ELSE s + 1)
      /\ mc'.policyIndex = (IF last THEN q + 1 ELSE q)
      /\ mc'.at = mc.at /\ mc'.surplus = mc.surplus
  BY <1>1 DEF McSample, McSession
<1>6. Contenders' = Contenders
  BY <1>1 DEF Contenders
<1>7. Append(mc.statistics[q], Sampled) \in Seq(OutcomeVectors)
  BY <1>1, <1>4
<1>8. mc'.statistics \in [Contenders -> Seq(OutcomeVectors)]
  BY <1>1, <1>5, <1>7
<1>9. McTypeInv'
  <2>1. [mc.statistics EXCEPT ![q] = Append(@, Sampled)] \in Evidence
    BY <1>5, <1>8 DEF Evidence
  <2>2. mc' \in McSession
    <3>1. /\ mc.left - 1 \in Nat /\ mc.completed + 1 \in Nat
          /\ s + 1 \in Nat /\ q + 1 \in Nat \ {0}
      BY <1>1 DEF McSession, McSample, McMoreWork
    <3> QED
      BY <1>1, <2>1, <3>1 DEF McSession, McSample
  <2> QED
    BY <1>1, <2>2, StaysTyped
<1>14. \A p \in Contenders : mc.surplus[p] = <<>>
  <2> TAKE p \in Contenders
  <2>1. mc.surplus[p] \in Seq(OutcomeVectors) /\ DOMAIN mc.surplus[p] = {}
    BY <1>1 DEF McInv, McTypeInv, McSession, Evidence, SurplusIsOfTheRefused
  <2>2. DOMAIN mc.surplus[p] = 1 .. Len(mc.surplus[p])
    BY <2>1, LenProperties
  <2>3. SUFFICES ASSUME mc.surplus[p] # <<>> PROVE FALSE
    OBVIOUS
  <2>4. Len(mc.surplus[p]) \in Nat \ {0}
    BY <2>1, <2>3, EmptySeq
  <2>5. 1 \in 1 .. Len(mc.surplus[p])
    BY <2>4
  <2> QED
    BY <2>1, <2>2, <2>5
<1>10. McPlaceInv'
  <2>1. mc'.policyIndex <= Len(evaluation.outcome) + 1
    BY <1>1, <1>3, <1>5
  <2>2. mc'.sampleIndex < n \/ mc'.sampleIndex = 0
    BY <1>1, <1>2, <1>5
  <2>3. mc'.policyIndex \notin Contenders => mc'.sampleIndex = 0
    BY <1>1, <1>5
  <2> QED
    BY <1>1, <1>2, <1>5, <1>6, <1>14, <2>1, <2>2, <2>3 DEF McPlaceInv
<1>11. mc'.completed = (mc'.policyIndex - 1) * n + mc'.sampleIndex
  <2>1. mc.completed = (q - 1) * n + s
    BY <1>1 DEF McInv, SamplesAreCommon
  <2>2. CASE last
    <3>1. mc'.policyIndex - 1 = q /\ mc'.sampleIndex = 0 /\ mc'.completed = (q - 1) * n + n
      BY SMTT(20), <1>1, <1>2, <1>5, <2>1, <2>2
    <3>2. (q - 1) * n + n = q * n
      BY <1>1, <1>2
    <3> QED
      BY <1>1, <1>2, <3>1, <3>2
  <2>3. CASE ~last
    BY <1>1, <1>2, <1>5, <2>1, <2>3
  <2> QED
    BY <2>2, <2>3
<1>12. ASSUME NEW p \in Contenders
       PROVE  mc'.statistics[p] = [i \in 1 .. Observed(p)' |-> evaluation.outcome[p][i - 1]]
  <2>1. mc.statistics[p] = [i \in 1 .. Observed(p) |-> evaluation.outcome[p][i - 1]]
    BY DEF McInv, SamplesAreCommon, Observed
  <2>2. CASE p # q
    <3>1. Observed(p)' = Observed(p)
      BY <1>1, <1>2, <1>3, <1>5, <2>2 DEF Observed
    <3> QED
      BY <1>1, <1>5, <2>1, <2>2, <3>1
  <2>3. CASE p = q
    <3>1. Observed(p) = s /\ Observed(p)' = s + 1
      BY <1>1, <1>2, <1>5, <2>3 DEF Observed
    <3>2. mc'.statistics[p] = Append(mc.statistics[q], Sampled)
      BY <1>1, <1>5, <2>3
    <3>3. Len(mc.statistics[q]) = s
      BY <1>1, <2>1, <2>3, <3>1
    <3> DEFINE seen  == mc.statistics[q]
               after == [i \in 1 .. s + 1 |-> evaluation.outcome[q][i - 1]]
    <3>4. /\ seen \in Seq(OutcomeVectors) /\ DOMAIN seen = 1 .. s
          /\ \A i \in 1 .. s : seen[i] = evaluation.outcome[q][i - 1]
      BY <1>1, <2>1, <2>3, <3>1
    <3>5. Append(seen, Sampled) = after
      <4> HIDE DEF seen
      <4>1. Len(seen) = s /\ Append(seen, Sampled) \in Seq(OutcomeVectors) /\ Len(Append(seen, Sampled)) = s + 1
        BY <1>1, <1>4, <3>3, <3>4 DEF seen
      <4>2. DOMAIN Append(seen, Sampled) = 1 .. s + 1
        BY <1>1, <4>1
      <4>3. ASSUME NEW i \in 1 .. s + 1
            PROVE  Append(seen, Sampled)[i] = evaluation.outcome[q][i - 1]
        <5>1. CASE i = s + 1
          BY <1>1, <1>4, <3>4, <4>1, <5>1
        <5>2. CASE i # s + 1
          <6>1. i \in 1 .. s
            BY <1>1, <5>2
          <6> QED
            BY SMTT(20), <1>1, <1>4, <3>4, <4>1, <6>1
        <5> QED
          BY <5>1, <5>2
      <4>5. Append(seen, Sampled) \in [1 .. s + 1 -> OutcomeVectors]
        BY <4>1, <4>2, LenProperties
      <4>4. Append(seen, Sampled) = [i \in 1 .. s + 1 |-> Append(seen, Sampled)[i]]
        BY <4>5
      <4> QED
        BY <4>3, <4>4
    <3> QED
      BY <2>3, <3>1, <3>2, <3>5
  <2> QED
    BY <2>2, <2>3
<1>13. SamplesAreCommon'
  BY <1>1, <1>6, <1>11, <1>12 DEF SamplesAreCommon, Observed
<1>15. CountedIsFit'
  <2>1. ASSUME NEW p \in Contenders, NEW i \in DOMAIN mc'.statistics[p]
        PROVE  ~Unfit(mc'.statistics[p][i])
    <3>1. mc.statistics[p] \in Seq(OutcomeVectors) /\ \A j \in DOMAIN mc.statistics[p] : ~Unfit(mc.statistics[p][j])
      BY <1>1 DEF McInv, CountedIsFit
    <3>2. CASE p # q
      BY <1>1, <1>5, <2>1, <3>1, <3>2
    <3>3. CASE p = q
      <4>1. mc'.statistics[p] = Append(mc.statistics[p], Sampled)
        BY <1>1, <1>5, <3>3
      <4>2. mc'.statistics[p][i] = Sampled
             \/ (i \in DOMAIN mc.statistics[p] /\ mc'.statistics[p][i] = mc.statistics[p][i])
        BY <1>4, <2>1, <3>1, <4>1
      <4> QED
        BY <1>1, <3>1, <4>2
    <3> QED
      BY <3>2, <3>3
  <2> QED
    BY <1>1, <1>6, <2>1 DEF CountedIsFit, Unfit, Entered
<1>16. SurplusIsOfTheRefused'
  BY <1>5, <1>6, <1>14 DEF SurplusIsOfTheRefused
<1> QED
  BY <1>9, <1>10, <1>13, <1>15, <1>16 DEF McInv

LEMMA McInvNext == McInv /\ [McNext]_mcVars => McInv'
<1> SUFFICES ASSUME McInv, [McNext]_mcVars PROVE McInv'
  OBVIOUS
<1>1. ASSUME NEW units \in SampleBudgets, McAdvance(units) PROVE McInv'
  <2>1. evaluation.samples > 0
    BY <1>1, EvaluationIsTyped DEF McInv, McTypeInv, McAdvance, McCompleted
  <2>2. mc \in McSession /\ evaluation' = evaluation
    BY <1>1 DEF McInv, McTypeInv, McAdvance
  <2>3. mc' \in McSession
    <3>1. units \in Nat /\ (units = 0 => mc.idle - 1 \in Nat)
      BY <1>1, <2>2, EvaluationAssumption DEF McSession, McAdvance
    <3> QED
      BY <1>1, <2>2, <3>1 DEF McSession, McAdvance
  <2>4. McTypeInv'
    BY <2>2, <2>3, StaysTyped
  <2> QED
    BY <1>1, <2>1, <2>2, <2>4, NothingSampled DEF McSession, McInv, McPlaceInv, McAdvance,
       McMoreWork
<1>2. CASE McInterrupt
  <2>1. mc \in McSession /\ evaluation' = evaluation
    BY <1>2 DEF McInv, McTypeInv, McInterrupt
  <2>2. mc' \in McSession
    <3>1. mc.idle - 1 \in Nat
      BY <1>2, <2>1, EvaluationAssumption DEF McSession, McInterrupt
    <3> QED
      BY <1>2, <2>1, <3>1 DEF McSession, McInterrupt
  <2>3. McTypeInv'
    BY <2>1, <2>2, StaysTyped
  <2> QED
    BY <1>2, <2>1, <2>3, NothingSampled DEF McSession, McInv, McPlaceInv, McInterrupt, McMoreWork
<1>3. CASE McExperimentFails
  <2>1. mc \in McSession /\ evaluation' = evaluation
    BY <1>3 DEF McInv, McTypeInv, McExperimentFails
  <2>2. mc' \in McSession
    <3>1. mc.idle - 1 \in Nat
      BY <1>3, <2>1, EvaluationAssumption DEF McSession, McExperimentFails
    <3> QED
      BY <1>3, <2>1, <3>1 DEF McSession, McExperimentFails
  <2>3. McTypeInv'
    BY <2>1, <2>2, StaysTyped
  <2> QED
    BY <1>3, <2>1, <2>3, NothingSampled DEF McSession, McInv, McPlaceInv, McExperimentFails,
       McMoreWork
<1>4. CASE McObservationFails
  <2>1. mc \in McSession /\ evaluation' = evaluation
    BY <1>4 DEF McInv, McTypeInv, McObservationFails
  <2>4. /\ mc.policyIndex \in Contenders /\ mc.sampleIndex < evaluation.samples
        /\ Sampled \in OutcomeVectors /\ Unfit(Sampled) /\ mc.at = "loop"
    <3>1. /\ mc.policyIndex \in Contenders /\ mc.at = "loop" /\ Unfit(Sampled)
          /\ mc.sampleIndex < evaluation.samples \/ mc.sampleIndex = 0
          /\ evaluation.samples \in Nat /\ evaluation.samples > 0 /\ mc.sampleIndex \in Nat
      BY <1>4, <2>1, EvaluationIsTyped DEF McInv, McTypeInv, McSession, McPlaceInv, McObservationFails, McMoreWork
    <3>2. evaluation.outcome[mc.policyIndex] \in [0 .. evaluation.samples - 1 -> OutcomeVectors]
      BY <3>1, EvaluationIsTyped DEF McInv, McTypeInv
    <3> QED
      BY <3>1, <3>2 DEF Sampled
  <2> DEFINE grown == [mc.surplus EXCEPT ![mc.policyIndex] = Append(@, Sampled)]
  <2>5. grown \in Evidence
    BY <2>1, <2>4 DEF McSession, Evidence
  <2>6. /\ mc'.policyIndex = mc.policyIndex /\ mc'.sampleIndex = mc.sampleIndex
        /\ mc'.completed = mc.completed /\ mc'.statistics = mc.statistics
        /\ mc'.surplus = grown /\ mc'.at # "loop"
    BY <1>4, <2>1 DEF McSession, McObservationFails
  <2> HIDE DEF grown
  <2>2. mc' \in McSession
    <3>1. mc.idle > 0 => mc.idle - 1 \in Nat
      BY <2>1 DEF McSession
    <3>2. mc' = [policyIndex |-> mc.policyIndex, sampleIndex |-> mc.sampleIndex,
                 completed |-> mc.completed, statistics |-> mc.statistics, surplus |-> grown,
                 at |-> IF mc.idle > 0 THEN "returned" ELSE "failed", left |-> mc.left,
                 idle |-> IF mc.idle > 0 THEN mc.idle - 1 ELSE mc.idle]
      BY <1>4, <2>1 DEF McSession, McObservationFails, grown
    <3> QED
      BY <2>1, <2>5, <3>1, <3>2 DEF McSession
  <2>3. McTypeInv'
    BY <2>1, <2>2, StaysTyped
  <2> QED
    BY <2>1, <2>3, <2>4, <2>6, NothingSampled DEF grown
<1>5. CASE McSample
  BY <1>5, SampleKeeps
<1>6. CASE McReturn
  <2>1. mc \in McSession /\ evaluation' = evaluation
    BY <1>6 DEF McInv, McTypeInv, McReturn
  <2>2. mc' \in McSession
    BY <1>6, <2>1 DEF McSession, McReturn
  <2>3. McTypeInv'
    BY <2>1, <2>2, StaysTyped
  <2> QED
    BY <1>6, <2>1, <2>3, NothingSampled DEF McSession, McInv, McPlaceInv, McReturn, McMoreWork
<1>7. CASE UNCHANGED mcVars
  <2>1. evaluation' = evaluation /\ mc' = mc
    BY <1>7 DEF mcVars
  <2>2. McTypeInv'
    BY <2>1, StaysTyped DEF McInv, McTypeInv
  <2> QED
    BY <2>1, <2>2, NothingSampled DEF McInv, McPlaceInv
<1> QED
  BY <1>1, <1>2, <1>3, <1>4, <1>5, <1>6, <1>7 DEF McNext

(* Estimates of a completed evaluation are of all samples of their policy.  *)
LEMMA CompletedIsCounted ==
  ASSUME McInv, McCompleted, NEW p \in Contenders
  PROVE  /\ \A i \in DOMAIN evaluation.outcome[p] : ~Unfit(evaluation.outcome[p][i])
         /\ \A d \in 1 .. evaluation.dimensions :
              /\ Estimate(p, d).samples = evaluation.samples
              /\ Estimate(p, d).positive
                   = Cardinality({i \in DOMAIN evaluation.outcome[p] : evaluation.outcome[p][i][d] > 0})
<1> DEFINE n == evaluation.samples
           outcomes == evaluation.outcome[p]
           seen == mc.statistics[p]
<1>1. /\ n \in Nat /\ outcomes \in [0 .. n - 1 -> OutcomeVectors]
      /\ Contenders = 1 .. Len(evaluation.outcome) /\ Len(evaluation.outcome) \in Nat
  BY EvaluationIsTyped DEF McInv, McTypeInv
<1>8. /\ mc.policyIndex \in Nat \ {0} /\ mc.sampleIndex \in Nat
      /\ mc.policyIndex <= Len(evaluation.outcome) + 1
      /\ mc.sampleIndex < n \/ mc.sampleIndex = 0
      /\ seen \in Seq(OutcomeVectors) /\ mc.surplus[p] \in Seq(OutcomeVectors)
      /\ \A i \in DOMAIN seen : ~Unfit(seen[i])
  BY DEF McInv, McTypeInv, McSession, Evidence, McPlaceInv, CountedIsFit
<1>9. mc.surplus[p] = <<>>
  <2>1. CASE mc.policyIndex \notin Contenders
    BY <1>8, <2>1 DEF McInv, SurplusIsOfTheRefused
  <2>2. CASE n = 0
    BY <1>8, <2>2 DEF McInv, McPlaceInv
  <2> QED
    BY <2>1, <2>2 DEF McCompleted
<1>2. Observed(p) = n
  <2>1. CASE mc.policyIndex \notin Contenders
    BY <1>1, <1>8, <2>1 DEF Observed
  <2>2. CASE n = 0
    BY <1>1, <1>8, <2>2 DEF Observed
  <2> QED
    BY <2>1, <2>2 DEF McCompleted
<1>3. seen = [i \in 1 .. n |-> outcomes[i - 1]]
  BY <1>2 DEF McInv, SamplesAreCommon, Observed
<1>4. Len(seen) = n /\ DOMAIN seen = 1 .. n
  BY <1>1, <1>3
<1> HIDE DEF n, outcomes, seen
<1>5. ASSUME NEW i \in 0 .. n - 1 PROVE outcomes[i] = seen[i + 1] /\ ~Unfit(outcomes[i])
  <2>1. i + 1 \in 1 .. n /\ (i + 1) - 1 = i
    BY <1>1
  <2>2. seen[i + 1] = outcomes[(i + 1) - 1]
    BY <1>3, <2>1
  <2>3. ~Unfit(seen[i + 1])
    BY <1>4, <1>8, <2>1
  <2> QED
    BY <2>1, <2>2, <2>3
<1>6. \A i \in DOMAIN outcomes : ~Unfit(outcomes[i])
  BY <1>1, <1>5
<1>7. ASSUME NEW d \in 1 .. evaluation.dimensions
      PROVE  Cardinality({i \in DOMAIN seen : seen[i][d] > 0})
               = Cardinality({i \in DOMAIN outcomes : outcomes[i][d] > 0})
  <2> DEFINE A == {i \in DOMAIN outcomes : outcomes[i][d] > 0}
             B == {i \in DOMAIN seen : seen[i][d] > 0}
             f == [i \in A |-> i + 1]
  <2>1. A \subseteq 0 .. n - 1 /\ B \subseteq 1 .. n
    BY <1>1, <1>4
  <2>2. IsFiniteSet(A)
    <3> HIDE DEF A
    <3>1. IsFiniteSet(0 .. n - 1)
      BY <1>1, FS_Interval
    <3> QED
      BY <2>1, <3>1, FS_Subset
  <2>3. f \in [A -> B]
    BY <1>1, <1>4, <1>5, <2>1
  <2>4. \A i, j \in A : f[i] = f[j] => i = j
    BY <1>1, <2>1
  <2>5. ASSUME NEW j \in B PROVE \E i \in A : f[i] = j
    <3>1. j - 1 \in 0 .. n - 1 /\ outcomes[j - 1] = seen[j] /\ seen[j][d] > 0
      BY <1>1, <1>5, <2>1
    <3>2. j - 1 \in A
      BY <1>1, <3>1
    <3> QED
      BY <1>1, <2>1, <3>2
  <2>6. f \in Bijection(A, B)
    BY <2>3, <2>4, <2>5 DEF Bijection, Injection, Surjection, IsInjective
  <2> HIDE DEF A, B, f
  <2>7. Cardinality(A) = Cardinality(B)
    BY <2>2, <2>6, FS_Bijection DEF ExistsBijection
  <2> QED
    BY <2>7 DEF A, B
<1>10. ASSUME NEW d \in 1 .. evaluation.dimensions
       PROVE  /\ Estimate(p, d).samples = Len(seen)
              /\ Estimate(p, d).positive = Cardinality({i \in DOMAIN seen : seen[i][d] > 0})
  <2> DEFINE parts == {k \in DOMAIN mc.surplus[p] : d \in Entered(mc.surplus[p][k])}
             positive == {i \in DOMAIN seen : seen[i][d] > 0}
  <2>1. parts = {} /\ {k \in parts : mc.surplus[p][k][d] > 0} = {}
    BY <1>9
  <2>2. Cardinality({}) = 0
    BY FS_EmptySet
  <2>3. IsFiniteSet(positive) /\ Cardinality(positive) \in Nat
    <3>1. IsFiniteSet(1 .. n) /\ positive \subseteq 1 .. n
      BY <1>1, <1>4, FS_Interval
    <3> HIDE DEF positive
    <3> QED
      BY <3>1, FS_Subset, FS_CardinalityType
  <2>4. /\ Estimate(p, d).samples = Len(seen) + Cardinality(parts)
        /\ Estimate(p, d).positive
             = Cardinality(positive) + Cardinality({k \in parts : mc.surplus[p][k][d] > 0})
    BY DEF Estimate, seen
  <2> HIDE DEF parts, positive
  <2>5. Len(seen) \in Nat
    BY <1>1, <1>4
  <2>6. Estimate(p, d).samples = Len(seen) /\ Estimate(p, d).positive = Cardinality(positive)
    BY <2>1, <2>2, <2>3, <2>4, <2>5
  <2> QED
    BY <2>6 DEF positive
<1>11. \A i \in DOMAIN evaluation.outcome[p] : ~Unfit(evaluation.outcome[p][i])
  BY <1>6 DEF outcomes
<1>12. ASSUME NEW d \in 1 .. evaluation.dimensions
       PROVE  /\ Estimate(p, d).samples = evaluation.samples
              /\ Estimate(p, d).positive
                   = Cardinality({i \in DOMAIN evaluation.outcome[p] : evaluation.outcome[p][i][d] > 0})
  <2>1. /\ Estimate(p, d).samples = n
        /\ Estimate(p, d).positive = Cardinality({i \in DOMAIN outcomes : outcomes[i][d] > 0})
    BY <1>4, <1>7, <1>10
  <2> QED
    BY <2>1 DEF n, outcomes
<1> QED
  BY <1>11, <1>12

LEMMA CompletedIsComplete == McInv => EstimatesAreComplete
<1> SUFFICES ASSUME McInv PROVE EstimatesAreComplete
  OBVIOUS
<1>1. CASE ~McCompleted
  BY <1>1 DEF EstimatesAreComplete, IntoEstimates
<1>2. CASE McCompleted
  <2>1. DOMAIN IntoEstimates = Contenders /\ \A p \in Contenders : \A d \in 1 .. evaluation.dimensions :
                                                         IntoEstimates[p][d] = Estimate(p, d)
    BY <1>2 DEF IntoEstimates
  <2> QED
    BY <1>2, <2>1, CompletedIsCounted DEF EstimatesAreComplete
<1> QED
  BY <1>1, <1>2

(* The invariant of every evaluation (monte_carlo.rs). *)
THEOREM McAlwaysInv == McSpec => []McInv
<1>1. McInit => McInv
  BY McInvInit
<1>2. McInv /\ [McNext]_mcVars => McInv'
  BY McInvNext
<1> QED  BY <1>1, <1>2, PTL DEF McSpec

(* Policies are compared on common samples: whatever is interrupted, fails  *)
(* or is tried again, the evidence of each policy is its samples in order,  *)
(* once each; what was taken of a vector that was refused half-way is of    *)
(* the sample everybody waits for, and no completed estimate contains it.   *)
THEOREM EvidenceAlwaysCommon == McSpec => []EvidenceIsCommon
<1>1. McInv => EvidenceIsCommon
  BY CompletedIsComplete DEF McInv, EvidenceIsCommon
<1> QED  BY <1>1, McAlwaysInv, PTL

-----------------------------------------------------------------------------
(* Monte Carlo tree search. *)

LEMMA GameIsTyped ==
  ASSUME problem \in Games
  PROVE  /\ problem.initial \in Worlds
         /\ problem.candidates \in [Worlds -> Seq(Exchanges)]
         /\ problem.outcome \in [Worlds -> [Exchanges -> Worlds \cup {Refused}]]
         /\ problem.players \in Nat /\ problem.iterations \in Nat /\ problem.depth \in Nat
         /\ problem.actor \in [Worlds -> Nat]
         /\ problem.values \in [Worlds -> Seq(Int)]
         /\ problem.chance \in [Worlds -> Seq([exchange : Exchanges, weight : Nat])]
         /\ problem.tape \in Seq(Nat) /\ Len(problem.tape) > 0
BY GameAssumption

LEMMA OutcomeIsTyped ==
  ASSUME problem \in Games, NEW w \in Worlds, NEW x \in Exchanges
  PROVE  Outcome(w, x) \in Worlds \cup {Refused}
BY GameIsTyped DEF Outcome

-----------------------------------------------------------------------------
(* Exactly the elements in the places are kept. *)
LEMMA KeepingKeeps ==
  ASSUME NEW S, NEW sequence \in Seq(S), NEW places
  PROVE  /\ Keeping(sequence, places) \in Seq(S)
         /\ \A k \in DOMAIN Keeping(sequence, places) : \E i \in DOMAIN sequence :
              i \in places /\ Keeping(sequence, places)[k] = sequence[i]
         /\ \A i \in DOMAIN sequence : i \in places =>
              \E k \in DOMAIN Keeping(sequence, places) : Keeping(sequence, places)[k] = sequence[i]
<1> DEFINE n == Len(sequence)
           V == Seq(S)
           Body(g) == [k \in 0 .. n |->
             IF k = 0 THEN <<>> ELSE IF k \in places THEN Append(g[k - 1], sequence[k]) ELSE g[k - 1]]
           kept == CHOOSE g : g = Body(g)
           Step == [k \in 1 .. n |-> [v \in V |-> IF k \in places THEN Append(v, sequence[k]) ELSE v]]
<1>1. n \in Nat /\ DOMAIN sequence = 1 .. n /\ \A k \in 1 .. n : sequence[k] \in S
  OBVIOUS
<1>2. Keeping(sequence, places) = kept[n]
  BY DEF Keeping
<1>3. <<>> \in V /\ Step \in [1 .. n -> [V -> V]]
  <2>1. <<>> \in V
    OBVIOUS
  <2>2. ASSUME NEW k \in 1 .. n, NEW v \in V PROVE Append(v, sequence[k]) \in V
    BY <1>1
  <2> HIDE DEF V
  <2> QED  BY <2>1, <2>2
<1>4. PICK g \in [0 .. n -> V] : StepByStep(g, <<>>, Step, n)
  <2> HIDE DEF Step, V, n
  <2> QED  BY <1>1, <1>3, StepsExist
<1>5. g = Body(g)
  <2>1. ASSUME NEW k \in 0 .. n
        PROVE  g[k] = IF k = 0 THEN <<>>
                      ELSE IF k \in places THEN Append(g[k - 1], sequence[k]) ELSE g[k - 1]
    <3>1. CASE k = 0
      BY <1>4, <3>1 DEF StepByStep
    <3>2. CASE k # 0
      <4>1. k \in 1 .. n /\ k - 1 \in 0 .. n
        BY <1>1, <3>2
      <4>2. g[k - 1] \in V /\ g[k] = Step[k][g[k - 1]]
        BY <1>4, <3>2, <4>1 DEF StepByStep
      <4> HIDE DEF V, n
      <4> QED  BY <3>2, <4>1, <4>2
    <3> QED  BY <3>1, <3>2
  <2> QED  BY <2>1
<1>6. kept = Body(kept)
  BY <1>5
<1> HIDE DEF kept
<1>7. /\ kept[0] = <<>>
      /\ \A k \in 1 .. n : kept[k] = IF k \in places THEN Append(kept[k - 1], sequence[k]) ELSE kept[k - 1]
  <2>1. 0 \in 0 .. n
    BY <1>1
  <2>2. \A k \in 0 .. n : kept[k] = IF k = 0 THEN <<>>
                            ELSE IF k \in places THEN Append(kept[k - 1], sequence[k]) ELSE kept[k - 1]
    BY <1>6
  <2> QED  BY <2>1, <2>2
<1> DEFINE Right(m) ==
             /\ kept[m] \in Seq(S)
             /\ \A k \in 1 .. Len(kept[m]) : \E i \in 1 .. m : i \in places /\ kept[m][k] = sequence[i]
             /\ \A i \in 1 .. m : i \in places => \E k \in 1 .. Len(kept[m]) : kept[m][k] = sequence[i]
           T == {m \in Nat : m <= n => Right(m)}
<1>8. 0 \in T
  <2>1. kept[0] = <<>> /\ <<>> \in Seq(S) /\ Len(<<>>) = 0 /\ 1 .. 0 = {}
    BY <1>7
  <2>2. Right(0)
    BY <2>1
  <2> HIDE DEF Right
  <2> QED  BY <2>2
<1>9. ASSUME NEW m \in Nat, m \in T PROVE m + 1 \in T
  <2> HIDE DEF Right
  <2> SUFFICES ASSUME m + 1 <= n PROVE Right(m + 1)
    OBVIOUS
  <2> USE DEF Right
  <2>1. Right(m) /\ m + 1 \in 1 .. n /\ m \in 0 .. n /\ (m + 1) - 1 = m
    <3> HIDE DEF Right
    <3> QED  BY <1>1, <1>9
  <2>2. kept[m + 1] = IF m + 1 \in places THEN Append(kept[m], sequence[m + 1]) ELSE kept[m]
    BY <1>7, <2>1
  <2> HIDE DEF n
  <2>3. CASE m + 1 \notin places
    <3>1. kept[m + 1] = kept[m]
      BY <2>2, <2>3
    <3>2. \A i \in 1 .. m : i \in 1 .. (m + 1)
      OBVIOUS
    <3>3. \A i \in 1 .. (m + 1) : i \in places => i \in 1 .. m
      BY <2>3
    <3> QED  BY <2>1, <3>1, <3>2, <3>3
  <2>4. CASE m + 1 \in places
    <3> DEFINE before == kept[m]
               after == kept[m + 1]
               last == Len(before) + 1
    <3>1. before \in Seq(S) /\ sequence[m + 1] \in S /\ after = Append(before, sequence[m + 1])
      BY <1>1, <2>1, <2>2, <2>4
    <3>2. /\ after \in Seq(S) /\ Len(after) = last /\ Len(before) \in Nat
          /\ after[last] = sequence[m + 1]
          /\ \A k \in 1 .. Len(before) : after[k] = before[k] /\ k \in 1 .. last
          /\ \A k \in 1 .. last : k # last => k \in 1 .. Len(before)
      <4> HIDE DEF before, after
      <4> QED  BY <3>1
    <3> HIDE DEF last
    <3>3. last \in 1 .. last
      BY <3>2 DEF last
    <3>4. \A k \in 1 .. last : \E i \in 1 .. (m + 1) : i \in places /\ after[k] = sequence[i]
      <4> SUFFICES ASSUME NEW k \in 1 .. last
                   PROVE  \E i \in 1 .. (m + 1) : i \in places /\ after[k] = sequence[i]
        OBVIOUS
      <4>1. CASE k = last
        BY <2>4, <3>2, <4>1
      <4>2. CASE k # last
        <5>1. PICK i \in 1 .. m : i \in places /\ before[k] = sequence[i]
          BY <2>1, <3>2, <4>2
        <5> QED  BY <3>2, <4>2, <5>1
      <4> QED  BY <4>1, <4>2
    <3>5. \A i \in 1 .. (m + 1) : i \in places => \E k \in 1 .. last : after[k] = sequence[i]
      <4> SUFFICES ASSUME NEW i \in 1 .. (m + 1), i \in places
                   PROVE  \E k \in 1 .. last : after[k] = sequence[i]
        OBVIOUS
      <4>1. CASE i = m + 1
        BY <3>2, <3>3, <4>1
      <4>2. CASE i # m + 1
        <5>1. i \in 1 .. m
          BY <4>2
        <5>2. PICK k \in 1 .. Len(before) : before[k] = sequence[i]
          BY <2>1, <5>1
        <5> QED  BY <3>2, <5>2
      <4> QED  BY <4>1, <4>2
    <3> QED  BY <3>2, <3>4, <3>5
  <2> QED  BY <2>3, <2>4
<1>10. Right(n)
  <2>1. Nat \subseteq T
    <3> HIDE DEF T
    <3> QED  BY <1>8, <1>9, SetOfNaturals
  <2> HIDE DEF Right
  <2> QED  BY <1>1, <2>1
<1> QED
  <2> DEFINE all == Keeping(sequence, places)
  <2>1. all \in Seq(S) /\ all = kept[n]
    BY <1>2, <1>10
  <2>2. DOMAIN all = 1 .. Len(all)
    BY <2>1
  <2> QED  BY <1>1, <1>10, <2>1, <2>2

LEMMA ApplicableAreAccepted ==
  ASSUME problem \in Games, NEW w \in Worlds, NEW proposals \in Seq(Exchanges)
  PROVE  /\ ApplicableActions(w, proposals) \in Seq(Exchanges)
         /\ \A k \in DOMAIN ApplicableActions(w, proposals) :
              /\ Outcome(w, ApplicableActions(w, proposals)[k]) \in Worlds
              /\ \E i \in DOMAIN proposals : proposals[i] = ApplicableActions(w, proposals)[k]
<1> DEFINE places == {i \in DOMAIN proposals : /\ Outcome(w, proposals[i]) # Refused
                                               /\ \A j \in 1 .. i - 1 : proposals[j] # proposals[i]}
           kept == Keeping(proposals, places)
<1>1. ApplicableActions(w, proposals) = kept
  BY DEF ApplicableActions
<1>2. \A i \in places : Outcome(w, proposals[i]) \in Worlds
  <2> SUFFICES ASSUME NEW i \in DOMAIN proposals, Outcome(w, proposals[i]) # Refused
               PROVE  Outcome(w, proposals[i]) \in Worlds
    OBVIOUS
  <2>1. proposals[i] \in Exchanges
    OBVIOUS
  <2> QED  BY <2>1, OutcomeIsTyped
<1> HIDE DEF places
<1>3. /\ kept \in Seq(Exchanges)
      /\ \A k \in DOMAIN kept : \E i \in DOMAIN proposals : i \in places /\ kept[k] = proposals[i]
  BY KeepingKeeps
<1> HIDE DEF kept
<1> QED
  BY <1>1, <1>2, <1>3

LEMMA TicketIsBelow ==
  ASSUME problem \in Games, NEW draws \in Nat, NEW total \in Nat, total > 0
  PROVE  Ticket(draws, total) \in 0 .. total - 1
<1> DEFINE place == 1 + (draws % Len(problem.tape))
<1>1. problem.tape \in Seq(Nat) /\ Len(problem.tape) \in Nat /\ Len(problem.tape) > 0
  BY GameIsTyped
<1>2. place \in 1 .. Len(problem.tape)
  <2>1. \A count \in Nat : count > 0 => 1 + (draws % count) \in 1 .. count
    OBVIOUS
  <2> QED  BY <1>1, <2>1
<1>3. problem.tape[place] \in Nat
  BY <1>1, <1>2
<1>4. Ticket(draws, total) = problem.tape[place] % total
  BY DEF Ticket
<1> HIDE DEF place
<1> QED
  BY <1>3, <1>4

LEMMA RandomActionIsOne ==
  ASSUME problem \in Games, NEW S, NEW actions \in Seq(S), actions # <<>>, NEW draws \in Nat
  PROVE  \E k \in DOMAIN actions : RandomAction(actions, draws) = actions[k]
<1>1. Len(actions) \in Nat /\ Len(actions) > 0 /\ DOMAIN actions = 1 .. Len(actions)
  BY EmptySeq
<1>2. Ticket(draws, Len(actions)) \in 0 .. Len(actions) - 1
  BY <1>1, TicketIsBelow
<1>3. 1 + Ticket(draws, Len(actions)) \in DOMAIN actions
  BY <1>1, <1>2
<1> QED
  BY <1>3 DEF RandomAction

-----------------------------------------------------------------------------
(* Whatever the scores are, one of them is chosen. *)
LEMMA LastBestIsOne ==
  ASSUME NEW score, NEW n \in Nat \ {0}, Len(score) = n
  PROVE  LastBest(score) \in 1 .. n
<1> DEFINE V == 1 .. n
           Body(g) == [k \in 1 .. n |->
             IF k = 1 THEN 1
             ELSE LET last == g[k - 1] IN IF score[last] <= score[k] THEN k ELSE last]
           best == CHOOSE g : g = Body(g)
           Step == [k \in V |-> [v \in V |-> IF k = 1 THEN 1 ELSE IF score[v] <= score[k] THEN k ELSE v]]
<1>1. LastBest(score) = best[n]
  BY DEF LastBest
<1>2. 1 \in V /\ Step \in [V -> [V -> V]]
  OBVIOUS
<1>3. PICK g \in [0 .. n -> V] : StepByStep(g, 1, Step, n)
  <2>1. Step \in [1 .. n -> [V -> V]]
    BY <1>2
  <2> HIDE DEF Step, V
  <2> QED  BY <1>2, <2>1, StepsExist
<1> DEFINE h == [k \in 1 .. n |-> g[k]]
<1>4. h = Body(h)
  <2>1. ASSUME NEW k \in 1 .. n
        PROVE  g[k] = IF k = 1 THEN 1
                      ELSE LET last == h[k - 1] IN IF score[last] <= score[k] THEN k ELSE last
    <3>1. k \in 0 .. n /\ k # 0 /\ k - 1 \in 0 .. n
      OBVIOUS
    <3>2. g[k - 1] \in V /\ g[k] = Step[k][g[k - 1]]
      BY <1>3, <3>1 DEF StepByStep
    <3>3. k # 1 => k - 1 \in 1 .. n
      OBVIOUS
    <3>4. k # 1 => h[k - 1] = g[k - 1]
      BY <3>3
    <3> HIDE DEF h
    <3> QED  BY <3>2, <3>4
  <2> QED  BY <2>1
<1>5. best = Body(best)
  <2> HIDE DEF h
  <2> QED  BY <1>4
<1> HIDE DEF best
<1> DEFINE T == {k \in Nat : k + 1 <= n => best[k + 1] \in V}
<1>6. 0 \in T
  BY <1>5
<1>7. ASSUME NEW k \in Nat, k \in T PROVE k + 1 \in T
  <2> SUFFICES ASSUME (k + 1) + 1 <= n PROVE best[(k + 1) + 1] \in V
    OBVIOUS
  <2>1. (k + 1) + 1 \in 1 .. n /\ k + 1 <= n /\ ((k + 1) + 1) - 1 = k + 1 /\ (k + 1) + 1 # 1
    OBVIOUS
  <2>2. best[k + 1] \in V
    BY <1>7, <2>1
  <2>3. \/ best[(k + 1) + 1] = (k + 1) + 1
        \/ best[(k + 1) + 1] = best[k + 1]
    BY <1>5, <2>1
  <2> QED  BY <2>1, <2>2, <2>3
<1>8. Nat \subseteq T
  <2> HIDE DEF T
  <2> QED  BY <1>6, <1>7, SetOfNaturals
<1>9. n - 1 \in Nat /\ (n - 1) + 1 = n
  OBVIOUS
<1> QED
  BY SMTT(20), <1>1, <1>8, <1>9

(* Some choice is visited most. *)
LEMMA MostVisitedIsOne ==
  ASSUME NEW n \in Nat, NEW D \in SUBSET (1 .. n), D # {},
         NEW visits \in [D -> Nat], NEW total \in [D -> Int]
  PROVE  /\ MostVisited(visits, total) \in D
         /\ \A j \in D : visits[j] <= visits[MostVisited(visits, total)]
<1> DEFINE Beats(i, j) == \/ visits[i] > visits[j]
                          \/ /\ visits[i] = visits[j]
                             /\ \/ total[i] > total[j]
                                \/ total[i] = total[j] /\ i < j
           Upto(k) == {i \in D : i <= k}
           T == {k \in Nat : Upto(k) # {} => \E i \in Upto(k) : \A j \in Upto(k) \ {i} : Beats(i, j)}
<1>1. \A i \in D : i \in 1 .. n /\ visits[i] \in Nat /\ total[i] \in Int
  OBVIOUS
<1>2. 0 \in T
  <2>1. \A i \in D : ~(i <= 0)
    BY <1>1
  <2> QED  BY <2>1
<1>3. ASSUME NEW k \in Nat, k \in T PROVE k + 1 \in T
  <2> SUFFICES ASSUME Upto(k + 1) # {}
               PROVE  \E i \in Upto(k + 1) : \A j \in Upto(k + 1) \ {i} : Beats(i, j)
    OBVIOUS
  <2>1. CASE k + 1 \notin D
    <3>1. Upto(k + 1) = Upto(k)
      <4>1. \A i \in D : i <= k + 1 <=> i <= k
        BY <1>1, <2>1
      <4> QED  BY <4>1
    <3> HIDE DEF Upto, Beats
    <3> QED  BY <1>3, <3>1
  <2>2. CASE k + 1 \in D
    <3>1. Upto(k + 1) = Upto(k) \cup {k + 1} /\ k + 1 \notin Upto(k)
      <4>1. \A i \in D : i <= k + 1 <=> i <= k \/ i = k + 1
        BY <1>1
      <4>2. ~(k + 1 <= k)
        OBVIOUS
      <4> QED  BY <2>2, <4>1, <4>2
    <3>2. CASE Upto(k) = {}
      BY <3>1, <3>2
    <3>3. CASE Upto(k) # {}
      <4>1. PICK i \in Upto(k) : \A j \in Upto(k) \ {i} : Beats(i, j)
        BY <1>3, <3>3
      <4>2. i \in D /\ i < k + 1
        BY <1>1
      <4>3. CASE Beats(i, k + 1)
        <5>1. \A j \in (Upto(k) \cup {k + 1}) \ {i} : Beats(i, j)
          BY <4>1, <4>3
        <5> QED  BY <3>1, <5>1
      <4>4. CASE ~Beats(i, k + 1)
        <5>1. Beats(k + 1, i)
          BY <1>1, <2>2, <4>2, <4>4
        <5>2. ASSUME NEW j \in Upto(k) PROVE Beats(k + 1, j)
          <6>1. j \in D /\ j < k + 1 /\ (j = i \/ Beats(i, j))
            BY <1>1, <4>1
          <6> QED  BY <1>1, <2>2, <4>2, <5>1, <6>1
        <5>3. \A j \in (Upto(k) \cup {k + 1}) \ {k + 1} : Beats(k + 1, j)
          BY <5>2
        <5> QED  BY <3>1, <5>3
      <4> QED  BY <4>3, <4>4
    <3> QED  BY <3>2, <3>3
  <2> QED  BY <2>1, <2>2
<1>4. Upto(n) = D
  <2>1. \A i \in D : i <= n
    BY <1>1
  <2> QED  BY <2>1
<1>5. \E i \in D : \A j \in D \ {i} : Beats(i, j)
  <2>1. Nat \subseteq T
    <3> HIDE DEF T
    <3> QED  BY <1>2, <1>3, SetOfNaturals
  <2> HIDE DEF Beats, Upto
  <2> QED  BY <1>4, <2>1
<1>6. MostVisited(visits, total) = CHOOSE i \in D : \A j \in D \ {i} : Beats(i, j)
  BY DEF MostVisited
<1> HIDE DEF Beats
<1>7. PICK m \in D : m = MostVisited(visits, total) /\ \A j \in D \ {m} : Beats(m, j)
  BY <1>5, <1>6
<1>8. ASSUME NEW j \in D PROVE visits[j] <= visits[m]
  BY <1>1, <1>7 DEF Beats
<1> QED
  BY <1>7, <1>8

-----------------------------------------------------------------------------
(* The weights add up along the support. *)
LEMMA WeightsAddUp ==
  ASSUME NEW support \in Seq([exchange : Exchanges, weight : Nat])
  PROVE  \E sums \in [0 .. Len(support) -> Nat] :
           /\ sums[0] = 0
           /\ \A k \in 0 .. Len(support) : WeightUpTo(support, k) = sums[k]
<1> DEFINE n == Len(support)
           weight == [k \in 1 .. n |-> support[k].weight]
           Step == [k \in 1 .. n |-> [v \in Nat |-> v + weight[k]]]
<1>1. n \in Nat /\ DOMAIN support = 1 .. n /\ \A k \in 1 .. n : weight[k] \in Nat /\ weight[k] = support[k].weight
  <2>1. n \in Nat /\ DOMAIN support = 1 .. n
    OBVIOUS
  <2>2. ASSUME NEW k \in 1 .. n PROVE support[k].weight \in Nat
    <3> DEFINE R == [exchange : Exchanges, weight : Nat]
    <3>1. support \in Seq(R)
      OBVIOUS
    <3>2. support[k] \in R
      <4> HIDE DEF R
      <4> QED  BY <2>1, <3>1
    <3> QED  BY <3>2
  <2> QED  BY <2>1, <2>2
<1> HIDE DEF n, weight
<1>2. 0 \in Nat /\ Step \in [1 .. n -> [Nat -> Nat]]
  BY <1>1
<1>3. PICK sums \in [0 .. n -> Nat] : StepByStep(sums, 0, Step, n)
  <2> HIDE DEF Step
  <2> QED  BY <1>1, <1>2, StepsExist
<1>4. sums[0] = 0 /\ \A k \in 1 .. n : sums[k] = sums[k - 1] + weight[k]
  <2>1. 0 \in 0 .. n
    BY <1>1
  <2>2. ASSUME NEW k \in 1 .. n PROVE sums[k] = sums[k - 1] + weight[k]
    <3>1. k \in 0 .. n /\ k # 0 /\ k - 1 \in 0 .. n
      BY <1>1
    <3>2. sums[k] = Step[k][sums[k - 1]] /\ sums[k - 1] \in Nat
      BY <1>3, <3>1 DEF StepByStep
    <3> QED  BY <3>2
  <2> QED  BY <1>3, <2>1, <2>2 DEF StepByStep
<1>5. ASSUME NEW m \in 0 .. n PROVE WeightUpTo(support, m) = sums[m]
  <2> DEFINE Body(g) == [k \in 0 .. m |-> IF k = 0 THEN 0 ELSE g[k - 1] + support[k].weight]
             sum == CHOOSE g : g = Body(g)
             part == [k \in 0 .. m |-> sums[k]]
  <2>1. WeightUpTo(support, m) = sum[m]
    BY DEF WeightUpTo
  <2>2. part = Body(part)
    <3>1. ASSUME NEW k \in 0 .. m PROVE sums[k] = IF k = 0 THEN 0 ELSE part[k - 1] + support[k].weight
      <4>1. CASE k = 0
        BY <1>4, <4>1
      <4>2. CASE k # 0
        <5>1. k \in 1 .. n /\ k - 1 \in 0 .. m
          BY <1>1, <4>2
        <5> QED  BY <1>1, <1>4, <4>2, <5>1
      <4> QED  BY <4>1, <4>2
    <3> QED  BY <3>1
  <2>3. sum = Body(sum)
    <3> HIDE DEF part
    <3> QED  BY <2>2
  <2> HIDE DEF sum
  <2> DEFINE T == {k \in Nat : k <= m => sum[k] = sums[k]}
  <2>4. m \in Nat /\ m <= n
    BY <1>1
  <2>5. 0 \in T
    <3>1. 0 \in 0 .. m
      BY <2>4
    <3> QED  BY <1>4, <2>3, <3>1
  <2>6. ASSUME NEW k \in Nat, k \in T PROVE k + 1 \in T
    <3> SUFFICES ASSUME k + 1 <= m PROVE sum[k + 1] = sums[k + 1]
      OBVIOUS
    <3>1. k + 1 \in 0 .. m /\ k + 1 # 0 /\ (k + 1) - 1 = k /\ k + 1 \in 1 .. n /\ k <= m
      BY <1>1, <2>4
    <3>2. sum[k + 1] = sum[k] + weight[k + 1]
      BY <1>1, <2>3, <3>1
    <3>3. sums[k + 1] = sums[k] + weight[k + 1]
      BY <1>4, <3>1
    <3> QED  BY <2>6, <3>1, <3>2, <3>3
  <2>7. Nat \subseteq T
    <3> HIDE DEF T
    <3> QED  BY <2>5, <2>6, SetOfNaturals
  <2> QED  BY <2>1, <2>4, <2>7
<1> QED
  BY <1>3, <1>4, <1>5 DEF n

(* Nature's sample is an exchange of its support. *)
LEMMA SampleIsSupported ==
  ASSUME problem \in Games, NEW w \in Worlds, NEW draws \in Nat, NatureHasSupport(w)
  PROVE  NatureSample(w, draws) \in Exchanges
<1> DEFINE support == problem.chance[w]
           n == Len(support)
<1>1. support \in Seq([exchange : Exchanges, weight : Nat])
  BY GameIsTyped
<1> HIDE DEF support
<1>2. n \in Nat /\ DOMAIN support = 1 .. n
  BY <1>1
<1>3. PICK sums \in [0 .. n -> Nat] :
        sums[0] = 0 /\ \A k \in 0 .. n : WeightUpTo(support, k) = sums[k]
  BY <1>1, WeightsAddUp
<1> DEFINE total == TotalWeight(support)
<1>4. total = sums[n] /\ total \in Nat /\ total > 0
  <2>1. total = sums[n] /\ total \in 1 .. MaxWeight
    BY <1>2, <1>3 DEF TotalWeight, NatureHasSupport, HasSupport, support
  <2> QED  BY <2>1, MaxWeightAssumption
<1> HIDE DEF total
<1>5. PICK ticket \in 0 .. total - 1 : ticket = Ticket(draws, total)
  BY <1>4, TicketIsBelow
<1> DEFINE T == {k \in Nat : k <= n /\ ticket < sums[k]}
<1>6. PICK m \in T : \A k \in T : m <= k
  <2>1. n \in T
    BY <1>2, <1>4
  <2>2. T \in SUBSET Nat /\ T # {}
    BY <2>1
  <2> HIDE DEF T
  <2> QED  BY <2>2, LeastOfNaturals
<1>7. m \in 1 .. n /\ m - 1 \in 0 .. n /\ m \in 0 .. n
  <2>1. m # 0
    BY <1>3, <1>5
  <2> QED  BY <1>2, <2>1
<1>8. sums[m - 1] <= ticket /\ ticket < sums[m]
  <2>1. m - 1 \notin T
    BY <1>6, <1>7
  <2>2. sums[m - 1] \in Nat /\ m - 1 \in Nat /\ m - 1 <= n
    BY <1>2, <1>7
  <2> QED  BY <1>5, <2>1, <2>2
<1>9. Chosen(support, ticket) \in DOMAIN support
  <2>1. WeightUpTo(support, m - 1) <= ticket /\ ticket < WeightUpTo(support, m)
    BY <1>3, <1>7, <1>8
  <2> QED  BY <1>2, <1>7, <2>1 DEF Chosen
<1>10. support[Chosen(support, ticket)].exchange \in Exchanges
  <2>1. support[Chosen(support, ticket)] \in [exchange : Exchanges, weight : Nat]
    BY <1>1, <1>9
  <2> QED  BY <2>1
<1>11. NatureSample(w, draws) = support[Chosen(support, ticket)].exchange
  BY <1>5 DEF NatureSample, ChooseByTicket, support, total
<1> QED
  BY <1>10, <1>11

-----------------------------------------------------------------------------
LEMMA OccurrencesCount ==
  ASSUME NEW path, NEW n \in Nat, DOMAIN path = 1 .. n, NEW step
  PROVE  /\ Occurrences(path, step) \in Nat
         /\ (\E k \in 1 .. n : path[k] = step) <=> Occurrences(path, step) > 0
         /\ (\A k, l \in 1 .. n : path[k] = path[l] => k = l) => Occurrences(path, step) <= 1
<1> DEFINE here == {k \in 1 .. n : path[k] = step}
<1>1. Occurrences(path, step) = Cardinality(here)
  BY DEF Occurrences
<1>2. IsFiniteSet(here)
  <2>1. IsFiniteSet(1 .. n)
    BY FS_Interval
  <2> QED  BY <2>1, FS_Subset
<1>3. Cardinality(here) \in Nat /\ (here = {} <=> Cardinality(here) = 0)
  BY <1>2, FS_CardinalityType, FS_EmptySet
<1>4. (\A k, l \in 1 .. n : path[k] = path[l] => k = l) => Cardinality(here) <= 1
  <2> SUFFICES ASSUME \A k, l \in 1 .. n : path[k] = path[l] => k = l
               PROVE  Cardinality(here) <= 1
    OBVIOUS
  <2>1. CASE here = {}
    BY <1>3, <2>1
  <2>2. CASE here # {}
    <3>1. PICK k \in here : TRUE
      BY <2>2
    <3>2. here = {k}
      BY <3>1
    <3>3. Cardinality(here) = 1
      BY <3>2, FS_Singleton
    <3> QED  BY <3>3
  <2> QED  BY <2>1, <2>2
<1> QED
  BY <1>1, <1>3, <1>4

(* Where no exchanges lead back, no way through worlds does. *)
LEMMA WaysDoNotReturn ==
  ASSUME Progressing, NEW n \in Nat, NEW way \in [1 .. n -> Worlds],
         \A k \in 1 .. n - 1 : \E x \in Exchanges : way[k + 1] = Outcome(way[k], x)
  PROVE  \A k, l \in 1 .. n : way[k] = way[l] => k = l
<1> SUFFICES ASSUME NEW k \in 1 .. n, NEW l \in 1 .. n, way[k] = way[l], k < l
             PROVE  FALSE
  <2>1. ASSUME NEW k \in 1 .. n, NEW l \in 1 .. n, way[k] = way[l], k # l
        PROVE  FALSE
    <3>1. k < l \/ l < k
      BY <2>1
    <3> QED  BY <2>1, <3>1
  <2> QED  BY <2>1
<1> DEFINE loop == {way[i] : i \in k .. l - 1}
<1>1. \A i \in k .. l - 1 : i \in 1 .. n - 1 /\ i \in 1 .. n /\ (i + 1 \in k .. l - 1 \/ i + 1 = l)
  OBVIOUS
<1>2. k \in k .. l - 1
  OBVIOUS
<1>3. loop \in (SUBSET Worlds) \ {{}}
  <2>1. \A i \in k .. l - 1 : way[i] \in Worlds
    BY <1>1
  <2>2. way[k] \in loop /\ loop \subseteq Worlds
    BY <1>2, <2>1
  <2> HIDE DEF loop
  <2> QED  BY <2>2
<1>4. PICK w \in loop : {Outcome(w, x) : x \in Exchanges} \cap loop = {}
  <2> HIDE DEF loop
  <2> QED  BY <1>3 DEF Progressing
<1>5. PICK i \in k .. l - 1 : w = way[i]
  OBVIOUS
<1>6. PICK x \in Exchanges : way[i + 1] = Outcome(way[i], x)
  BY <1>1
<1>7. way[i + 1] \in loop
  <2>1. i + 1 \in k .. l - 1 \/ i + 1 = l
    BY <1>1
  <2> QED  BY <1>2, <2>1
<1> QED
  BY <1>4, <1>5, <1>6, <1>7

-----------------------------------------------------------------------------

Totals == [1 .. problem.players -> Int]
TreeEdges == [action : Exchanges, child : Nat]
TreeNodes == [world : Worlds, children : Seq(TreeEdges), visits : Nat, totals : Totals]
Trees == Seq(TreeNodes)
Places == UNION {[known -> Nat] : known \in SUBSET Worlds}
Decisions == [found : BOOLEAN, action : Exchanges \cup {Refused}]

MctsSessions ==
  [nodes : Trees, transpositions : Places, draws : Nat, iterations : Nat, decision : Decisions,
   at : {"returned", "loop", "descend", "simulate", "failed"}, left : Nat,
   node : Nat, path : Seq(Nat), world : Worlds, depth : Nat, idle : Nat]

(* An edge from node i to node j. *)
Leads(nodes, i, j) == \E e \in DOMAIN nodes[i].children : nodes[i].children[e].child = j

(* Nodes and transpositions agree, so that no world has two nodes. *)
Placed(nodes, transpositions) ==
  /\ Len(nodes) > 0
  /\ nodes[1].world = problem.initial
  /\ \A i \in DOMAIN nodes : /\ nodes[i].world \in DOMAIN transpositions
                             /\ transpositions[nodes[i].world] = i
  /\ \A w \in DOMAIN transpositions : /\ transpositions[w] \in DOMAIN nodes
                                      /\ nodes[transpositions[w]].world = w

LinkedNode(nodes, i) ==
  /\ \A e \in DOMAIN nodes[i].children :
       /\ nodes[i].children[e].child \in DOMAIN nodes
       /\ nodes[nodes[i].children[e].child].world
            = Outcome(nodes[i].world, nodes[i].children[e].action)
  /\ \A e, f \in DOMAIN nodes[i].children :
       nodes[i].children[e].action = nodes[i].children[f].action => e = f

Linked(nodes) ==
  /\ \A i \in DOMAIN nodes : LinkedNode(nodes, i)
  /\ \A j \in DOMAIN nodes \ {1} : \E i \in DOMAIN nodes : Leads(nodes, i, j)

TreeInv(s) == Placed(s.nodes, s.transpositions) /\ Linked(s.nodes)

CountInv(s) ==
  /\ s.iterations <= s.nodes[1].visits
  /\ Progressing => /\ s.nodes[1].visits = s.iterations
                    /\ \A i \in DOMAIN s.nodes : s.nodes[i].visits <= s.iterations

Kids(nodes) == {j \in DOMAIN nodes : Leads(nodes, 1, j)}

OneWayIn(nodes) ==
  \A i \in DOMAIN nodes \ {1} : \A j \in Kids(nodes) : ~Leads(nodes, i, j)

Told(nodes, p) == [i \in Kids(nodes) |-> nodes[i].totals[p]]

SumInv(nodes) ==
  Progressing /\ OneWayIn(nodes) =>
    \A p \in 1 .. problem.players : nodes[1].totals[p] = Total(Told(nodes, p), Kids(nodes))

(* The way from the root. *)
PathOk(nodes, path) ==
  /\ Len(path) > 0
  /\ path[1] = 1
  /\ \A k \in DOMAIN path : path[k] \in DOMAIN nodes
  /\ \A k \in 1 .. Len(path) - 1 : Leads(nodes, path[k], path[k + 1])

WalkInv(s) ==
  /\ s.at \in {"descend", "simulate"} => PathOk(s.nodes, s.path) /\ s.left > 0
  /\ s.at = "descend" => /\ s.node = s.path[Len(s.path)]
                         /\ Len(s.path) = 1 => s.depth = 0
  /\ s.at = "simulate" => Len(s.path) > 1

VisitInv(s) ==
  s.at # "failed" =>
    \A i \in DOMAIN s.nodes \ {1} :
      s.nodes[i].visits > 0 \/ (s.at = "simulate" /\ i = s.path[Len(s.path)])

AcceptedInv(s) == s.at # "failed" => MctsAccepts

DecisionInv(s) ==
  s.decision.found =>
    /\ s.at = "returned"
    /\ s.iterations = problem.iterations
    /\ \E e \in DOMAIN s.nodes[1].children :
         /\ s.nodes[1].children[e].action = s.decision.action
         /\ s.nodes[s.nodes[1].children[e].child].visits > 0
         /\ \A f \in DOMAIN s.nodes[1].children :
              s.nodes[s.nodes[1].children[f].child].visits <= s.nodes[s.nodes[1].children[e].child].visits

TreeOk(s) == s \in MctsSessions /\ TreeInv(s) /\ CountInv(s) /\ SumInv(s.nodes)

SessionInv(s) == TreeOk(s) /\ WalkInv(s) /\ VisitInv(s) /\ AcceptedInv(s) /\ DecisionInv(s)

MctsInv == problem \in Games /\ SessionInv(mcts)

-----------------------------------------------------------------------------
LEMMA ZeroTotals ==
  ASSUME problem \in Games, NEW w \in Worlds
  PROVE  /\ MctsNode(w) \in TreeNodes
         /\ MctsNode(w).world = w /\ MctsNode(w).children = <<>> /\ MctsNode(w).visits = 0
         /\ \A p \in 1 .. problem.players : MctsNode(w).totals[p] = 0
<1>1. NoValues \in Totals
  BY DEF NoValues, Totals
<1>2. <<>> \in Seq(TreeEdges)
  OBVIOUS
<1> QED
  BY <1>1, <1>2 DEF MctsNode, TreeNodes, NoValues

LEMMA NodeIsTyped ==
  ASSUME NEW nodes \in Trees, NEW i \in DOMAIN nodes
  PROVE  /\ nodes[i] \in TreeNodes
         /\ nodes[i].world \in Worlds /\ nodes[i].children \in Seq(TreeEdges)
         /\ nodes[i].visits \in Nat /\ nodes[i].totals \in Totals
         /\ Len(nodes) \in Nat /\ DOMAIN nodes = 1 .. Len(nodes) /\ i \in 1 .. Len(nodes)
         /\ \A e \in DOMAIN nodes[i].children :
              /\ nodes[i].children[e].action \in Exchanges /\ nodes[i].children[e].child \in Nat
<1>1. nodes[i] \in TreeNodes /\ Len(nodes) \in Nat /\ DOMAIN nodes = 1 .. Len(nodes)
  BY DEF Trees
<1>2. /\ nodes[i].world \in Worlds /\ nodes[i].children \in Seq(TreeEdges)
      /\ nodes[i].visits \in Nat /\ nodes[i].totals \in Totals
  BY <1>1 DEF TreeNodes
<1>3. ASSUME NEW e \in DOMAIN nodes[i].children
      PROVE  nodes[i].children[e].action \in Exchanges /\ nodes[i].children[e].child \in Nat
  <2>1. nodes[i].children[e] \in TreeEdges
    BY <1>2
  <2> QED  BY <2>1 DEF TreeEdges
<1> QED
  BY <1>1, <1>2, <1>3

(* What a turn of the descent does to the tree: an edge more from the       *)
(* parent, if any, and a node more, if any, that was never visited.         *)
Grown(old, new, parent, child) ==
  /\ \/ Len(new) = Len(old)
     \/ /\ Len(new) = Len(old) + 1
        /\ child = Len(new)
        /\ new[child].visits = 0
        /\ \A p \in 1 .. problem.players : new[child].totals[p] = 0
        /\ \A j : ~Leads(new, child, j)
  /\ child \in DOMAIN new
  /\ Leads(new, parent, child)
  /\ \A i \in DOMAIN old :
       /\ i \in DOMAIN new
       /\ new[i].visits = old[i].visits /\ new[i].totals = old[i].totals
       /\ new[i].world = old[i].world
       /\ \A j : Leads(old, i, j) => Leads(new, i, j)
       /\ \A j : Leads(new, i, j) => Leads(old, i, j) \/ (i = parent /\ j = child)

(* A new edge from the parent, to a node there is or to a new one. *)
EdgeMore(old, new, parent, x, child) ==
  LET edge == [action |-> x, child |-> child]
  IN  /\ \/ Len(new) = Len(old) /\ child \in DOMAIN old
         \/ /\ Len(new) = Len(old) + 1
            /\ child = Len(new)
            /\ new[child] = MctsNode(Outcome(old[parent].world, x))
      /\ \A i \in DOMAIN old :
           /\ new[i].visits = old[i].visits /\ new[i].totals = old[i].totals
           /\ new[i].world = old[i].world
           /\ new[i].children = IF i = parent THEN Append(old[i].children, edge) ELSE old[i].children

LEMMA EdgeMoreGrows ==
  ASSUME problem \in Games, NEW old \in Trees, NEW new \in Trees, NEW parent \in DOMAIN old,
         NEW x \in Exchanges, Outcome(old[parent].world, x) \in Worlds, NEW child \in Nat,
         EdgeMore(old, new, parent, x, child), Linked(old),
         new[child].world = Outcome(old[parent].world, x),
         \A e \in DOMAIN old[parent].children : old[parent].children[e].action # x
  PROVE  Grown(old, new, parent, child) /\ Linked(new)
<1> DEFINE n == Len(old)
           m == Len(new)
           edge == [action |-> x, child |-> child]
           edges == old[parent].children
           last == Len(edges) + 1
<1>1. /\ n \in Nat /\ m \in Nat /\ DOMAIN old = 1 .. n /\ DOMAIN new = 1 .. m
      /\ edges \in Seq(TreeEdges)
  BY NodeIsTyped DEF Trees
<1>0. \/ m = n /\ child \in DOMAIN old
      \/ /\ m = n + 1
         /\ child = m
         /\ new[child] = MctsNode(Outcome(old[parent].world, x))
  BY DEF EdgeMore
<1> HIDE DEF n, m
<1>2. /\ m = n \/ m = n + 1
      /\ child \in DOMAIN new
      /\ \A i \in DOMAIN old : i \in DOMAIN new
      /\ \A i \in DOMAIN new : i \in DOMAIN old \/ (m = n + 1 /\ i = m)
  BY <1>0, <1>1
<1>3. /\ new[parent].children = Append(edges, edge)
      /\ \A i \in DOMAIN old \ {parent} : new[i].children = old[i].children
      /\ \A i \in DOMAIN old : new[i].world = old[i].world
  BY DEF EdgeMore
<1>4. /\ Len(edges) \in Nat
      /\ DOMAIN edges = 1 .. Len(edges)
      /\ DOMAIN new[parent].children = 1 .. last
      /\ new[parent].children[last] = edge
      /\ \A e \in DOMAIN edges : new[parent].children[e] = edges[e] /\ e \in 1 .. last
      /\ \A e \in 1 .. last : e \in DOMAIN edges \/ e = last
      /\ last \in 1 .. last
  <2>1. edge \in TreeEdges
    BY DEF TreeEdges
  <2> HIDE DEF edge, edges
  <2> QED  BY <1>1, <1>3, <2>1
<1>5. edge.action = x /\ edge.child = child
  OBVIOUS
<1> HIDE DEF edge
<1>6. ASSUME m = n + 1
      PROVE  /\ child = m /\ m \notin DOMAIN old /\ new[m].children = <<>> /\ new[m].visits = 0
             /\ \A p \in 1 .. problem.players : new[m].totals[p] = 0
  <2>1. child = m /\ new[child] = MctsNode(Outcome(old[parent].world, x))
    BY <1>0, <1>1, <1>6
  <2> QED  BY <1>1, <1>6, <2>1, ZeroTotals
<1> HIDE DEF last, edges
<1>7. ASSUME NEW i \in DOMAIN old, NEW j
      PROVE  /\ Leads(old, i, j) => Leads(new, i, j)
             /\ Leads(new, i, j) => Leads(old, i, j) \/ (i = parent /\ j = child)
  <2>1. CASE i # parent
    BY <1>3, <2>1 DEF Leads
  <2>2. CASE i = parent
    <3>1. ASSUME NEW e \in DOMAIN edges, edges[e].child = j PROVE Leads(new, i, j)
      BY <1>4, <2>2, <3>1 DEF Leads
    <3>2. ASSUME NEW e \in 1 .. last, new[i].children[e].child = j
          PROVE  Leads(old, i, j) \/ j = child
      <4>1. CASE e \in DOMAIN edges
        BY <1>4, <2>2, <3>2, <4>1 DEF Leads, edges
      <4>2. CASE e = last
        BY <1>4, <1>5, <2>2, <3>2, <4>2
      <4> QED  BY <1>4, <4>1, <4>2
    <3> QED  BY <1>4, <2>2, <3>1, <3>2 DEF Leads, edges
  <2> QED  BY <2>1, <2>2
<1>8. Leads(new, parent, child)
  BY <1>4, <1>5 DEF Leads
<1>9. Grown(old, new, parent, child)
  <2>1. ASSUME m = n + 1, NEW j PROVE ~Leads(new, child, j)
    BY <1>6, <2>1 DEF Leads
  <2>2. \/ m = n
        \/ /\ m = n + 1
           /\ child = m
           /\ new[child].visits = 0
           /\ \A p \in 1 .. problem.players : new[child].totals[p] = 0
           /\ \A j : ~Leads(new, child, j)
    BY <1>2, <1>6, <2>1
  <2>3. \A i \in DOMAIN old : new[i].visits = old[i].visits /\ new[i].totals = old[i].totals
    BY DEF EdgeMore
  <2> QED  BY <1>2, <1>3, <1>7, <1>8, <2>2, <2>3 DEF Grown, n, m
<1>10. ASSUME NEW i \in DOMAIN new PROVE LinkedNode(new, i)
  <2>1. CASE i \notin DOMAIN old
    <3>1. i = m /\ m = n + 1
      BY <1>2, <2>1
    <3>2. DOMAIN new[i].children = {}
      BY <1>6, <3>1
    <3> QED  BY <3>2 DEF LinkedNode
  <2>2. CASE i \in DOMAIN old /\ i # parent
    <3>1. LinkedNode(old, i) /\ new[i].children = old[i].children /\ new[i].world = old[i].world
      BY <1>3, <2>2 DEF Linked
    <3>2. \A j \in DOMAIN old : j \in DOMAIN new /\ new[j].world = old[j].world
      BY <1>2, <1>3
    <3> QED  BY <3>1, <3>2 DEF LinkedNode
  <2>3. CASE i = parent
    <3>1. LinkedNode(old, parent)
      BY DEF Linked
    <3>2. \A j \in DOMAIN old : j \in DOMAIN new /\ new[j].world = old[j].world
      BY <1>2, <1>3
    <3>3. ASSUME NEW e \in 1 .. last
          PROVE  /\ new[parent].children[e].child \in DOMAIN new
                 /\ new[new[parent].children[e].child].world
                      = Outcome(new[parent].world, new[parent].children[e].action)
      <4>1. CASE e \in DOMAIN edges
        <5>1. /\ edges[e].child \in DOMAIN old
              /\ old[edges[e].child].world = Outcome(old[parent].world, edges[e].action)
          BY <3>1, <4>1 DEF LinkedNode, edges
        <5> QED  BY <1>4, <3>2, <4>1, <5>1
      <4>2. CASE e = last
        BY <1>2, <1>4, <1>5, <3>2, <4>2
      <4> QED  BY <1>4, <4>1, <4>2
    <3>4. ASSUME NEW e \in 1 .. last, NEW f \in 1 .. last,
                 new[parent].children[e].action = new[parent].children[f].action
          PROVE  e = f
      <4>1. \A g, h \in DOMAIN edges : edges[g].action = edges[h].action => g = h
        BY <3>1 DEF LinkedNode, edges
      <4>2. \A g \in DOMAIN edges : edges[g].action # x
        BY DEF edges
      <4> QED  BY <1>4, <1>5, <3>4, <4>1, <4>2
    <3> QED  BY <1>4, <2>3, <3>3, <3>4 DEF LinkedNode
  <2> QED  BY <2>1, <2>2, <2>3
<1>11. ASSUME NEW j \in DOMAIN new \ {1} PROVE \E i \in DOMAIN new : Leads(new, i, j)
  <2>1. CASE j \in DOMAIN old
    <3>1. PICK i \in DOMAIN old : Leads(old, i, j)
      BY <2>1 DEF Linked
    <3> QED  BY <1>2, <1>7, <3>1
  <2>2. CASE j \notin DOMAIN old
    <3>1. j = child
      BY <1>2, <1>6, <2>2
    <3> QED  BY <1>2, <1>8, <3>1
  <2> QED  BY <2>1, <2>2
<1> QED
  BY <1>9, <1>10, <1>11 DEF Linked

(* A node with an edge more. *)
LEMMA NodeWithEdge ==
  ASSUME NEW nodes \in Trees, NEW parent \in DOMAIN nodes, NEW edge \in TreeEdges,
         NEW linked, linked = [nodes EXCEPT ![parent].children = Append(@, edge)]
  PROVE  /\ linked \in Trees /\ Len(linked) = Len(nodes)
         /\ \A i \in DOMAIN nodes :
              /\ linked[i].visits = nodes[i].visits /\ linked[i].totals = nodes[i].totals
              /\ linked[i].world = nodes[i].world
              /\ linked[i].children = IF i = parent THEN Append(nodes[i].children, edge) ELSE nodes[i].children
<1> DEFINE grown == [nodes[parent] EXCEPT !.children = Append(@, edge)]
<1>1. /\ nodes[parent] \in TreeNodes /\ nodes[parent].children \in Seq(TreeEdges)
      /\ Len(nodes) \in Nat /\ DOMAIN nodes = 1 .. Len(nodes)
  BY NodeIsTyped
<1>2. Append(nodes[parent].children, edge) \in Seq(TreeEdges)
  BY <1>1
<1>3. /\ grown \in TreeNodes
      /\ grown.visits = nodes[parent].visits /\ grown.totals = nodes[parent].totals
      /\ grown.world = nodes[parent].world
      /\ grown.children = Append(nodes[parent].children, edge)
  <2> DEFINE S == Seq(TreeEdges)
             more == Append(nodes[parent].children, edge)
  <2>1. more \in S /\ nodes[parent] \in [world : Worlds, children : S, visits : Nat, totals : Totals]
    BY <1>1, <1>2 DEF TreeNodes
  <2> HIDE DEF S, more
  <2>2. [nodes[parent] EXCEPT !.children = more] \in [world : Worlds, children : S, visits : Nat, totals : Totals]
        /\ [nodes[parent] EXCEPT !.children = more].children = more
        /\ [nodes[parent] EXCEPT !.children = more].visits = nodes[parent].visits
        /\ [nodes[parent] EXCEPT !.children = more].totals = nodes[parent].totals
        /\ [nodes[parent] EXCEPT !.children = more].world = nodes[parent].world
    BY <2>1
  <2> QED  BY <2>2 DEF S, more, TreeNodes
<1>4. linked = [nodes EXCEPT ![parent] = grown]
  OBVIOUS
<1> HIDE DEF grown
<1>5. linked \in Trees /\ Len(linked) = Len(nodes)
  <2> DEFINE n == Len(nodes)
  <2>1. nodes \in [1 .. n -> TreeNodes] /\ n \in Nat /\ parent \in 1 .. n
    BY <1>1 DEF Trees
  <2> HIDE DEF n
  <2>2. linked \in [1 .. n -> TreeNodes]
    BY <1>3, <1>4, <2>1
  <2>3. linked \in Seq(TreeNodes) /\ Len(linked) = n
    BY <2>1, <2>2
  <2> QED  BY <2>3 DEF n, Trees
<1>6. \A i \in DOMAIN nodes : linked[i] = IF i = parent THEN grown ELSE nodes[i]
  BY <1>4
<1> QED
  BY <1>3, <1>5, <1>6

SameWalk(old, new) ==
  /\ new.at = old.at /\ new.left = old.left /\ new.iterations = old.iterations
  /\ new.draws = old.draws /\ new.decision = old.decision /\ new.path = old.path
  /\ new.world = old.world /\ new.depth = old.depth /\ new.idle = old.idle

LEMMA SessionFields ==
  ASSUME NEW s \in MctsSessions
  PROVE  /\ s.nodes \in Trees /\ s.transpositions \in Places /\ s.draws \in Nat /\ s.iterations \in Nat
         /\ s.decision \in Decisions /\ s.left \in Nat /\ s.node \in Nat /\ s.path \in Seq(Nat)
         /\ s.world \in Worlds /\ s.depth \in Nat /\ s.idle \in Nat
         /\ s.at \in {"returned", "loop", "descend", "simulate", "failed"}
BY DEF MctsSessions

LEMMA DescentGrowsTheTree ==
  ASSUME problem \in Games, NEW s \in MctsSessions, TreeInv(s),
         NEW parent \in DOMAIN s.nodes, NEW x \in Exchanges,
         Outcome(s.nodes[parent].world, x) \in Worlds,
         NEW r, r = DescendOrExpand(s, parent, x)
  PROVE  /\ r \in MctsSessions
         /\ TreeInv(r)
         /\ Grown(s.nodes, r.nodes, parent, r.node)
         /\ SameWalk(s, r)
<1> DEFINE next == Outcome(s.nodes[parent].world, x)
<1>1. /\ s.nodes \in Trees /\ s.transpositions \in Places
      /\ Placed(s.nodes, s.transpositions) /\ Linked(s.nodes)
      /\ Len(s.nodes) \in Nat /\ DOMAIN s.nodes = 1 .. Len(s.nodes) /\ next \in Worlds
  BY SessionFields, NodeIsTyped DEF TreeInv
<1>2. CASE EdgesFor(s, parent, x) # {}
  <2>1. PICK e \in DOMAIN s.nodes[parent].children :
          ChildBy(s, parent, x) = s.nodes[parent].children[e].child
    BY <1>2 DEF ChildBy, EdgesFor
  <2>2. ChildBy(s, parent, x) \in DOMAIN s.nodes /\ Leads(s.nodes, parent, ChildBy(s, parent, x))
    BY <1>1, <2>1 DEF Linked, LinkedNode, Leads
  <2>3. r = [s EXCEPT !.node = ChildBy(s, parent, x)]
    BY <1>2 DEF DescendOrExpand
  <2>4. ChildBy(s, parent, x) \in Nat
    BY <1>1, <2>2
  <2> DEFINE c == ChildBy(s, parent, x)
  <2> HIDE DEF c
  <2>5. r = [s EXCEPT !.node = c] /\ c \in Nat
    BY <2>3, <2>4 DEF c
  <2>6. r \in MctsSessions /\ r.nodes = s.nodes /\ r.transpositions = s.transpositions
        /\ r.node = c /\ SameWalk(s, r)
    BY <2>5 DEF MctsSessions, SameWalk
  <2>7. Grown(s.nodes, r.nodes, parent, r.node)
    BY <2>2, <2>6 DEF Grown, c
  <2> QED  BY <1>1, <2>6, <2>7 DEF TreeInv
<1>3. CASE EdgesFor(s, parent, x) = {}
  <2> DEFINE known == next \in DOMAIN s.transpositions
             child == IF known THEN s.transpositions[next] ELSE Len(s.nodes) + 1
             edge == [action |-> x, child |-> child]
  <2>1. PICK linked : linked = [s.nodes EXCEPT ![parent].children = Append(@, edge)]
    OBVIOUS
  <2>2. \A e \in DOMAIN s.nodes[parent].children : s.nodes[parent].children[e].action # x
    BY <1>3 DEF EdgesFor
  <2>3. /\ child \in Nat
        /\ edge \in TreeEdges
        /\ known => child \in DOMAIN s.nodes /\ s.nodes[child].world = next
    <3>1. known => child \in DOMAIN s.nodes /\ s.nodes[child].world = next
      BY <1>1 DEF Placed
    <3>2. child \in Nat
      BY <1>1, <3>1
    <3> HIDE DEF child
    <3> QED  BY <3>1, <3>2 DEF TreeEdges
  <2>4. /\ linked \in Trees /\ Len(linked) = Len(s.nodes)
        /\ \A i \in DOMAIN s.nodes :
             /\ linked[i].visits = s.nodes[i].visits /\ linked[i].totals = s.nodes[i].totals
             /\ linked[i].world = s.nodes[i].world
             /\ linked[i].children = IF i = parent THEN Append(s.nodes[i].children, edge) ELSE s.nodes[i].children
    <3>1. edge \in TreeEdges
      BY <2>3
    <3> HIDE DEF edge
    <3> QED  BY SMTT(20), <1>1, <2>1, <3>1, NodeWithEdge
  <2>5. CASE known
    <3>1. r = [s EXCEPT !.nodes = linked, !.node = child]
      BY <1>3, <2>1, <2>5 DEF DescendOrExpand
    <3>2. EdgeMore(s.nodes, linked, parent, x, child)
      BY <2>3, <2>4, <2>5 DEF EdgeMore
    <3> HIDE DEF child, known
    <3>3. /\ r \in MctsSessions /\ r.nodes = linked /\ r.transpositions = s.transpositions
          /\ r.node = child /\ SameWalk(s, r)
      BY <2>3, <2>4, <2>5, <3>1 DEF MctsSessions, SameWalk
    <3>4. linked[child].world = next
      BY <2>3, <2>4, <2>5
    <3>5. Grown(s.nodes, linked, parent, child) /\ Linked(linked)
      BY <1>1, <2>2, <2>3, <2>4, <3>2, <3>4, EdgeMoreGrows
    <3>6. Placed(linked, s.transpositions)
      <4>1. DOMAIN linked = DOMAIN s.nodes
        BY <1>1, <2>4 DEF Trees
      <4>2. 1 \in DOMAIN s.nodes /\ Len(linked) > 0
        BY <1>1, <2>4 DEF Placed
      <4> HIDE DEF next
      <4>3. \A i \in DOMAIN s.nodes : linked[i].world = s.nodes[i].world
        BY <2>4
      <4> QED  BY <1>1, <4>1, <4>2, <4>3 DEF Placed
    <3> QED  BY <3>3, <3>5, <3>6 DEF TreeInv
  <2>6. CASE ~known
    <3> DEFINE n == Len(s.nodes)
    <3>1. child = n + 1
      BY <2>6
    <3>2. PICK new : new = Append(linked, MctsNode(next))
      OBVIOUS
    <3>3. PICK places : places = Located(s.transpositions, next, child)
      OBVIOUS
    <3>4. r = [s EXCEPT !.nodes = new, !.node = child, !.transpositions = places]
      BY <1>3, <2>1, <2>6, <3>2, <3>3 DEF DescendOrExpand
    <3> HIDE DEF child, known
    <3>5. /\ new \in Trees /\ Len(new) = n + 1 /\ new[n + 1] = MctsNode(next)
          /\ \A i \in DOMAIN s.nodes : new[i] = linked[i]
          /\ DOMAIN new = DOMAIN s.nodes \cup {n + 1} /\ n + 1 \notin DOMAIN s.nodes
      <4>1. MctsNode(next) \in TreeNodes
        BY <1>1, ZeroTotals
      <4> DEFINE fresh == MctsNode(next)
      <4>2. linked \in Seq(TreeNodes) /\ Len(linked) = n /\ n \in Nat /\ fresh \in TreeNodes
            /\ new = Append(linked, fresh) /\ DOMAIN s.nodes = 1 .. n
        BY <1>1, <2>4, <3>2, <4>1 DEF Trees
      <4> HIDE DEF fresh, n
      <4>3. new \in Seq(TreeNodes) /\ Len(new) = n + 1 /\ new[n + 1] = fresh
            /\ \A i \in 1 .. n : new[i] = linked[i]
        BY <4>2
      <4> QED  BY <4>2, <4>3 DEF Trees, fresh
    <3>6. EdgeMore(s.nodes, new, parent, x, child)
      BY <2>4, <3>1, <3>5 DEF EdgeMore
    <3>7. /\ places \in Places /\ DOMAIN places = DOMAIN s.transpositions \cup {next}
          /\ places[next] = child
          /\ \A w \in DOMAIN s.transpositions : w # next /\ places[w] = s.transpositions[w]
      <4>1. PICK D \in SUBSET Worlds : s.transpositions \in [D -> Nat]
        BY <1>1 DEF Places
      <4>2. places \in [D \cup {next} -> Nat]
        BY <2>3, <3>3, <4>1 DEF Located
      <4>3. D \cup {next} \in SUBSET Worlds
        BY <1>1
      <4> QED  BY <2>6, <3>3, <4>1, <4>2, <4>3 DEF Places, Located, known
    <3>8. /\ r \in MctsSessions /\ r.nodes = new /\ r.transpositions = places
          /\ r.node = child /\ SameWalk(s, r)
      BY <2>3, <3>4, <3>5, <3>7 DEF MctsSessions, SameWalk
    <3>9. new[child].world = next
      BY <1>1, <3>1, <3>5, ZeroTotals
    <3>10. Grown(s.nodes, new, parent, child) /\ Linked(new)
      BY <1>1, <2>2, <2>3, <3>5, <3>6, <3>9, EdgeMoreGrows
    <3>11. Placed(new, places)
      <4>1. \A i \in DOMAIN s.nodes : new[i].world = s.nodes[i].world
        BY <2>4, <3>5
      <4>2. 1 \in DOMAIN s.nodes /\ Len(new) > 0
        BY <1>1, <3>5 DEF Placed
      <4>3. ASSUME NEW i \in DOMAIN new
            PROVE  new[i].world \in DOMAIN places /\ places[new[i].world] = i
        <5>1. CASE i \in DOMAIN s.nodes
          BY <1>1, <3>7, <4>1, <5>1 DEF Placed
        <5>2. CASE i = child
          BY <3>7, <3>9, <5>2
        <5> QED  BY <3>1, <3>5, <5>1, <5>2
      <4>4. ASSUME NEW w \in DOMAIN places
            PROVE  places[w] \in DOMAIN new /\ new[places[w]].world = w
        <5>1. CASE w = next
          BY <3>1, <3>5, <3>7, <3>9, <5>1
        <5>2. CASE w \in DOMAIN s.transpositions
          BY SMTT(20), <1>1, <3>5, <3>7, <4>1, <5>2 DEF Placed
        <5> QED  BY <3>7, <5>1, <5>2
      <4> HIDE DEF next
      <4> QED  BY <1>1, <4>1, <4>2, <4>3, <4>4 DEF Placed
    <3> QED  BY <3>8, <3>10, <3>11 DEF TreeInv
  <2> QED  BY <2>5, <2>6
<1> QED
  BY <1>2, <1>3

-----------------------------------------------------------------------------
LEMMA EdgesAreExchanges ==
  ASSUME NEW nodes \in Trees, Linked(nodes), NEW i \in DOMAIN nodes, NEW j, Leads(nodes, i, j)
  PROVE  /\ j \in DOMAIN nodes
         /\ \E x \in Exchanges : nodes[j].world = Outcome(nodes[i].world, x)
<1>1. PICK e \in DOMAIN nodes[i].children : nodes[i].children[e].child = j
  BY DEF Leads
<1>2. LinkedNode(nodes, i) /\ nodes[i].children[e].action \in Exchanges
  BY <1>1, NodeIsTyped DEF Linked
<1> QED
  BY <1>1, <1>2 DEF LinkedNode

(* Where no exchanges lead back, a way from the root passes no node twice.  *)
LEMMA PathsDoNotReturn ==
  ASSUME Progressing, NEW nodes \in Trees, Linked(nodes),
         NEW n \in Nat, NEW path \in [1 .. n -> DOMAIN nodes],
         \A k \in 1 .. n - 1 : Leads(nodes, path[k], path[k + 1])
  PROVE  \A k, l \in 1 .. n : path[k] = path[l] => k = l
<1> DEFINE way == [k \in 1 .. n |-> nodes[path[k]].world]
<1>1. way \in [1 .. n -> Worlds]
  BY NodeIsTyped
<1>2. ASSUME NEW k \in 1 .. n - 1 PROVE \E x \in Exchanges : way[k + 1] = Outcome(way[k], x)
  <2>1. k \in 1 .. n /\ k + 1 \in 1 .. n
    OBVIOUS
  <2>2. path[k] \in DOMAIN nodes /\ Leads(nodes, path[k], path[k + 1])
    BY <2>1
  <2> QED  BY <2>1, <2>2, EdgesAreExchanges
<1>3. \A k, l \in 1 .. n : path[k] = path[l] => way[k] = way[l]
  OBVIOUS
<1> HIDE DEF way
<1>4. \A k, l \in 1 .. n : way[k] = way[l] => k = l
  BY <1>1, <1>2, WaysDoNotReturn
<1> QED
  BY <1>3, <1>4

LEMMA NothingLeadsToItself ==
  ASSUME Progressing, NEW nodes \in Trees, Linked(nodes), NEW i \in DOMAIN nodes
  PROVE  ~Leads(nodes, i, i)
<1> SUFFICES ASSUME Leads(nodes, i, i) PROVE FALSE
  OBVIOUS
<1> DEFINE path == [k \in 1 .. 2 |-> i]
<1>1. path \in [1 .. 2 -> DOMAIN nodes] /\ path[1] = path[2] /\ \A k \in 1 .. 1 : Leads(nodes, path[k], path[k + 1])
  OBVIOUS
<1> HIDE DEF path
<1>2. 2 \in Nat /\ 2 - 1 = 1 /\ 1 \in 1 .. 2 /\ 2 \in 1 .. 2 /\ 1 # 2
  OBVIOUS
<1>3. \A k \in 1 .. 2 - 1 : Leads(nodes, path[k], path[k + 1])
  BY <1>1, <1>2
<1>4. \A k, l \in 1 .. 2 : path[k] = path[l] => k = l
  BY <1>1, <1>2, <1>3, PathsDoNotReturn
<1> QED
  BY <1>1, <1>2, <1>4

LEMMA KidsAreFinite ==
  ASSUME NEW nodes \in Trees
  PROVE  IsFiniteSet(Kids(nodes)) /\ Kids(nodes) \subseteq DOMAIN nodes
<1>1. Len(nodes) \in Nat /\ DOMAIN nodes = 1 .. Len(nodes)
  BY DEF Trees
<1>2. IsFiniteSet(DOMAIN nodes)
  BY <1>1, FS_Interval
<1> QED
  BY <1>2, FS_Subset DEF Kids

LEMMA ToldIsTyped ==
  ASSUME NEW nodes \in Trees, NEW p \in 1 .. problem.players
  PROVE  Told(nodes, p) \in [Kids(nodes) -> Int]
<1> SUFFICES ASSUME NEW i \in Kids(nodes) PROVE nodes[i].totals[p] \in Int
  BY DEF Told
<1>1. i \in DOMAIN nodes
  BY DEF Kids
<1>2. nodes[i].totals \in Totals
  BY <1>1, NodeIsTyped
<1> QED
  BY <1>2 DEF Totals

(* A turn of the descent counts nothing. *)
LEMMA GrowthCountsNothing ==
  ASSUME problem \in Games, NEW s \in MctsSessions, NEW r \in MctsSessions, TreeInv(s), TreeInv(r),
         NEW parent \in DOMAIN s.nodes, Grown(s.nodes, r.nodes, parent, r.node),
         CountInv(s), SumInv(s.nodes), r.iterations = s.iterations
  PROVE  CountInv(r) /\ SumInv(r.nodes)
<1> DEFINE old == s.nodes
           new == r.nodes
           child == r.node
<1>1. /\ old \in Trees /\ new \in Trees /\ s.iterations \in Nat
      /\ Linked(old) /\ Linked(new)
      /\ DOMAIN old = 1 .. Len(old) /\ DOMAIN new = 1 .. Len(new)
      /\ Len(old) \in Nat /\ Len(new) \in Nat /\ 1 \in DOMAIN old
  <2>1. old \in Trees /\ new \in Trees /\ s.iterations \in Nat
    BY SessionFields
  <2>2. Len(old) \in Nat /\ Len(new) \in Nat /\ DOMAIN old = 1 .. Len(old) /\ DOMAIN new = 1 .. Len(new)
    BY <2>1 DEF Trees
  <2>3. Linked(old) /\ Linked(new) /\ Len(old) > 0
    BY DEF TreeInv, Placed
  <2> QED  BY <2>1, <2>2, <2>3
<1>2. /\ child \in DOMAIN new /\ Leads(new, parent, child)
      /\ \A i \in DOMAIN old :
           /\ i \in DOMAIN new
           /\ new[i].visits = old[i].visits /\ new[i].totals = old[i].totals
           /\ \A j : Leads(old, i, j) => Leads(new, i, j)
           /\ \A j : Leads(new, i, j) => Leads(old, i, j) \/ (i = parent /\ j = child)
  BY DEF Grown
<1>3. ASSUME NEW i \in DOMAIN new, i \notin DOMAIN old
      PROVE  i = child /\ new[i].visits = 0 /\ \A p \in 1 .. problem.players : new[i].totals[p] = 0
  <2>1. Len(new) # Len(old)
    BY <1>1, <1>3
  <2>2. /\ Len(new) = Len(old) + 1 /\ child = Len(new) /\ new[child].visits = 0
        /\ \A p \in 1 .. problem.players : new[child].totals[p] = 0
    BY <2>1 DEF Grown
  <2>3. i = child
    BY <1>1, <1>3, <2>2
  <2> QED  BY <2>2, <2>3
<1> HIDE DEF old, new, child
<1>4. CountInv(r)
  <2>1. \A i \in DOMAIN new : new[i].visits = 0 \/ (i \in DOMAIN old /\ new[i].visits = old[i].visits)
    BY <1>2, <1>3
  <2>2. new[1].visits = old[1].visits
    BY <1>1, <1>2
  <2> QED  BY <1>1, <2>1, <2>2 DEF CountInv, old, new
<1>5. SumInv(new)
  <2> SUFFICES ASSUME Progressing, OneWayIn(new), NEW p \in 1 .. problem.players
               PROVE  new[1].totals[p] = Total(Told(new, p), Kids(new))
    BY DEF SumInv
  <2>1. \A j \in Kids(old) : j \in Kids(new)
    BY <1>1, <1>2 DEF Kids
  <2>2. OneWayIn(old)
    BY <1>2, <2>1 DEF OneWayIn
  <2>3. old[1].totals[p] = Total(Told(old, p), Kids(old))
    BY <2>2 DEF SumInv, old
  <2>4. \A j \in Kids(new) : j \in Kids(old) \/ (parent = 1 /\ j = child)
    <3> SUFFICES ASSUME NEW j \in Kids(new), ~(parent = 1 /\ j = child) PROVE j \in Kids(old)
      OBVIOUS
    <3>1. Leads(old, 1, j)
      BY <1>1, <1>2 DEF Kids
    <3> QED  BY <1>1, <3>1, EdgesAreExchanges DEF Kids
  <2>5. \A j \in Kids(old) : Told(new, p)[j] = Told(old, p)[j]
    BY <1>2, <2>1 DEF Told, Kids
  <2>6. new[1].totals[p] = old[1].totals[p]
    BY <1>1, <1>2
  <2>7. /\ IsFiniteSet(Kids(new)) /\ Told(new, p) \in [Kids(new) -> Int]
        /\ IsFiniteSet(Kids(old)) /\ Told(old, p) \in [Kids(old) -> Int]
    BY <1>1, KidsAreFinite, ToldIsTyped
  <2>8. CASE Kids(new) = Kids(old)
    <3>1. Told(new, p) = Told(old, p)
      BY <2>5, <2>7, <2>8
    <3> QED  BY <2>3, <2>6, <2>8, <3>1
  <2>9. CASE Kids(new) # Kids(old)
    <3>1. parent = 1 /\ child \in Kids(new) /\ child \notin Kids(old)
      BY <2>1, <2>4, <2>9
    <3>2. Kids(old) = Kids(new) \ {child}
      BY <2>1, <2>4, <3>1
    <3>3. child # 1
      <4>1. 1 \in DOMAIN new
        BY <1>1, <1>2
      <4> QED  BY <1>1, <3>1, <4>1, NothingLeadsToItself DEF Kids
    <3>4. child \notin DOMAIN old
      <4> SUFFICES ASSUME child \in DOMAIN old PROVE FALSE
        OBVIOUS
      <4>1. PICK i \in DOMAIN old : Leads(old, i, child)
        BY <1>1, <3>3 DEF Linked
      <4>2. i # 1
        BY <3>1, <4>1 DEF Kids
      <4> QED  BY <1>2, <3>1, <4>1, <4>2 DEF OneWayIn
    <3>5. Told(new, p)[child] = 0
      BY <1>2, <1>3, <3>1, <3>4 DEF Told
    <3>6. Total(Told(new, p), Kids(new)) = Told(new, p)[child] + Total(Told(old, p), Kids(new) \ {child})
      <4> DEFINE F == Told(new, p)
                 A == Told(old, p)
                 K == Kids(new)
      <4>1. /\ IsFiniteSet(K) /\ child \in K /\ F \in [K -> Int] /\ A \in [K \ {child} -> Int]
            /\ \A c \in K \ {child} : F[c] = A[c]
        BY <2>5, <2>7, <3>1, <3>2
      <4> HIDE DEF F, A, K
      <4>2. Total(F, K) = F[child] + Total(A, K \ {child})
        BY <4>1, TotalWithOneMore
      <4> QED  BY <4>2 DEF F, A, K
    <3>7. Total(Told(old, p), Kids(old)) \in Int
      BY <2>7, TotalType
    <3> QED  BY <2>3, <2>6, <3>2, <3>5, <3>6, <3>7
  <2> QED  BY <2>8, <2>9
<1> QED
  BY <1>4, <1>5 DEF new

-----------------------------------------------------------------------------
LEMMA CreditIsCounted ==
  ASSUME problem \in Games, NEW nodes \in Trees, NEW path \in Seq(Nat),
         NEW values \in Seq(Int), ValidValues(values),
         NEW after, after = Credited(nodes, path, values)
  PROVE  /\ after \in Trees /\ DOMAIN after = DOMAIN nodes /\ Len(after) = Len(nodes)
         /\ \A i \in DOMAIN nodes :
              /\ after[i].world = nodes[i].world /\ after[i].children = nodes[i].children
              /\ after[i].visits = nodes[i].visits + Occurrences(path, i)
              /\ \A p \in 1 .. problem.players :
                   after[i].totals[p] = nodes[i].totals[p] + Occurrences(path, i) * values[p]
<1>1. /\ problem.players \in Nat /\ DOMAIN values = 1 .. problem.players
      /\ \A p \in 1 .. problem.players : values[p] \in Int
  BY GameIsTyped DEF ValidValues
<1>2. ASSUME NEW i \in DOMAIN nodes
      PROVE  /\ after[i] \in TreeNodes
             /\ after[i].world = nodes[i].world /\ after[i].children = nodes[i].children
             /\ after[i].visits = nodes[i].visits + Occurrences(path, i)
             /\ \A p \in 1 .. problem.players :
                  after[i].totals[p] = nodes[i].totals[p] + Occurrences(path, i) * values[p]
  <2> DEFINE times == Occurrences(path, i)
             told == AddValues(nodes[i].totals, Plural(times, values))
             visits == nodes[i].visits + times
  <2>1. times \in Nat
    <3>1. Len(path) \in Nat /\ DOMAIN path = 1 .. Len(path)
      OBVIOUS
    <3> QED  BY <3>1, OccurrencesCount
  <2>2. /\ nodes[i] \in TreeNodes /\ nodes[i].visits \in Nat
        /\ nodes[i].totals \in [1 .. problem.players -> Int]
    BY NodeIsTyped DEF Totals
  <2> HIDE DEF times
  <2>3. told = [p \in 1 .. problem.players |-> nodes[i].totals[p] + times * values[p]]
    <3>1. DOMAIN nodes[i].totals = 1 .. problem.players
      BY <2>2
    <3>2. \A p \in 1 .. problem.players : Plural(times, values)[p] = times * values[p]
      BY <1>1 DEF Plural
    <3> QED  BY <3>1, <3>2 DEF AddValues
  <2>4. told \in Totals /\ \A p \in 1 .. problem.players : told[p] = nodes[i].totals[p] + times * values[p]
    <3>1. ASSUME NEW p \in 1 .. problem.players PROVE nodes[i].totals[p] + times * values[p] \in Int
      <4>1. values[p] \in Int /\ nodes[i].totals[p] \in Int
        BY <1>1, <2>2
      <4>2. \A k, v, t \in Int : t + k * v \in Int
        OBVIOUS
      <4> QED  BY <2>1, <4>1, <4>2
    <3> HIDE DEF told
    <3> QED  BY <2>3, <3>1 DEF Totals
  <2>5. visits \in Nat
    BY <2>1, <2>2
  <2> HIDE DEF told, visits
  <2>6. after[i] = [nodes[i] EXCEPT !.visits = visits, !.totals = told]
    BY DEF Credited, told, visits, times
  <2>7. after[i] \in TreeNodes
        /\ after[i].world = nodes[i].world /\ after[i].children = nodes[i].children
        /\ after[i].visits = visits /\ after[i].totals = told
    <3> DEFINE S == Seq(TreeEdges)
    <3>1. nodes[i] \in [world : Worlds, children : S, visits : Nat, totals : Totals]
      BY <2>2 DEF TreeNodes
    <3> HIDE DEF S
    <3>2. after[i] \in [world : Worlds, children : S, visits : Nat, totals : Totals]
          /\ after[i].world = nodes[i].world /\ after[i].children = nodes[i].children
          /\ after[i].visits = visits /\ after[i].totals = told
      BY <2>4, <2>5, <2>6, <3>1
    <3> QED  BY <3>2 DEF S, TreeNodes
  <2> QED  BY <2>4, <2>7 DEF visits, times
<1>3. after \in Trees /\ DOMAIN after = DOMAIN nodes /\ Len(after) = Len(nodes)
  <2> DEFINE n == Len(nodes)
  <2>1. n \in Nat /\ DOMAIN nodes = 1 .. n
    BY DEF Trees
  <2> HIDE DEF n
  <2>2. DOMAIN after = 1 .. n /\ after = [i \in 1 .. n |-> after[i]]
    BY <2>1 DEF Credited
  <2>3. after \in [1 .. n -> TreeNodes]
    BY <1>2, <2>1, <2>2
  <2>4. after \in Seq(TreeNodes) /\ Len(after) = n
    BY <2>1, <2>3
  <2> QED  BY <2>1, <2>2, <2>4 DEF Trees, n
<1> QED
  BY <1>2, <1>3

LEMMA CreditKeepsTheTree ==
  ASSUME NEW old \in Trees, NEW new \in Trees, NEW places, Len(new) = Len(old), DOMAIN new = DOMAIN old,
         \A i \in DOMAIN old : new[i].world = old[i].world /\ new[i].children = old[i].children
  PROVE  /\ \A i \in DOMAIN old : \A j : Leads(new, i, j) <=> Leads(old, i, j)
         /\ Placed(old, places) => Placed(new, places)
         /\ Linked(old) => Linked(new)
         /\ 1 \in DOMAIN old => Kids(new) = Kids(old)
<1>1. ASSUME NEW i \in DOMAIN old, NEW j PROVE Leads(new, i, j) <=> Leads(old, i, j)
  BY DEF Leads
<1>2. ASSUME Placed(old, places) PROVE Placed(new, places)
  <2>1. 1 \in DOMAIN old
    BY <1>2 DEF Placed, Trees
  <2> QED  BY <1>2, <2>1 DEF Placed
<1>3. ASSUME Linked(old) PROVE Linked(new)
  <2>1. ASSUME NEW i \in DOMAIN old PROVE LinkedNode(new, i)
    BY <1>3 DEF Linked, LinkedNode
  <2>2. ASSUME NEW j \in DOMAIN new \ {1} PROVE \E i \in DOMAIN new : Leads(new, i, j)
    BY <1>1, <1>3 DEF Linked
  <2> QED  BY <2>1, <2>2 DEF Linked
<1> QED
  BY <1>1, <1>2, <1>3 DEF Kids

(* What an iteration brings reaches the root through one of its children.   *)
LEMMA CreditAddsUp ==
  ASSUME problem \in Games, NEW nodes \in Trees, Linked(nodes), Len(nodes) > 0,
         NEW path \in Seq(Nat), PathOk(nodes, path), Len(path) > 1,
         NEW values \in Seq(Int), ValidValues(values), SumInv(nodes),
         NEW after, after = Credited(nodes, path, values)
  PROVE  SumInv(after)
<1> SUFFICES ASSUME Progressing, OneWayIn(after), NEW p \in 1 .. problem.players
             PROVE  after[1].totals[p] = Total(Told(after, p), Kids(after))
  BY DEF SumInv
<1>1. /\ after \in Trees /\ DOMAIN after = DOMAIN nodes /\ Len(after) = Len(nodes)
      /\ \A i \in DOMAIN nodes :
           /\ after[i].world = nodes[i].world /\ after[i].children = nodes[i].children
           /\ after[i].totals[p] = nodes[i].totals[p] + Occurrences(path, i) * values[p]
  BY CreditIsCounted
<1> HIDE DEF Credited
<1>2. 1 \in DOMAIN nodes
  BY DEF Trees
<1>3. /\ Kids(after) = Kids(nodes)
      /\ \A i \in DOMAIN nodes : \A j : Leads(after, i, j) <=> Leads(nodes, i, j)
  BY <1>1, <1>2, CreditKeepsTheTree
<1> DEFINE n == Len(path)
<1>4. /\ n \in Nat /\ n > 1 /\ DOMAIN path = 1 .. n /\ path \in [1 .. n -> DOMAIN nodes]
      /\ path[1] = 1 /\ \A k \in 1 .. n - 1 : Leads(nodes, path[k], path[k + 1])
  BY DEF PathOk
<1> HIDE DEF n
<1>5. \A k, l \in 1 .. n : path[k] = path[l] => k = l
  BY ZenonT(30), <1>4, PathsDoNotReturn
<1>6. OneWayIn(nodes)
  BY <1>1, <1>3 DEF OneWayIn
<1>7. nodes[1].totals[p] = Total(Told(nodes, p), Kids(nodes))
  BY <1>6 DEF SumInv
<1>8. 1 \in 1 .. n /\ 2 \in 1 .. n
  BY <1>4
<1>9. Occurrences(path, 1) = 1 /\ Occurrences(path, path[2]) = 1
  <2>1. ASSUME NEW step, \E k \in 1 .. n : path[k] = step PROVE Occurrences(path, step) = 1
    <3>1. /\ Occurrences(path, step) \in Nat /\ Occurrences(path, step) > 0
          /\ Occurrences(path, step) <= 1
      BY <1>4, <1>5, <2>1, OccurrencesCount
    <3> QED  BY <3>1
  <2> QED  BY <1>4, <1>8, <2>1
<1>10. path[2] \in Kids(nodes)
  <2>1. 1 \in 1 .. n - 1 /\ 1 + 1 = 2
    BY <1>4
  <2>2. Leads(nodes, path[1], path[1 + 1])
    BY <1>4, <2>1
  <2> QED  BY <1>4, <1>8, <2>1, <2>2 DEF Kids
<1>11. ASSUME NEW i \in Kids(nodes), i # path[2] PROVE Occurrences(path, i) = 0
  <2>1. ASSUME NEW k \in 1 .. n, path[k] = i PROVE FALSE
    <3>1. CASE k = 1
      BY <1>2, <1>4, <2>1, <3>1, NothingLeadsToItself DEF Kids
    <3>2. CASE k > 2
      <4>1. k - 1 \in 1 .. n - 1 /\ k - 1 \in 1 .. n /\ (k - 1) + 1 = k /\ k - 1 # 1
        BY <1>4, <3>2
      <4>2. Leads(nodes, path[k - 1], i)
        BY <1>4, <2>1, <4>1
      <4>3. path[k - 1] \in DOMAIN nodes \ {1}
        BY <1>4, <1>5, <1>8, <4>1
      <4> QED  BY <1>6, <4>2, <4>3 DEF OneWayIn
    <3> QED  BY <1>4, <1>11, <2>1, <3>1, <3>2
  <2>2. Occurrences(path, i) \in Nat /\ ~(Occurrences(path, i) > 0)
    BY <1>4, <2>1, OccurrencesCount
  <2> QED  BY <2>2
<1> DEFINE K == Kids(nodes)
           F == Told(after, p)
           A == Told(nodes, p)
           B == [i \in K |-> IF i = path[2] THEN values[p] ELSE 0]
<1>12. values[p] \in Int
  BY GameIsTyped DEF ValidValues
<1>13. /\ IsFiniteSet(K) /\ F \in [K -> Int] /\ A \in [K -> Int] /\ B \in [K -> Int]
       /\ path[2] \in K /\ B[path[2]] = values[p] /\ \A i \in K \ {path[2]} : B[i] = 0
  BY <1>1, <1>3, <1>10, <1>12, KidsAreFinite, ToldIsTyped
<1>14. \A i \in K : F[i] = A[i] + B[i]
  <2> SUFFICES ASSUME NEW i \in K PROVE F[i] = A[i] + B[i]
    OBVIOUS
  <2>1. i \in DOMAIN nodes /\ F[i] = after[i].totals[p] /\ A[i] = nodes[i].totals[p]
    BY <1>3 DEF Told, Kids
  <2>2. F[i] = A[i] + Occurrences(path, i) * values[p]
    BY <1>1, <2>1
  <2>3. \A v \in Int : 1 * v = v /\ 0 * v = 0
    OBVIOUS
  <2>4. CASE i = path[2]
    BY <1>9, <1>12, <1>13, <2>2, <2>3, <2>4
  <2>5. CASE i # path[2]
    <3>1. Occurrences(path, i) = 0 /\ B[i] = 0
      BY <1>11, <1>13, <2>5
    <3>2. 0 * values[p] = 0
      BY <1>12, <2>3
    <3> QED  BY <2>2, <3>1, <3>2
  <2> QED  BY <2>4, <2>5
<1> HIDE DEF K, F, A, B
<1>15. Total(F, K) = Total(A, K) + Total(B, K)
  BY ZenonT(30), <1>13, <1>14, TotalAdds
<1>16. Total(B, K) = values[p]
  BY <1>13, TotalOfOne
<1>17. after[1].totals[p] = nodes[1].totals[p] + values[p]
  <2>1. after[1].totals[p] = nodes[1].totals[p] + Occurrences(path, 1) * values[p]
    BY <1>1, <1>2
  <2>2. 1 * values[p] = values[p]
    BY <1>12
  <2> QED  BY <1>9, <2>1, <2>2
<1> QED
  BY <1>3, <1>7, <1>15, <1>16, <1>17 DEF K, F, A

LEMMA TreeOkFacts ==
  ASSUME NEW s, TreeOk(s)
  PROVE  /\ s \in MctsSessions /\ s.nodes \in Trees /\ Linked(s.nodes)
         /\ Placed(s.nodes, s.transpositions)
         /\ Len(s.nodes) \in Nat /\ Len(s.nodes) > 0 /\ DOMAIN s.nodes = 1 .. Len(s.nodes)
         /\ 1 \in DOMAIN s.nodes
<1>1. s.nodes \in Trees /\ Linked(s.nodes) /\ Placed(s.nodes, s.transpositions)
  BY SessionFields DEF TreeOk, TreeInv
<1>2. Len(s.nodes) \in Nat /\ Len(s.nodes) > 0 /\ DOMAIN s.nodes = 1 .. Len(s.nodes)
  BY <1>1 DEF Placed, Trees
<1> QED
  BY <1>1, <1>2 DEF TreeOk

(* A failure changes nothing else. *)
LEMMA FailureKeeps ==
  ASSUME NEW s, TreeOk(s), ~s.decision.found, NEW r, r = MctsFail(s)
  PROVE  SessionInv(r)
<1>1. s \in MctsSessions
  BY DEF TreeOk
<1>2. /\ r \in MctsSessions /\ r.nodes = s.nodes /\ r.transpositions = s.transpositions
      /\ r.iterations = s.iterations /\ r.decision = s.decision /\ r.at = "failed"
  BY <1>1 DEF MctsFail, MctsSessions
<1>3. TreeOk(r)
  BY <1>2 DEF TreeOk, TreeInv, CountInv
<1> QED
  BY <1>2, <1>3 DEF SessionInv, WalkInv, VisitInv, AcceptedInv, DecisionInv

(* The end of an iteration leaves every node visited. *)
LEMMA BackUpKeeps ==
  ASSUME problem \in Games, MctsAccepts, NEW s, TreeOk(s), ~s.decision.found, s.left > 0,
         NEW path \in Seq(Nat), PathOk(s.nodes, path), Len(path) > 1 \/ ~Progressing,
         \A i \in DOMAIN s.nodes \ {1} : s.nodes[i].visits > 0 \/ i = path[Len(path)],
         NEW values \in Seq(Int), NEW r, r = BackUp(s, path, values)
  PROVE  SessionInv(r)
<1>1. CASE ~ValidValues(values)
  BY <1>1, FailureKeeps DEF BackUp
<1>2. CASE ValidValues(values)
  <2>1. PICK after : after = Credited(s.nodes, path, values)
    OBVIOUS
  <2>2. r = [s EXCEPT !.at = "loop", !.left = @ - 1, !.iterations = @ + 1, !.path = <<>>, !.nodes = after]
    BY <1>2, <2>1 DEF BackUp
  <2>3. /\ s \in MctsSessions /\ s.nodes \in Trees /\ Linked(s.nodes) /\ Placed(s.nodes, s.transpositions)
        /\ Len(s.nodes) > 0 /\ 1 \in DOMAIN s.nodes
    BY TreeOkFacts
  <2>4. /\ after \in Trees /\ DOMAIN after = DOMAIN s.nodes /\ Len(after) = Len(s.nodes)
        /\ \A i \in DOMAIN s.nodes :
             /\ after[i].world = s.nodes[i].world /\ after[i].children = s.nodes[i].children
             /\ after[i].visits = s.nodes[i].visits + Occurrences(path, i)
    BY <1>2, <2>1, <2>3, CreditIsCounted
  <2>5. Linked(after) /\ Placed(after, s.transpositions)
    BY <2>3, <2>4, CreditKeepsTheTree
  <2>6. /\ r \in MctsSessions /\ r.nodes = after /\ r.transpositions = s.transpositions
        /\ r.iterations = s.iterations + 1 /\ r.decision = s.decision /\ r.at = "loop"
    <3>1. s.left - 1 \in Nat /\ s.iterations + 1 \in Nat /\ <<>> \in Seq(Nat)
      BY <2>3, SessionFields
    <3> DEFINE left == s.left - 1
               iterations == s.iterations + 1
               empty == <<>>
    <3>2. r = [s EXCEPT !.at = "loop", !.left = left, !.iterations = iterations, !.path = empty, !.nodes = after]
      BY <2>2
    <3>3. left \in Nat /\ iterations \in Nat /\ empty \in Seq(Nat)
      BY <3>1
    <3> HIDE DEF left, iterations, empty
    <3>4. /\ r \in MctsSessions /\ r.nodes = after /\ r.transpositions = s.transpositions
          /\ r.iterations = iterations /\ r.decision = s.decision /\ r.at = "loop"
      BY <2>3, <2>4, <3>2, <3>3 DEF MctsSessions
    <3> QED  BY <3>4 DEF iterations
  <2> DEFINE n == Len(path)
  <2>7. /\ n \in Nat /\ n > 0 /\ DOMAIN path = 1 .. n /\ path \in [1 .. n -> DOMAIN s.nodes]
        /\ path[1] = 1 /\ path[n] \in DOMAIN s.nodes
        /\ \A k \in 1 .. n - 1 : Leads(s.nodes, path[k], path[k + 1])
    BY DEF PathOk
  <2>8. ASSUME NEW i \in DOMAIN s.nodes
        PROVE  /\ Occurrences(path, i) \in Nat
               /\ i \in {1, path[n]} => Occurrences(path, i) > 0
               /\ Progressing => Occurrences(path, i) <= 1
    <3> HIDE DEF n
    <3>1. /\ Occurrences(path, i) \in Nat
          /\ (\E k \in 1 .. n : path[k] = i) <=> Occurrences(path, i) > 0
          /\ (\A k, l \in 1 .. n : path[k] = path[l] => k = l) => Occurrences(path, i) <= 1
      BY <2>7, OccurrencesCount
    <3>2. Progressing => \A k, l \in 1 .. n : path[k] = path[l] => k = l
      BY ZenonT(30), <2>3, <2>7, PathsDoNotReturn
    <3>3. 1 \in 1 .. n /\ n \in 1 .. n
      BY <2>7
    <3> QED  BY <2>7, <3>1, <3>2, <3>3
  <2>9. CountInv(r)
    <3>1. s.iterations \in Nat /\ \A i \in DOMAIN s.nodes : s.nodes[i].visits \in Nat
      BY <2>3, SessionFields, NodeIsTyped
    <3>2. CountInv(s)
      BY DEF TreeOk
    <3>3. /\ after[1].visits = s.nodes[1].visits + Occurrences(path, 1)
          /\ Occurrences(path, 1) \in Nat /\ Occurrences(path, 1) > 0
      BY <2>3, <2>4, <2>8
    <3>4. s.iterations + 1 <= after[1].visits
      BY <2>3, <3>1, <3>2, <3>3 DEF CountInv
    <3>5. ASSUME Progressing
          PROVE  /\ after[1].visits = s.iterations + 1
                 /\ \A i \in DOMAIN s.nodes : after[i].visits <= s.iterations + 1
      <4>1. s.nodes[1].visits = s.iterations /\ \A i \in DOMAIN s.nodes : s.nodes[i].visits <= s.iterations
        BY <3>2, <3>5 DEF CountInv
      <4>2. Occurrences(path, 1) <= 1
        BY <2>3, <2>8, <3>5
      <4>3. after[1].visits = s.iterations + 1
        BY <3>1, <3>3, <4>1, <4>2
      <4>4. ASSUME NEW i \in DOMAIN s.nodes PROVE after[i].visits <= s.iterations + 1
        <5>1. /\ after[i].visits = s.nodes[i].visits + Occurrences(path, i)
              /\ s.nodes[i].visits <= s.iterations /\ s.nodes[i].visits \in Nat
              /\ Occurrences(path, i) \in Nat /\ Occurrences(path, i) <= 1
          BY <2>4, <2>8, <3>1, <3>5, <4>1
        <5> QED  BY <3>1, <5>1
      <4> QED  BY <4>3, <4>4
    <3> QED  BY <2>4, <2>6, <3>4, <3>5 DEF CountInv
  <2>10. SumInv(after)
    <3>1. CASE ~Progressing
      BY <3>1 DEF SumInv
    <3>2. CASE Len(path) > 1
      <4>1. SumInv(s.nodes)
        BY DEF TreeOk
      <4> QED  BY <1>2, <2>1, <2>3, <3>2, <4>1, CreditAddsUp
    <3> QED  BY <3>1, <3>2
  <2>11. TreeOk(r)
    BY <2>5, <2>6, <2>9, <2>10 DEF TreeOk, TreeInv
  <2>12. \A i \in DOMAIN after \ {1} : after[i].visits > 0
    <3> SUFFICES ASSUME NEW i \in DOMAIN s.nodes, i # 1 PROVE after[i].visits > 0
      BY <2>4
    <3>1. /\ after[i].visits = s.nodes[i].visits + Occurrences(path, i)
          /\ s.nodes[i].visits \in Nat /\ Occurrences(path, i) \in Nat
          /\ s.nodes[i].visits > 0 \/ Occurrences(path, i) > 0
      BY <2>3, <2>4, <2>8, NodeIsTyped
    <3> QED  BY <3>1
  <2> QED
    BY <2>6, <2>11, <2>12 DEF SessionInv, WalkInv, VisitInv, AcceptedInv, DecisionInv
<1> QED
  BY <1>1, <1>2

(* A session that is one step further down, at a child of the last node. *)
Downward(d) ==
  /\ TreeOk(d) /\ ~d.decision.found /\ d.left > 0
  /\ PathOk(d.nodes, d.path)
  /\ d.node \in DOMAIN d.nodes
  /\ Leads(d.nodes, d.path[Len(d.path)], d.node)
  /\ \A i \in DOMAIN d.nodes \ {1} : d.nodes[i].visits > 0 \/ i = d.node

(* A way from the root of an edge or more, to a node. *)
WayTo(nodes, path, i) ==
  path \in Seq(Nat) /\ PathOk(nodes, path) /\ Len(path) \in Nat /\ Len(path) > 1 /\ path[Len(path)] = i

LEMMA PathFurther ==
  ASSUME NEW nodes \in Trees, NEW path \in Seq(Nat), PathOk(nodes, path), NEW child \in DOMAIN nodes,
         Leads(nodes, path[Len(path)], child)
  PROVE  WayTo(nodes, Append(path, child), child)
<1> DEFINE further == Append(path, child)
<1>1. child \in Nat /\ Len(path) \in Nat /\ Len(path) > 0
  BY NodeIsTyped DEF PathOk
<1> DEFINE n == Len(path)
<1>2. /\ further \in Seq(Nat) /\ Len(further) = n + 1 /\ DOMAIN further = 1 .. n + 1 /\ DOMAIN path = 1 .. n
      /\ \A k \in 1 .. n : further[k] = path[k]
      /\ further[n + 1] = child
  BY <1>1
<1>3. /\ path[1] = 1 /\ \A k \in 1 .. n : path[k] \in DOMAIN nodes
      /\ \A k \in 1 .. n - 1 : Leads(nodes, path[k], path[k + 1])
      /\ Leads(nodes, path[n], child) /\ n \in Nat /\ n > 0
  BY <1>1, <1>2 DEF PathOk
<1> HIDE DEF n, further
<1>4. \A k \in 1 .. n + 1 : further[k] \in DOMAIN nodes
  <2> SUFFICES ASSUME NEW k \in 1 .. n + 1 PROVE further[k] \in DOMAIN nodes
    OBVIOUS
  <2>1. k \in 1 .. n \/ k = n + 1
    BY <1>3
  <2> QED  BY <1>2, <1>3, <2>1
<1>5. \A k \in 1 .. n : Leads(nodes, further[k], further[k + 1])
  <2> SUFFICES ASSUME NEW k \in 1 .. n PROVE Leads(nodes, further[k], further[k + 1])
    OBVIOUS
  <2>1. CASE k = n
    BY <1>2, <1>3, <2>1
  <2>2. CASE k # n
    <3>1. k \in 1 .. n - 1 /\ k + 1 \in 1 .. n
      BY <1>3, <2>2
    <3> QED  BY <1>2, <1>3, <3>1
  <2> QED  BY <2>1, <2>2
<1>6. n + 1 \in Nat /\ n + 1 > 1 /\ n + 1 > 0 /\ n + 1 - 1 = n /\ 1 \in 1 .. n
  BY <1>3
<1> QED
  <2> DEFINE m == n + 1
  <2>1. /\ further \in Seq(Nat) /\ Len(further) = m /\ DOMAIN further = 1 .. m
        /\ further[1] = 1 /\ further[m] = child /\ m \in Nat /\ m > 1 /\ m > 0
    BY <1>2, <1>3, <1>6
  <2>2. /\ \A k \in 1 .. m : further[k] \in DOMAIN nodes
        /\ \A k \in 1 .. m - 1 : Leads(nodes, further[k], further[k + 1])
    <3>1. m - 1 = n
      BY <1>3
    <3>2. \A k \in 1 .. m : further[k] \in DOMAIN nodes
      BY <1>4
    <3> HIDE DEF m
    <3> QED  BY <1>5, <3>1, <3>2
  <2> HIDE DEF m
  <2>3. PathOk(nodes, further)
    BY <2>1, <2>2 DEF PathOk
  <2> QED  BY <2>1, <2>3 DEF WayTo, further

LEMMA WorthIsTyped ==
  ASSUME problem \in Games, NEW w \in Worlds
  PROVE  problem.values[w] \in Seq(Int)
BY GameIsTyped

(* A rollout from the child: the one node that may not have been visited. *)
LEMMA RolloutKeeps ==
  ASSUME problem \in Games, MctsAccepts, NEW d, Downward(d), NEW r, r = MctsRollout(d)
  PROVE  SessionInv(r)
<1>0. PICK further : further = Append(d.path, d.node)
  OBVIOUS
<1>1. /\ d \in MctsSessions /\ d.nodes \in Trees /\ d.path \in Seq(Nat) /\ d.depth \in Nat
      /\ PathOk(d.nodes, d.path) /\ d.node \in DOMAIN d.nodes
      /\ Leads(d.nodes, d.path[Len(d.path)], d.node)
  BY TreeOkFacts, SessionFields DEF Downward
<1>2. /\ further \in Seq(Nat) /\ PathOk(d.nodes, further)
      /\ Len(further) > 1 /\ further[Len(further)] = d.node
  <2> DEFINE nodes == d.nodes
             path == d.path
             child == d.node
  <2>1. /\ nodes \in Trees /\ path \in Seq(Nat) /\ PathOk(nodes, path) /\ child \in DOMAIN nodes
        /\ Leads(nodes, path[Len(path)], child) /\ further = Append(path, child)
    BY <1>0, <1>1
  <2> HIDE DEF nodes, path, child
  <2>2. WayTo(nodes, further, child)
    BY <2>1, PathFurther
  <2> QED  BY <2>2 DEF nodes, child, WayTo
<1> DEFINE w == d.nodes[d.node].world
           depth == d.depth + 1
<1>3. w \in Worlds /\ depth \in Nat
  BY <1>1, NodeIsTyped
<1>4. r = [d EXCEPT !.at = "simulate", !.path = further, !.depth = depth, !.world = w]
  BY <1>0 DEF MctsRollout
<1> HIDE DEF w, depth
<1>5. /\ r \in MctsSessions /\ r.nodes = d.nodes /\ r.transpositions = d.transpositions
      /\ r.iterations = d.iterations /\ r.decision = d.decision /\ r.at = "simulate"
      /\ r.path = further /\ r.left = d.left
  BY <1>1, <1>2, <1>3, <1>4 DEF MctsSessions
<1>6. TreeOk(d) /\ ~d.decision.found /\ d.left > 0
      /\ \A i \in DOMAIN d.nodes \ {1} : d.nodes[i].visits > 0 \/ i = d.node
  BY DEF Downward
<1>7. TreeOk(r)
  BY <1>5, <1>6 DEF TreeOk, TreeInv, CountInv
<1>8. WalkInv(r)
  BY <1>2, <1>5, <1>6 DEF WalkInv
<1>9. VisitInv(r)
  BY <1>2, <1>5, <1>6 DEF VisitInv
<1> QED
  BY <1>5, <1>6, <1>7, <1>8, <1>9 DEF SessionInv, AcceptedInv, DecisionInv

(* On along a child: back to a node of the path only where exchanges lead back. *)
LEMMA FollowKeeps ==
  ASSUME problem \in Games, MctsAccepts, NEW d, Downward(d), d.at = "descend",
         \A i \in DOMAIN d.nodes \ {1} : d.nodes[i].visits > 0, NEW r, r = MctsFollow(d)
  PROVE  SessionInv(r)
<1>0. PICK further : further = Append(d.path, d.node)
  OBVIOUS
<1>1. /\ d \in MctsSessions /\ d.nodes \in Trees /\ d.path \in Seq(Nat) /\ d.depth \in Nat
      /\ PathOk(d.nodes, d.path) /\ d.node \in DOMAIN d.nodes /\ Linked(d.nodes)
      /\ Leads(d.nodes, d.path[Len(d.path)], d.node)
      /\ TreeOk(d) /\ ~d.decision.found /\ d.left > 0
  BY TreeOkFacts, SessionFields DEF Downward
<1>2. /\ further \in Seq(Nat) /\ PathOk(d.nodes, further)
      /\ Len(further) \in Nat /\ Len(further) > 1 /\ further[Len(further)] = d.node
  <2> DEFINE nodes == d.nodes
             path == d.path
             child == d.node
  <2>1. /\ nodes \in Trees /\ path \in Seq(Nat) /\ PathOk(nodes, path) /\ child \in DOMAIN nodes
        /\ Leads(nodes, path[Len(path)], child) /\ further = Append(path, child)
    BY <1>0, <1>1
  <2> HIDE DEF nodes, path, child
  <2>2. WayTo(nodes, further, child)
    BY <2>1, PathFurther
  <2> QED  BY <2>2 DEF nodes, child, WayTo
<1>3. CASE Contains(d.path, d.node)
  <2>1. r = BackUp(d, d.path, problem.values[d.nodes[d.node].world])
    BY <1>3 DEF MctsFollow
  <2>2. ~Progressing
    <3> SUFFICES ASSUME Progressing PROVE FALSE
      OBVIOUS
    <3> DEFINE n == Len(d.path) + 1
    <3>1. PICK k \in 1 .. Len(d.path) : d.path[k] = d.node
      BY <1>3 DEF Contains
    <3>2. /\ Len(d.path) \in Nat /\ n \in Nat /\ Len(further) = n /\ k \in 1 .. n /\ n \in 1 .. n /\ k # n
          /\ further[k] = d.path[k] /\ DOMAIN further = 1 .. n
      <4>1. d.path \in Seq(Nat) /\ d.node \in Nat
        BY <1>1, SessionFields
      <4> QED  BY <1>0, <4>1
    <3>3. further[k] = further[n]
      BY <1>2, <3>1, <3>2
    <3>4. further \in [1 .. n -> DOMAIN d.nodes] /\ \A l \in 1 .. n - 1 : Leads(d.nodes, further[l], further[l + 1])
      BY <1>2, <3>2 DEF PathOk
    <3> DEFINE nodes == d.nodes
    <3>5. /\ nodes \in Trees /\ Linked(nodes) /\ n \in Nat /\ further \in [1 .. n -> DOMAIN nodes]
          /\ \A l \in 1 .. n - 1 : Leads(nodes, further[l], further[l + 1])
      BY <1>1, <3>2, <3>4
    <3> HIDE DEF n, nodes
    <3>6. \A l, m \in 1 .. n : further[l] = further[m] => l = m
      BY <3>5, PathsDoNotReturn
    <3> QED  BY <3>2, <3>3, <3>6
  <2>3. problem.values[d.nodes[d.node].world] \in Seq(Int)
    BY <1>1, NodeIsTyped, WorthIsTyped
  <2> QED  BY <1>1, <2>1, <2>2, <2>3, BackUpKeeps
<1>4. CASE ~Contains(d.path, d.node)
  <2> DEFINE depth == d.depth + 1
  <2>1. r = [d EXCEPT !.path = further, !.depth = depth] /\ depth \in Nat
    BY <1>0, <1>1, <1>4 DEF MctsFollow
  <2> HIDE DEF depth
  <2>2. /\ r \in MctsSessions /\ r.nodes = d.nodes /\ r.transpositions = d.transpositions
        /\ r.iterations = d.iterations /\ r.decision = d.decision /\ r.at = "descend"
        /\ r.path = further /\ r.left = d.left /\ r.node = d.node
    BY <1>1, <1>2, <2>1 DEF MctsSessions
  <2>3. TreeOk(r)
    BY <1>1, <2>2 DEF TreeOk, TreeInv, CountInv
  <2>4. WalkInv(r)
    BY <1>1, <1>2, <2>2 DEF WalkInv
  <2> QED
    BY <1>1, <2>2, <2>3, <2>4 DEF SessionInv, VisitInv, AcceptedInv, DecisionInv
<1> QED
  BY <1>3, <1>4

(* A turn of the descent for an accepted exchange. *)
LEMMA DescentIsDownward ==
  ASSUME problem \in Games, NEW s, SessionInv(s), s.at = "descend", NEW x \in Exchanges,
         Outcome(s.nodes[s.node].world, x) \in Worlds,
         NEW d, d = DescendOrExpand([s EXCEPT !.draws = @ + 1], s.node, x)
  PROVE  /\ Downward(d)
         /\ d.at = "descend"
         /\ ~(Len(d.nodes) > Len(s.nodes)) =>
              \A i \in DOMAIN d.nodes \ {1} : d.nodes[i].visits > 0
<1>1. /\ s \in MctsSessions /\ s.nodes \in Trees /\ s.path \in Seq(Nat) /\ TreeOk(s)
      /\ Len(s.nodes) \in Nat /\ DOMAIN s.nodes = 1 .. Len(s.nodes)
  BY TreeOkFacts, SessionFields DEF SessionInv
<1>2. PathOk(s.nodes, s.path) /\ s.left > 0 /\ s.node = s.path[Len(s.path)] /\ s.node \in DOMAIN s.nodes
  <2>1. PathOk(s.nodes, s.path) /\ s.left > 0 /\ s.node = s.path[Len(s.path)]
    BY DEF SessionInv, WalkInv
  <2>2. Len(s.path) \in DOMAIN s.path
    BY <1>1, <2>1 DEF PathOk
  <2> QED  BY <2>1, <2>2 DEF PathOk
<1> DEFINE drawn == [s EXCEPT !.draws = @ + 1]
<1>3. /\ drawn \in MctsSessions /\ drawn.nodes = s.nodes /\ drawn.transpositions = s.transpositions
      /\ drawn.at = s.at /\ drawn.left = s.left /\ drawn.iterations = s.iterations
      /\ drawn.decision = s.decision /\ drawn.path = s.path
  <2> DEFINE more == s.draws + 1
  <2>1. more \in Nat
    BY <1>1, SessionFields
  <2> HIDE DEF more
  <2>2. /\ [s EXCEPT !.draws = more] \in MctsSessions
        /\ [s EXCEPT !.draws = more].nodes = s.nodes
        /\ [s EXCEPT !.draws = more].transpositions = s.transpositions
        /\ [s EXCEPT !.draws = more].at = s.at /\ [s EXCEPT !.draws = more].left = s.left
        /\ [s EXCEPT !.draws = more].iterations = s.iterations
        /\ [s EXCEPT !.draws = more].decision = s.decision /\ [s EXCEPT !.draws = more].path = s.path
    BY <1>1, <2>1 DEF MctsSessions
  <2> QED  BY <2>2 DEF more
<1>4. TreeInv(drawn) /\ TreeInv(s) /\ CountInv(s) /\ SumInv(s.nodes)
  BY <1>1, <1>3 DEF TreeOk, TreeInv
<1> HIDE DEF drawn
<1>5. d = DescendOrExpand(drawn, s.node, x)
  BY DEF drawn
<1>6. /\ d \in MctsSessions /\ TreeInv(d) /\ Grown(s.nodes, d.nodes, s.node, d.node) /\ SameWalk(drawn, d)
  <2>1. drawn \in MctsSessions /\ TreeInv(drawn) /\ s.node \in DOMAIN drawn.nodes
        /\ Outcome(drawn.nodes[s.node].world, x) \in Worlds
    BY <1>2, <1>3, <1>4
  <2>2. /\ d \in MctsSessions /\ TreeInv(d) /\ Grown(drawn.nodes, d.nodes, s.node, d.node) /\ SameWalk(drawn, d)
    BY <1>5, <2>1, DescentGrowsTheTree
  <2> QED  BY <1>3, <2>2
<1>7. /\ d.at = "descend" /\ d.left = s.left /\ d.iterations = s.iterations
      /\ d.decision = s.decision /\ d.path = s.path
  BY <1>3, <1>6 DEF SameWalk
<1>8. TreeOk(d)
  <2>1. CountInv(d) /\ SumInv(d.nodes)
    BY <1>1, <1>2, <1>4, <1>6, <1>7, GrowthCountsNothing
  <2> QED  BY <1>6, <2>1 DEF TreeOk
<1>9. ~s.decision.found
  BY DEF SessionInv, DecisionInv
<1>10. /\ d.node \in DOMAIN d.nodes /\ Leads(d.nodes, s.node, d.node)
       /\ \A i \in DOMAIN s.nodes :
            /\ i \in DOMAIN d.nodes
            /\ d.nodes[i].visits = s.nodes[i].visits
            /\ \A j : Leads(s.nodes, i, j) => Leads(d.nodes, i, j)
  BY <1>6 DEF Grown
<1>11. PathOk(d.nodes, d.path)
  <2>1. \A k \in 1 .. Len(s.path) - 1 : k \in DOMAIN s.path
    BY <1>1
  <2> QED  BY <1>2, <1>7, <1>10, <2>1 DEF PathOk
<1>12. \A i \in DOMAIN s.nodes \ {1} : s.nodes[i].visits > 0
  BY DEF SessionInv, VisitInv
<1>13. /\ d.nodes \in Trees /\ Len(d.nodes) \in Nat /\ DOMAIN d.nodes = 1 .. Len(d.nodes)
  BY <1>8, TreeOkFacts
<1>14. \/ Len(d.nodes) = Len(s.nodes) 
       \/ Len(d.nodes) = Len(s.nodes) + 1 /\ d.node = Len(d.nodes)
  BY <1>6 DEF Grown
<1>15. \A i \in DOMAIN d.nodes \ {1} : d.nodes[i].visits > 0 \/ (i = d.node /\ Len(d.nodes) > Len(s.nodes))
  <2> SUFFICES ASSUME NEW i \in DOMAIN d.nodes, i # 1
               PROVE  d.nodes[i].visits > 0 \/ (i = d.node /\ Len(d.nodes) > Len(s.nodes))
    OBVIOUS
  <2>1. i \in DOMAIN s.nodes \/ (i = d.node /\ Len(d.nodes) > Len(s.nodes))
    BY <1>1, <1>13, <1>14
  <2> QED  BY <1>10, <1>12, <2>1
<1> QED
  BY <1>2, <1>7, <1>8, <1>9, <1>10, <1>11, <1>15 DEF Downward

-----------------------------------------------------------------------------
LEMMA SessionFacts ==
  ASSUME MctsInv
  PROVE  /\ problem \in Games /\ TreeOk(mcts) /\ WalkInv(mcts) /\ VisitInv(mcts)
         /\ AcceptedInv(mcts) /\ DecisionInv(mcts)
         /\ mcts \in MctsSessions /\ mcts.nodes \in Trees /\ Linked(mcts.nodes)
         /\ Placed(mcts.nodes, mcts.transpositions)
         /\ Len(mcts.nodes) \in Nat /\ DOMAIN mcts.nodes = 1 .. Len(mcts.nodes) /\ 1 \in DOMAIN mcts.nodes
         /\ mcts.at # "returned" => ~mcts.decision.found
         /\ mcts.at # "failed" => MctsAccepts
<1>1. /\ problem \in Games /\ TreeOk(mcts) /\ WalkInv(mcts) /\ VisitInv(mcts)
      /\ AcceptedInv(mcts) /\ DecisionInv(mcts)
  BY DEF MctsInv, SessionInv
<1>2. /\ mcts.at # "returned" => ~mcts.decision.found
      /\ mcts.at # "failed" => MctsAccepts
  BY <1>1 DEF AcceptedInv, DecisionInv
<1> QED
  BY <1>1, <1>2, TreeOkFacts

LEMMA NewKeeps ==
  ASSUME problem \in Games, NEW s, s = MctsNew
  PROVE  SessionInv(s)
<1>1. /\ problem.initial \in Worlds /\ MctsNode(problem.initial) \in TreeNodes
      /\ MctsNode(problem.initial).world = problem.initial
      /\ MctsNode(problem.initial).children = <<>> /\ MctsNode(problem.initial).visits = 0
      /\ \A p \in 1 .. problem.players : MctsNode(problem.initial).totals[p] = 0
  BY GameIsTyped, ZeroTotals
<1> DEFINE root == MctsNode(problem.initial)
           nodes == <<root>>
           places == [w \in {problem.initial} |-> 1]
           undecided == [found |-> FALSE, action |-> Refused]
           at == IF MctsAccepts THEN "returned" ELSE "failed"
<1> HIDE DEF root
<1>2. /\ nodes \in Trees /\ Len(nodes) = 1 /\ DOMAIN nodes = {1} /\ nodes[1] = root
  BY <1>1 DEF Trees, root
<1>3. /\ places \in Places /\ DOMAIN places = {problem.initial} /\ places[problem.initial] = 1
  <2>1. places \in [{problem.initial} -> Nat] /\ {problem.initial} \in SUBSET Worlds
    BY <1>1
  <2> QED  BY <2>1 DEF Places
<1>4. undecided \in Decisions /\ ~undecided.found
  BY DEF Decisions
<1>5. at \in {"returned", "failed"} /\ (at # "failed" => MctsAccepts)
  OBVIOUS
<1>6. <<>> \in Seq(Nat) /\ MaxIdle \in Nat
  BY SearchAssumption
<1> DEFINE empty == <<>>
<1>7. s = [nodes |-> nodes, transpositions |-> places, draws |-> 0, iterations |-> 0,
           decision |-> undecided, at |-> at, left |-> 0, node |-> 1, path |-> empty,
           world |-> problem.initial, depth |-> 0, idle |-> MaxIdle]
  BY DEF MctsNew, root
<1>8. empty \in Seq(Nat)
  BY <1>6
<1> HIDE DEF nodes, places, undecided, at, empty
<1>9. /\ s \in MctsSessions /\ s.nodes = nodes /\ s.transpositions = places /\ s.iterations = 0
      /\ s.decision = undecided /\ s.at = at
  BY <1>1, <1>2, <1>3, <1>4, <1>5, <1>6, <1>7, <1>8 DEF MctsSessions
<1>10. \A i \in DOMAIN nodes : i = 1 /\ nodes[i].children = <<>> /\ nodes[i].visits = 0
                                /\ nodes[i].world = problem.initial
  BY <1>1, <1>2 DEF root
<1>11. Placed(nodes, places)
  BY <1>2, <1>3, <1>10 DEF Placed
<1>12. Linked(nodes) /\ Kids(nodes) = {}
  <2>1. DOMAIN <<>> = {}
    OBVIOUS
  <2> QED  BY <1>2, <1>10, <2>1 DEF Linked, LinkedNode, Kids, Leads
<1>13. CountInv(s)
  BY <1>2, <1>9, <1>10 DEF CountInv
<1>14. SumInv(nodes)
  <2> SUFFICES ASSUME NEW p \in 1 .. problem.players
               PROVE  nodes[1].totals[p] = Total(Told(nodes, p), Kids(nodes))
    BY DEF SumInv
  <2>1. nodes[1].totals[p] = 0
    BY <1>1, <1>2 DEF root
  <2>2. Total(Told(nodes, p), {}) = 0
    <3>1. Told(nodes, p) \in [{} -> Int]
      BY <1>12 DEF Told
    <3> QED  BY <3>1, TotalOfNone
  <2> QED  BY <1>12, <2>1, <2>2
<1>15. TreeOk(s)
  BY <1>9, <1>11, <1>12, <1>13, <1>14 DEF TreeOk, TreeInv
<1>16. VisitInv(s)
  BY <1>9, <1>10 DEF VisitInv
<1> QED
  BY <1>4, <1>5, <1>9, <1>15, <1>16 DEF SessionInv, WalkInv, AcceptedInv, DecisionInv

(* A step that leaves the tree alone. *)
LEMMA SameTreeKeeps ==
  ASSUME NEW s, TreeOk(s), NEW r \in MctsSessions, r.nodes = s.nodes,
         r.transpositions = s.transpositions, r.iterations = s.iterations
  PROVE  TreeOk(r)
BY DEF TreeOk, TreeInv, CountInv

LEMMA AdvanceKeeps ==
  ASSUME MctsInv, NEW units \in Budgets, MctsAdvance(units)
  PROVE  SessionInv(mcts')
<1> DEFINE idle == IF units = 0 THEN mcts.idle - 1 ELSE mcts.idle
<1>1. units \in Nat /\ mcts \in MctsSessions /\ mcts.idle \in Nat /\ (units = 0 => mcts.idle > 0)
      /\ mcts.at = "returned" /\ ~mcts.decision.found
  BY SearchAssumption, SessionFacts, SessionFields DEF MctsAdvance
<1>2. idle \in Nat
  BY <1>1
<1>3. mcts' = [mcts EXCEPT !.at = "loop", !.left = units, !.idle = idle]
  BY DEF MctsAdvance
<1> HIDE DEF idle
<1>4. PICK after : after = mcts'
  OBVIOUS
<1>5. /\ after \in MctsSessions /\ after.nodes = mcts.nodes /\ after.transpositions = mcts.transpositions
      /\ after.iterations = mcts.iterations /\ after.decision = mcts.decision /\ after.at = "loop"
  BY <1>1, <1>2, <1>3, <1>4 DEF MctsSessions
<1>6. TreeOk(after)
  BY <1>5, SessionFacts, SameTreeKeeps
<1>7. VisitInv(after) /\ AcceptedInv(after)
  BY <1>1, <1>5, SessionFacts DEF VisitInv, AcceptedInv
<1> QED
  BY <1>1, <1>4, <1>5, <1>6, <1>7 DEF SessionInv, WalkInv, DecisionInv

LEMMA InterruptKeeps ==
  ASSUME MctsInv, MctsInterrupt
  PROVE  SessionInv(mcts')
<1> DEFINE idle == mcts.idle - 1
<1>1. mcts \in MctsSessions /\ mcts.idle \in Nat /\ mcts.idle > 0 /\ mcts.at = "loop"
  BY SessionFacts, SessionFields DEF MctsInterrupt, MctsMoreWork
<1>2. idle \in Nat
  BY <1>1
<1>3. mcts' = [mcts EXCEPT !.at = "returned", !.idle = idle]
  BY DEF MctsInterrupt
<1> HIDE DEF idle
<1>4. PICK after : after = mcts'
  OBVIOUS
<1>5. /\ after \in MctsSessions /\ after.nodes = mcts.nodes /\ after.transpositions = mcts.transpositions
      /\ after.iterations = mcts.iterations /\ after.decision = mcts.decision /\ after.at = "returned"
  BY <1>1, <1>2, <1>3, <1>4 DEF MctsSessions
<1>6. TreeOk(after) /\ ~mcts.decision.found
  BY <1>1, <1>5, SessionFacts, SameTreeKeeps
<1>7. VisitInv(after) /\ AcceptedInv(after)
  BY <1>1, <1>5, SessionFacts DEF VisitInv, AcceptedInv
<1> QED
  BY <1>1, <1>4, <1>5, <1>6, <1>7 DEF SessionInv, WalkInv, DecisionInv

LEMMA StartKeeps ==
  ASSUME MctsInv, MctsStart
  PROVE  SessionInv(mcts')
<1>1. mcts \in MctsSessions /\ mcts.at = "loop" /\ mcts.left > 0 /\ 1 \in DOMAIN mcts.nodes
  BY SessionFacts DEF MctsStart, MctsMoreWork
<1> DEFINE path == <<1>>
<1>2. path \in Seq(Nat) /\ Len(path) = 1 /\ path[1] = 1 /\ DOMAIN path = {1}
  OBVIOUS
<1>3. mcts' = [mcts EXCEPT !.at = "descend", !.node = 1, !.path = path, !.depth = 0]
  BY DEF MctsStart
<1> HIDE DEF path
<1>4. PICK after : after = mcts'
  OBVIOUS
<1>5. /\ after \in MctsSessions /\ after.nodes = mcts.nodes /\ after.transpositions = mcts.transpositions
      /\ after.iterations = mcts.iterations /\ after.decision = mcts.decision /\ after.at = "descend"
      /\ after.path = path /\ after.node = 1 /\ after.depth = 0 /\ after.left = mcts.left
  BY <1>1, <1>2, <1>3, <1>4 DEF MctsSessions
<1>6. TreeOk(after) /\ ~mcts.decision.found
  BY <1>1, <1>5, SessionFacts, SameTreeKeeps
<1>7. VisitInv(after) /\ AcceptedInv(after)
  BY <1>1, <1>5, SessionFacts DEF VisitInv, AcceptedInv
<1>8. PathOk(mcts.nodes, path)
  BY <1>1, <1>2 DEF PathOk
<1>9. WalkInv(after)
  BY <1>1, <1>2, <1>5, <1>8 DEF WalkInv
<1> QED
  BY <1>4, <1>5, <1>6, <1>7, <1>9 DEF SessionInv, DecisionInv

LEMMA EvaluateKeeps ==
  ASSUME MctsInv, MctsEvaluate
  PROVE  SessionInv(mcts')
<1>1. /\ mcts.at = "descend" /\ MctsStuck(MctsHere.world, mcts.depth)
      /\ mcts' = BackUp(mcts, mcts.path, problem.values[MctsHere.world])
  BY DEF MctsEvaluate
<1>2. /\ problem \in Games /\ MctsAccepts /\ TreeOk(mcts) /\ ~mcts.decision.found
      /\ mcts.path \in Seq(Nat) /\ mcts.depth \in Nat /\ mcts.nodes \in Trees
      /\ mcts.nodes[1].world = problem.initial
      /\ \A i \in DOMAIN mcts.nodes \ {1} : mcts.nodes[i].visits > 0
  BY <1>1, SessionFacts, SessionFields DEF VisitInv, Placed
<1>3. /\ PathOk(mcts.nodes, mcts.path) /\ mcts.left > 0
      /\ mcts.node = mcts.path[Len(mcts.path)]
      /\ Len(mcts.path) = 1 => mcts.depth = 0
  BY <1>1, SessionFacts DEF WalkInv
<1>4. Len(mcts.path) \in Nat /\ Len(mcts.path) > 0 /\ Len(mcts.path) \in DOMAIN mcts.path
  BY <1>2, <1>3 DEF PathOk
<1>5. mcts.node \in DOMAIN mcts.nodes
  BY <1>3, <1>4 DEF PathOk
<1>6. Len(mcts.path) > 1
  <2> DEFINE n == Len(mcts.path)
  <2>0. n \in Nat /\ n > 0
    BY <1>4
  <2> SUFFICES ASSUME n = 1 PROVE FALSE
    <3> HIDE DEF n
    <3>1. n = 1 \/ n > 1
      BY <2>0
    <3> QED  BY <3>1 DEF n
  <2>1. mcts.node = 1 /\ mcts.depth = 0
    BY <1>3 DEF PathOk
  <2>2. MctsStuck(problem.initial, 0)
    BY <1>1, <1>2, <2>1 DEF MctsHere
  <2>3. problem.depth \in Nat /\ problem.depth > 0
    BY <1>2, GameIsTyped DEF MctsAccepts, ValidConfig
  <2> QED  BY <1>2, <2>2, <2>3 DEF MctsStuck, MctsAccepts
<1>7. problem.values[MctsHere.world] \in Seq(Int)
  BY <1>2, <1>5, NodeIsTyped, WorthIsTyped DEF MctsHere
<1> QED
  BY <1>1, <1>2, <1>3, <1>6, <1>7, BackUpKeeps

LEMMA SimulateEndKeeps ==
  ASSUME MctsInv, MctsSimulateEnd
  PROVE  SessionInv(mcts')
<1>1. /\ mcts.at = "simulate"
      /\ mcts' = BackUp(mcts, mcts.path, problem.values[mcts.world])
  BY DEF MctsSimulateEnd
<1>2. /\ problem \in Games /\ MctsAccepts /\ TreeOk(mcts) /\ ~mcts.decision.found
      /\ mcts.path \in Seq(Nat) /\ mcts.world \in Worlds
      /\ \A i \in DOMAIN mcts.nodes \ {1} : mcts.nodes[i].visits > 0 \/ i = mcts.path[Len(mcts.path)]
  BY <1>1, SessionFacts, SessionFields DEF VisitInv
<1>3. PathOk(mcts.nodes, mcts.path) /\ mcts.left > 0 /\ Len(mcts.path) > 1
  BY <1>1, SessionFacts DEF WalkInv
<1>4. problem.values[mcts.world] \in Seq(Int)
  BY <1>2, WorthIsTyped
<1> QED
  BY <1>1, <1>2, <1>3, <1>4, BackUpKeeps

(* Where there are actions, a random one is an exchange the kernel accepts. *)
LEMMA ActionIsAccepted ==
  ASSUME problem \in Games, NEW w \in Worlds, NEW k \in DOMAIN MctsActions(w)
  PROVE  /\ MctsActions(w) \in Seq(Exchanges)
         /\ MctsActions(w)[k] \in Exchanges /\ Outcome(w, MctsActions(w)[k]) \in Worlds
<1>1. problem.candidates[w] \in Seq(Exchanges)
  BY GameIsTyped
<1>2. /\ MctsActions(w) \in Seq(Exchanges)
      /\ Outcome(w, MctsActions(w)[k]) \in Worlds
  BY <1>1, ApplicableAreAccepted DEF MctsActions
<1> QED
  BY <1>2

LEMMA SimulateKeeps ==
  ASSUME MctsInv, MctsSimulate
  PROVE  SessionInv(mcts')
<1> DEFINE w == mcts.world
           x == IF NatureMoves(w) THEN NatureSample(w, mcts.draws)
                ELSE RandomAction(MctsActions(w), mcts.draws)
           next == Outcome(w, x)
           depth == mcts.depth + 1
           draws == mcts.draws + 1
<1>1. /\ mcts.at = "simulate" /\ ~MctsStuck(w, mcts.depth)
      /\ mcts' = IF (NatureMoves(w) /\ ~NatureHasSupport(w)) \/ next = Refused
                 THEN MctsFail(mcts)
                 ELSE [mcts EXCEPT !.world = next, !.depth = depth, !.draws = draws]
  BY DEF MctsSimulate
<1>2. /\ problem \in Games /\ MctsAccepts /\ TreeOk(mcts) /\ ~mcts.decision.found
      /\ mcts \in MctsSessions /\ w \in Worlds /\ mcts.depth \in Nat /\ mcts.draws \in Nat
  BY <1>1, SessionFacts, SessionFields
<1>3. CASE (NatureMoves(w) /\ ~NatureHasSupport(w)) \/ next = Refused
  BY <1>1, <1>2, <1>3, FailureKeeps
<1>4. CASE ~((NatureMoves(w) /\ ~NatureHasSupport(w)) \/ next = Refused)
  <2>1. x \in Exchanges
    <3>1. CASE NatureMoves(w)
      BY <1>2, <1>4, <3>1, SampleIsSupported
    <3>2. CASE ~NatureMoves(w)
      <4>1. MctsActions(w) # <<>> /\ problem.candidates[w] \in Seq(Exchanges)
        BY <1>1, <1>2, <3>2, GameIsTyped DEF MctsStuck
      <4>2. MctsActions(w) \in Seq(Exchanges)
        BY <1>2, <4>1, ApplicableAreAccepted DEF MctsActions
      <4>3. PICK k \in DOMAIN MctsActions(w) : RandomAction(MctsActions(w), mcts.draws) = MctsActions(w)[k]
        BY <1>2, <4>1, <4>2, RandomActionIsOne
      <4>4. MctsActions(w)[k] \in Exchanges
        BY <1>2, ActionIsAccepted
      <4> QED  BY <3>2, <4>3, <4>4
    <3> QED  BY <3>1, <3>2
  <2> HIDE DEF x
  <2>2. next \in Worlds
    BY <1>2, <1>4, <2>1, OutcomeIsTyped
  <2>3. mcts' = [mcts EXCEPT !.world = next, !.depth = depth, !.draws = draws]
        /\ depth \in Nat /\ draws \in Nat
    BY <1>1, <1>2, <1>4
  <2> HIDE DEF next, depth, draws
  <2>4. PICK after : after = mcts'
    OBVIOUS
  <2>5. /\ after \in MctsSessions /\ after.nodes = mcts.nodes /\ after.transpositions = mcts.transpositions
        /\ after.iterations = mcts.iterations /\ after.decision = mcts.decision /\ after.at = mcts.at
        /\ after.path = mcts.path /\ after.left = mcts.left
    BY <1>2, <2>2, <2>3, <2>4 DEF MctsSessions
  <2>6. TreeOk(after)
    BY <1>2, <2>5, SameTreeKeeps
  <2>7. VisitInv(after) /\ WalkInv(after) /\ AcceptedInv(after)
    BY <1>1, <2>5, SessionFacts DEF VisitInv, WalkInv, AcceptedInv
  <2> QED
    BY <1>2, <2>4, <2>5, <2>6, <2>7 DEF SessionInv, DecisionInv
<1> QED
  BY <1>3, <1>4

(* Where a descent is going on. *)
LEMMA DescentFacts ==
  ASSUME MctsInv, MctsGoing
  PROVE  /\ problem \in Games /\ MctsAccepts /\ SessionInv(mcts) /\ TreeOk(mcts) /\ ~mcts.decision.found
         /\ mcts \in MctsSessions /\ mcts.nodes \in Trees /\ mcts.draws \in Nat
         /\ mcts.at = "descend" /\ mcts.left > 0 /\ PathOk(mcts.nodes, mcts.path)
         /\ mcts.node \in DOMAIN mcts.nodes /\ mcts.node = mcts.path[Len(mcts.path)]
         /\ MctsHere = mcts.nodes[mcts.node] /\ MctsHere.world \in Worlds
         /\ \A i \in DOMAIN mcts.nodes \ {1} : mcts.nodes[i].visits > 0
<1>1. mcts.at = "descend"
  BY DEF MctsGoing
<1>2. /\ problem \in Games /\ MctsAccepts /\ SessionInv(mcts) /\ TreeOk(mcts) /\ ~mcts.decision.found
      /\ mcts \in MctsSessions /\ mcts.nodes \in Trees /\ mcts.draws \in Nat /\ mcts.path \in Seq(Nat)
      /\ \A i \in DOMAIN mcts.nodes \ {1} : mcts.nodes[i].visits > 0
  BY <1>1, SessionFacts, SessionFields DEF VisitInv, MctsInv
<1>3. PathOk(mcts.nodes, mcts.path) /\ mcts.left > 0 /\ mcts.node = mcts.path[Len(mcts.path)]
  BY <1>1, SessionFacts DEF WalkInv
<1>4. Len(mcts.path) \in DOMAIN mcts.path
  BY <1>2, <1>3 DEF PathOk
<1>5. mcts.node \in DOMAIN mcts.nodes
  BY <1>3, <1>4 DEF PathOk
<1> QED
  BY <1>1, <1>2, <1>3, <1>5, NodeIsTyped DEF MctsHere

LEMMA ChanceKeeps ==
  ASSUME MctsInv, MctsChance
  PROVE  SessionInv(mcts')
<1> DEFINE w == MctsHere.world
           x == NatureSample(w, mcts.draws)
<1>1. PICK down : down = DescendOrExpand([mcts EXCEPT !.draws = @ + 1], mcts.node, x)
  OBVIOUS
<1>2. /\ MctsGoing
      /\ mcts' = IF ~NatureHasSupport(w) \/ Outcome(w, x) = Refused
                 THEN MctsFail(mcts)
                 ELSE IF Len(down.nodes) > Len(mcts.nodes) THEN MctsRollout(down)
                 ELSE MctsFollow(down)
  BY <1>1 DEF MctsChance
<1>3. /\ problem \in Games /\ MctsAccepts /\ SessionInv(mcts) /\ TreeOk(mcts) /\ ~mcts.decision.found
      /\ mcts.at = "descend" /\ w \in Worlds /\ w = mcts.nodes[mcts.node].world /\ mcts.draws \in Nat
  BY <1>2, DescentFacts
<1>4. CASE ~NatureHasSupport(w) \/ Outcome(w, x) = Refused
  BY <1>2, <1>3, <1>4, FailureKeeps
<1>5. CASE ~(~NatureHasSupport(w) \/ Outcome(w, x) = Refused)
  <2>1. x \in Exchanges
    BY <1>3, <1>5, SampleIsSupported
  <2>2. Outcome(mcts.nodes[mcts.node].world, x) \in Worlds
    BY <1>3, <1>5, <2>1, OutcomeIsTyped
  <2> HIDE DEF x
  <2>3. /\ Downward(down) /\ down.at = "descend"
        /\ ~(Len(down.nodes) > Len(mcts.nodes)) =>
              \A i \in DOMAIN down.nodes \ {1} : down.nodes[i].visits > 0
    BY <1>1, <1>3, <2>1, <2>2, DescentIsDownward
  <2>4. CASE Len(down.nodes) > Len(mcts.nodes)
    <3>1. mcts' = MctsRollout(down)
      BY <1>2, <1>5, <2>4
    <3> QED  BY <1>3, <2>3, <3>1, RolloutKeeps
  <2>5. CASE ~(Len(down.nodes) > Len(mcts.nodes))
    <3>1. mcts' = MctsFollow(down)
      BY <1>2, <1>5, <2>5
    <3> QED  BY <1>3, <2>3, <2>5, <3>1, FollowKeeps
  <2> QED  BY <2>4, <2>5
<1> QED
  BY <1>4, <1>5

(* What has no edge yet, and that every action has one where nothing is left. *)
LEMMA UnexpandedAreActions ==
  ASSUME MctsInv, MctsGoing
  PROVE  /\ Unexpanded \in Seq(Exchanges)
         /\ \A k \in DOMAIN Unexpanded : \E i \in DOMAIN MctsActions(MctsHere.world) :
              Unexpanded[k] = MctsActions(MctsHere.world)[i]
         /\ Unexpanded = <<>> => \A i \in DOMAIN MctsActions(MctsHere.world) :
              EdgesFor(mcts, mcts.node, MctsActions(MctsHere.world)[i]) # {}
<1> DEFINE actions == MctsActions(MctsHere.world)
           places == {i \in DOMAIN actions : EdgesFor(mcts, mcts.node, actions[i]) = {}}
<1>1. problem \in Games /\ MctsHere.world \in Worlds
  BY DescentFacts
<1>2. actions \in Seq(Exchanges)
  <2>1. problem.candidates[MctsHere.world] \in Seq(Exchanges)
    BY <1>1, GameIsTyped
  <2> QED  BY <1>1, <2>1, ApplicableAreAccepted DEF MctsActions
<1>3. Unexpanded = Keeping(actions, places)
  BY DEF Unexpanded
<1>4. \A i \in DOMAIN actions : i \in places <=> EdgesFor(mcts, mcts.node, actions[i]) = {}
  OBVIOUS
<1> HIDE DEF actions, places
<1>5. /\ Unexpanded \in Seq(Exchanges)
      /\ \A k \in DOMAIN Unexpanded : \E i \in DOMAIN actions : Unexpanded[k] = actions[i]
      /\ \A i \in DOMAIN actions : i \in places => \E k \in DOMAIN Unexpanded : Unexpanded[k] = actions[i]
  BY <1>2, <1>3, KeepingKeeps
<1>6. Unexpanded = <<>> => DOMAIN Unexpanded = {}
  OBVIOUS
<1> QED
  BY <1>4, <1>5, <1>6 DEF actions

LEMMA ExpandKeeps ==
  ASSUME MctsInv, MctsExpand
  PROVE  SessionInv(mcts')
<1> DEFINE w == MctsHere.world
           x == RandomAction(Unexpanded, mcts.draws)
<1>1. PICK down : down = DescendOrExpand([mcts EXCEPT !.draws = @ + 1], mcts.node, x)
  OBVIOUS
<1>2. MctsGoing /\ Unexpanded # <<>> /\ mcts' = MctsRollout(down)
  BY <1>1 DEF MctsExpand
<1>3. /\ problem \in Games /\ MctsAccepts /\ SessionInv(mcts) /\ mcts.draws \in Nat
      /\ mcts.at = "descend" /\ w \in Worlds /\ w = mcts.nodes[mcts.node].world
  BY <1>2, DescentFacts
<1>4. PICK k \in DOMAIN Unexpanded : x = Unexpanded[k]
  BY <1>2, <1>3, UnexpandedAreActions, RandomActionIsOne
<1>5. PICK i \in DOMAIN MctsActions(w) : x = MctsActions(w)[i]
  BY <1>2, <1>4, UnexpandedAreActions
<1>6. x \in Exchanges /\ Outcome(w, x) \in Worlds
  BY <1>3, <1>5, ActionIsAccepted
<1> HIDE DEF x
<1>7. Downward(down)
  BY <1>1, <1>3, <1>6, DescentIsDownward
<1> QED
  BY <1>2, <1>3, <1>7, RolloutKeeps

LEMMA SelectKeeps ==
  ASSUME MctsInv, MctsSelect
  PROVE  SessionInv(mcts')
<1> DEFINE w == MctsHere.world
           edges == MctsHere.children
           player == problem.actor[w]
           score == [e \in DOMAIN edges |-> UctScore(mcts.nodes[edges[e].child], player, MctsHere.visits)]
           best == LastBest(score)
           child == edges[best].child
<1>1. /\ MctsGoing /\ ~NatureMoves(w) /\ Unexpanded = <<>>
      /\ mcts' = IF ~ValidActor(player) THEN MctsFail(mcts)
                 ELSE MctsFollow([mcts EXCEPT !.node = child])
  BY DEF MctsSelect
<1>2. /\ problem \in Games /\ MctsAccepts /\ SessionInv(mcts) /\ TreeOk(mcts) /\ ~mcts.decision.found
      /\ mcts \in MctsSessions /\ mcts.nodes \in Trees
      /\ mcts.at = "descend" /\ mcts.left > 0 /\ PathOk(mcts.nodes, mcts.path)
      /\ mcts.node \in DOMAIN mcts.nodes /\ mcts.node = mcts.path[Len(mcts.path)]
      /\ MctsHere = mcts.nodes[mcts.node] /\ w \in Worlds
      /\ \A i \in DOMAIN mcts.nodes \ {1} : mcts.nodes[i].visits > 0
  BY <1>1, DescentFacts
<1>3. edges \in Seq(TreeEdges) /\ Len(edges) \in Nat /\ DOMAIN edges = 1 .. Len(edges)
  BY <1>2, NodeIsTyped
<1>4. Len(edges) > 0
  <2>1. MctsActions(w) # <<>>
    BY <1>1 DEF MctsGoing, MctsStuck
  <2>2. MctsActions(w) \in Seq(Exchanges)
    <3>1. problem.candidates[w] \in Seq(Exchanges)
      BY <1>2, GameIsTyped
    <3> QED  BY <1>2, <3>1, ApplicableAreAccepted DEF MctsActions
  <2>3. 1 \in DOMAIN MctsActions(w)
    BY <2>1, <2>2, EmptySeq
  <2>4. EdgesFor(mcts, mcts.node, MctsActions(w)[1]) # {}
    BY <1>1, <2>3, UnexpandedAreActions
  <2>5. \E e \in DOMAIN edges : TRUE
    BY <1>2, <2>4 DEF EdgesFor
  <2> QED  BY <1>3, <2>5
<1>5. DOMAIN score = 1 .. Len(edges) /\ score = [e \in 1 .. Len(edges) |-> score[e]]
  BY <1>3
<1>6. Len(score) = Len(edges)
  BY <1>3, <1>5
<1> HIDE DEF score
<1>7. best \in DOMAIN edges
  BY <1>3, <1>4, <1>6, LastBestIsOne
<1> HIDE DEF best
<1>8. child \in DOMAIN mcts.nodes /\ Leads(mcts.nodes, mcts.node, child) /\ child \in Nat
  <2>1. Leads(mcts.nodes, mcts.node, child)
    BY <1>2, <1>7 DEF Leads
  <2>2. Linked(mcts.nodes)
    BY SessionFacts
  <2>3. child \in DOMAIN mcts.nodes
    BY <1>2, <2>1, <2>2, EdgesAreExchanges
  <2> QED  BY SMTT(20), <1>2, <2>1, <2>3, NodeIsTyped
<1>9. CASE ~ValidActor(player)
  BY <1>1, <1>2, <1>9, FailureKeeps
<1>10. CASE ValidActor(player)
  <2>1. PICK down : down = [mcts EXCEPT !.node = child]
    OBVIOUS
  <2>2. mcts' = MctsFollow(down)
    BY <1>1, <1>10, <2>1
  <2> HIDE DEF child
  <2>3. /\ down \in MctsSessions /\ down.nodes = mcts.nodes /\ down.transpositions = mcts.transpositions
        /\ down.iterations = mcts.iterations /\ down.decision = mcts.decision /\ down.at = mcts.at
        /\ down.path = mcts.path /\ down.left = mcts.left /\ down.node = child
    BY <1>2, <1>8, <2>1 DEF MctsSessions
  <2>4. TreeOk(down)
    BY <1>2, <2>3, SameTreeKeeps
  <2>5. Downward(down)
    BY <1>2, <1>8, <2>3, <2>4 DEF Downward
  <2> QED  BY <1>2, <2>2, <2>3, <2>5, FollowKeeps
<1> QED
  BY <1>9, <1>10

LEMMA FinishKeeps ==
  ASSUME MctsInv, mcts.at = "loop", mcts.iterations = problem.iterations, NEW r, r = MctsFinish
  PROVE  SessionInv(r)
<1> DEFINE edges == mcts.nodes[1].children
           n == Len(edges)
           x == edges[BestChild].action
<1>1. r = IF edges = <<>> \/ Outcome(problem.initial, x) = Refused
          THEN MctsFail(mcts)
          ELSE [mcts EXCEPT !.at = "returned", !.decision = [found |-> TRUE, action |-> x]]
  BY DEF MctsFinish
<1>2. /\ problem \in Games /\ MctsAccepts /\ TreeOk(mcts) /\ ~mcts.decision.found
      /\ mcts \in MctsSessions /\ mcts.nodes \in Trees /\ Linked(mcts.nodes) /\ 1 \in DOMAIN mcts.nodes
      /\ \A i \in DOMAIN mcts.nodes \ {1} : mcts.nodes[i].visits > 0
  BY SessionFacts DEF VisitInv
<1>3. /\ edges \in Seq(TreeEdges) /\ n \in Nat /\ DOMAIN edges = 1 .. n
      /\ mcts.nodes[1].visits \in Nat
  BY <1>2, NodeIsTyped
<1>4. CASE edges = <<>> \/ Outcome(problem.initial, x) = Refused
  BY <1>1, <1>2, <1>4, FailureKeeps
<1>5. CASE ~(edges = <<>> \/ Outcome(problem.initial, x) = Refused)
  <2> DEFINE D == 1 .. n
             visits == [e \in DOMAIN edges |-> RootChild(e).visits]
             total == [e \in DOMAIN edges |-> RootChild(e).totals[RootPlayer + 1]]
             best == BestChild
  <2>1. D # {}
    <3>1. n > 0
      BY <1>3, <1>5, EmptySeq
    <3> HIDE DEF n
    <3>2. 1 \in 1 .. n
      BY <1>3, <3>1
    <3> QED  BY <3>2
  <2>2. ASSUME NEW e \in DOMAIN edges
        PROVE  /\ edges[e].child \in DOMAIN mcts.nodes
               /\ RootChild(e) = mcts.nodes[edges[e].child]
               /\ RootChild(e).visits \in Nat /\ RootChild(e).visits > 0
               /\ RootChild(e).totals[RootPlayer + 1] \in Int
    <3>1. edges[e].child \in DOMAIN mcts.nodes
      BY <1>2 DEF Linked, LinkedNode
    <3>2. RootChild(e) = mcts.nodes[edges[e].child]
      BY DEF RootChild
    <3>3. RootChild(e).visits \in Nat /\ RootChild(e).totals \in Totals
      BY <1>2, <3>1, <3>2, NodeIsTyped
    <3>4. RootPlayer + 1 \in 1 .. problem.players
      <4>1. problem.players \in Nat /\ problem.actor[problem.initial] \in Nat
        BY <1>2, GameIsTyped
      <4>2. problem.actor[problem.initial] < problem.players
        BY <1>2 DEF MctsAccepts, ValidActor
      <4> QED  BY <4>1, <4>2 DEF RootPlayer
    <3>5. RootChild(e).totals[RootPlayer + 1] \in Int
      BY <3>3, <3>4 DEF Totals
    <3>6. RootChild(e).visits > 0
      <4>1. CASE edges[e].child # 1
        BY <1>2, <3>1, <3>2, <4>1
      <4>2. CASE edges[e].child = 1
        <5>1. mcts.iterations <= mcts.nodes[1].visits
          BY <1>2 DEF TreeOk, CountInv
        <5>2. problem.iterations > 0 /\ problem.iterations \in Nat
          BY <1>2, GameIsTyped DEF MctsAccepts, ValidConfig
        <5>3. mcts.nodes[1].visits > 0
          BY <1>3, <5>1, <5>2
        <5> QED  BY <3>2, <4>2, <5>3
      <4> QED  BY <4>1, <4>2
    <3> QED  BY <3>1, <3>2, <3>3, <3>5, <3>6
  <2>3. visits \in [D -> Nat] /\ total \in [D -> Int]
        /\ \A e \in D : visits[e] = RootChild(e).visits
    BY <1>3, <2>2
  <2>4. best = MostVisited(visits, total)
    BY DEF BestChild
  <2> HIDE DEF visits, total, best
  <2>5. /\ best \in D
        /\ \A f \in D : visits[f] <= visits[best]
    <3> DEFINE S == D
    <3>1. S \in SUBSET (1 .. n) /\ S # {} /\ n \in Nat /\ visits \in [S -> Nat] /\ total \in [S -> Int]
      BY <1>3, <2>1, <2>3
    <3> HIDE DEF S, n
    <3>2. MostVisited(visits, total) \in S /\ \A f \in S : visits[f] <= visits[MostVisited(visits, total)]
      BY <3>1, MostVisitedIsOne
    <3> QED  BY <2>4, <3>2 DEF S
  <2>6. /\ best \in DOMAIN edges /\ x = edges[best].action /\ x \in Exchanges
        /\ RootChild(best).visits > 0
        /\ \A f \in DOMAIN edges : RootChild(f).visits <= RootChild(best).visits
    <3>1. edges[best] \in TreeEdges
      BY <1>3, <2>5
    <3> QED  BY <1>3, <2>2, <2>3, <2>5, <3>1 DEF best, TreeEdges
  <2> HIDE DEF x, n
  <2> DEFINE made == [found |-> TRUE, action |-> x]
  <2>7. made \in Decisions /\ made.found /\ made.action = x
    BY <2>6 DEF Decisions
  <2>8. r = [mcts EXCEPT !.at = "returned", !.decision = made]
    BY <1>1, <1>5
  <2> HIDE DEF made
  <2>9. /\ r \in MctsSessions /\ r.nodes = mcts.nodes /\ r.transpositions = mcts.transpositions
        /\ r.iterations = mcts.iterations /\ r.decision = made /\ r.at = "returned"
    BY <1>2, <2>7, <2>8 DEF MctsSessions
  <2>10. TreeOk(r)
    BY <1>2, <2>9, SameTreeKeeps
  <2>11. DecisionInv(r)
    <3>1. /\ edges[best].action = made.action
          /\ mcts.nodes[edges[best].child].visits > 0
          /\ \A f \in DOMAIN edges : mcts.nodes[edges[f].child].visits <= mcts.nodes[edges[best].child].visits
      BY <2>2, <2>6, <2>7
    <3> QED  BY <2>6, <2>9, <3>1 DEF DecisionInv
  <2> QED
    BY <1>2, <2>9, <2>10, <2>11 DEF SessionInv, WalkInv, VisitInv, AcceptedInv
<1> QED
  BY <1>4, <1>5

LEMMA ReturnKeeps ==
  ASSUME MctsInv, MctsReturn
  PROVE  SessionInv(mcts')
<1>1. mcts.at = "loop"
  BY DEF MctsReturn
<1>2. CASE mcts.iterations = problem.iterations
  <2>1. mcts' = MctsFinish
    BY <1>2 DEF MctsReturn
  <2> QED  BY <1>1, <1>2, <2>1, FinishKeeps
<1>3. CASE mcts.iterations # problem.iterations
  <2>1. PICK after : after = mcts'
    OBVIOUS
  <2>2. after = [mcts EXCEPT !.at = "returned"] /\ mcts \in MctsSessions
    BY <1>3, <2>1, SessionFacts DEF MctsReturn
  <2>3. /\ after \in MctsSessions /\ after.nodes = mcts.nodes /\ after.transpositions = mcts.transpositions
        /\ after.iterations = mcts.iterations /\ after.decision = mcts.decision /\ after.at = "returned"
    BY <2>2 DEF MctsSessions
  <2>4. TreeOk(after) /\ ~mcts.decision.found
    BY <1>1, <2>3, SessionFacts, SameTreeKeeps
  <2>5. VisitInv(after) /\ AcceptedInv(after)
    BY <1>1, <2>3, SessionFacts DEF VisitInv, AcceptedInv
  <2> QED
    BY <2>1, <2>3, <2>4, <2>5 DEF SessionInv, WalkInv, DecisionInv
<1> QED
  BY <1>2, <1>3

-----------------------------------------------------------------------------
(* The invariant speaks of one problem, which no step changes. *)
LEMMA SessionKept ==
  ASSUME problem' = problem
  PROVE  SessionInv(mcts)' <=> SessionInv(mcts')
<1>1. /\ \A w, x : Outcome(w, x)' = Outcome(w, x)
      /\ Totals' = Totals
      /\ ValidConfig' <=> ValidConfig
      /\ \A actor : ValidActor(actor)' <=> ValidActor(actor)
      /\ \A w : NatureMoves(w)' <=> NatureMoves(w)
  BY DEF Outcome, Totals, ValidConfig, ValidActor, NatureMoves
<1>2. \A w, proposals : ApplicableActions(w, proposals)' = ApplicableActions(w, proposals)
  BY <1>1 DEF ApplicableActions
<1>3. MctsAccepts' <=> MctsAccepts
  BY <1>1, <1>2 DEF MctsAccepts, MctsActions
<1>4. Progressing' <=> Progressing
  BY <1>1 DEF Progressing
<1>5. MctsSessions' = MctsSessions
  BY <1>1 DEF MctsSessions, Trees, TreeNodes
<1>6. TreeInv(mcts)' <=> TreeInv(mcts')
  <2>1. Placed(mcts.nodes, mcts.transpositions)' <=> Placed(mcts'.nodes, mcts'.transpositions)
    BY DEF Placed
  <2>2. \A i : LinkedNode(mcts.nodes, i)' <=> LinkedNode(mcts'.nodes, i)
    BY <1>1 DEF LinkedNode
  <2>3. Linked(mcts.nodes)' <=> Linked(mcts'.nodes)
    BY <2>2 DEF Linked, Leads
  <2> QED  BY <2>1, <2>3 DEF TreeInv
<1>7. CountInv(mcts)' <=> CountInv(mcts')
  BY <1>4 DEF CountInv
<1>8. SumInv(mcts.nodes)' <=> SumInv(mcts'.nodes)
  <2>1. OneWayIn(mcts.nodes)' <=> OneWayIn(mcts'.nodes)
    BY DEF OneWayIn, Kids, Leads
  <2>2. Kids(mcts.nodes)' = Kids(mcts'.nodes) /\ \A p : Told(mcts.nodes, p)' = Told(mcts'.nodes, p)
    BY DEF Told, Kids, Leads
  <2> QED  BY <1>4, <2>1, <2>2 DEF SumInv
<1>9. TreeOk(mcts)' <=> TreeOk(mcts')
  BY <1>5, <1>6, <1>7, <1>8 DEF TreeOk
<1>10. /\ WalkInv(mcts)' <=> WalkInv(mcts')
       /\ VisitInv(mcts)' <=> VisitInv(mcts')
       /\ AcceptedInv(mcts)' <=> AcceptedInv(mcts')
       /\ DecisionInv(mcts)' <=> DecisionInv(mcts')
  BY <1>3 DEF WalkInv, PathOk, Leads, VisitInv, AcceptedInv, DecisionInv
<1> QED
  BY <1>9, <1>10 DEF SessionInv

(* Every step of the session keeps what its statistics rest on: the tree is *)
(* one of the economy, the way of the iteration is a way from the root, and *)
(* all nodes but the one a rollout starts from were visited.                *)
THEOREM MctsInvIsInductive ==
  /\ MctsInit => MctsInv
  /\ MctsInv /\ [MctsNext]_mctsVars => MctsInv'
<1>1. ASSUME MctsInit PROVE MctsInv
  BY <1>1, NewKeeps DEF MctsInit, MctsInv
<1>2. ASSUME MctsInv, MctsNext PROVE MctsInv'
  <2>1. SessionInv(mcts')
    <3>1. CASE \E units \in Budgets : MctsAdvance(units)
      BY <1>2, <3>1, AdvanceKeeps
    <3>2. CASE MctsInterrupt
      BY <1>2, <3>2, InterruptKeeps
    <3>3. CASE MctsStart
      BY <1>2, <3>3, StartKeeps
    <3>4. CASE MctsEvaluate
      BY <1>2, <3>4, EvaluateKeeps
    <3>5. CASE MctsChance
      BY <1>2, <3>5, ChanceKeeps
    <3>6. CASE MctsExpand
      BY <1>2, <3>6, ExpandKeeps
    <3>7. CASE MctsSelect
      BY <1>2, <3>7, SelectKeeps
    <3>8. CASE MctsSimulate
      BY <1>2, <3>8, SimulateKeeps
    <3>9. CASE MctsSimulateEnd
      BY <1>2, <3>9, SimulateEndKeeps
    <3>10. CASE MctsReturn
      BY <1>2, <3>10, ReturnKeeps
    <3> QED  BY <1>2, <3>1, <3>2, <3>3, <3>4, <3>5, <3>6, <3>7, <3>8, <3>9, <3>10 DEF MctsNext
  <2>2. problem' = problem
    BY <1>2 DEF MctsNext, MctsAdvance, MctsInterrupt, MctsStart, MctsEvaluate, MctsChance,
       MctsExpand,
                MctsSelect, MctsSimulate, MctsSimulateEnd, MctsReturn
  <2> QED  BY <1>2, <2>1, <2>2, SessionKept DEF MctsInv
<1>3. ASSUME MctsInv, UNCHANGED mctsVars PROVE MctsInv'
  <2>1. problem' = problem /\ mcts' = mcts
    BY <1>3 DEF mctsVars
  <2>2. SessionInv(mcts')
    BY <1>3, <2>1 DEF MctsInv
  <2> QED  BY <1>3, <2>1, <2>2, SessionKept DEF MctsInv
<1> QED
  BY <1>1, <1>2, <1>3

(* What the sum over the children adds up to. *)
LEMMA SumIsTotal ==
  ASSUME NEW nodes \in Trees, NEW p \in 1 .. problem.players
  PROVE  MapThenSumSet(LAMBDA i : nodes[i].totals[p], Kids(nodes)) = Total(Told(nodes, p), Kids(nodes))
<1> DEFINE S == Kids(nodes)
           F == Told(nodes, p)
           iter == CHOOSE g : g = [t \in SUBSET S |->
                     IF t = {} THEN 0 ELSE nodes[Picked(t)].totals[p] + g[t \ {Picked(t)}]]
<1>1. IsFiniteSet(S) /\ F \in [S -> Int]
  BY KidsAreFinite, ToldIsTyped
<1>2. \A r \in S : nodes[r].totals[p] = F[r]
  BY DEF Told
<1>3. MapThenSumSet(LAMBDA i : nodes[i].totals[p], S) = iter[S]
  BY DEF MapThenSumSet, MapThenFoldSet, Picked
<1> HIDE DEF S, F
<1>4. PICK g : PartialSums(g, F, S)
  BY <1>1, PartialSumsExist
<1>5. \A t \in SUBSET S : t # {} => nodes[Picked(t)].totals[p] = F[Picked(t)]
  <2> SUFFICES ASSUME NEW t \in SUBSET S, t # {}
               PROVE  nodes[Picked(t)].totals[p] = F[Picked(t)]
    OBVIOUS
  <2>1. Picked(t) \in S
    BY <1>1, Smaller
  <2> QED  BY <1>2, <2>1
<1>6. \A h : (h = [t \in SUBSET S |->
                     IF t = {} THEN 0 ELSE nodes[Picked(t)].totals[p] + h[t \ {Picked(t)}]])
             <=> PartialSums(h, F, S)
  BY <1>5 DEF PartialSums
<1>7. PartialSums(iter, F, S)
  BY <1>4, <1>6
<1> HIDE DEF iter
<1>8. iter[S] = Total(F, S)
  BY <1>1, <1>7, PartialSumsEndInTotal
<1> QED
  BY <1>3, <1>8 DEF S, F

LEMMA TreeTellsTheTruth ==
  ASSUME MctsInv
  PROVE  MctsTellsTheTruth
<1> DEFINE nodes == mcts.nodes
<1>1. /\ problem \in Games /\ nodes \in Trees /\ Linked(nodes) /\ Placed(nodes, mcts.transpositions)
      /\ 1 \in DOMAIN nodes /\ CountInv(mcts) /\ SumInv(nodes) /\ DecisionInv(mcts)
  BY SessionFacts DEF TreeOk
<1>2. TreeIsOfTheEconomy
  <2>1. \A i, j \in DOMAIN nodes : nodes[i].world = nodes[j].world => i = j
    BY <1>1 DEF Placed
  <2>2. \A i \in DOMAIN nodes : LinkedNode(nodes, i)
    BY <1>1 DEF Linked
  <2> QED  BY <2>1, <2>2 DEF TreeIsOfTheEconomy, LinkedNode
<1>3. IterationsAreCounted
  BY <1>1 DEF CountInv, IterationsAreCounted
<1>4. ValuesReachTheRoot
  <2> DEFINE kids == {nodes[1].children[e].child : e \in DOMAIN nodes[1].children}
  <2>1. kids = Kids(nodes)
    <3>1. \A e \in DOMAIN nodes[1].children : nodes[1].children[e].child \in DOMAIN nodes
      BY <1>1 DEF Linked, LinkedNode
    <3> QED  BY <3>1 DEF Kids, Leads
  <2>2. CASE Progressing /\ OneWayIn(nodes)
    <3>1. \A p \in 1 .. problem.players : nodes[1].totals[p] = Total(Told(nodes, p), Kids(nodes))
      BY <1>1, <2>2 DEF SumInv
    <3>2. \A p \in 1 .. problem.players :
            nodes[1].totals[p] = MapThenSumSet(LAMBDA i : nodes[i].totals[p], Kids(nodes))
      <4> SUFFICES ASSUME NEW p \in 1 .. problem.players
                   PROVE  nodes[1].totals[p] = MapThenSumSet(LAMBDA i : nodes[i].totals[p], Kids(nodes))
        OBVIOUS
      <4>1. MapThenSumSet(LAMBDA i : nodes[i].totals[p], Kids(nodes)) = Total(Told(nodes, p), Kids(nodes))
        BY <1>1, SumIsTotal
      <4> QED  BY <3>1, <4>1
    <3> QED  BY <2>1, <3>2 DEF ValuesReachTheRoot
  <2>3. CASE ~OneWayIn(nodes)
    <3>1. PICK i \in DOMAIN nodes \ {1} : \E j \in Kids(nodes) : Leads(nodes, i, j)
      BY <2>3 DEF OneWayIn
    <3>2. \E e \in DOMAIN nodes[i].children : nodes[i].children[e].child \in kids
      BY <2>1, <3>1 DEF Leads
    <3> QED  BY <3>2 DEF ValuesReachTheRoot
  <2>4. CASE ~Progressing
    BY <2>4 DEF ValuesReachTheRoot
  <2> QED  BY <2>2, <2>3, <2>4
<1>5. DecisionIsMostVisited
  BY <1>1 DEF DecisionInv, DecisionIsMostVisited, RootChild
<1> QED
  BY <1>2, <1>3, <1>4, <1>5 DEF MctsTellsTheTruth

(* For every game, seed and budget, however the work is cut into advances,  *)
(* whatever fails: the tree of a session is of the economy, its counts are  *)
(* those of its iterations, the root was told what its children were, and   *)
(* the decision is an accepted exchange no other was visited more than.     *)
THEOREM MctsAlwaysTellsTheTruth == MctsSpec => []MctsTellsTheTruth
<1>1. MctsInit => MctsInv
  BY MctsInvIsInductive
<1>2. MctsInv /\ [MctsNext]_mctsVars => MctsInv'
  BY MctsInvIsInductive
<1>3. MctsInv => MctsTellsTheTruth
  BY TreeTellsTheTruth
<1> QED
  BY <1>1, <1>2, <1>3, PTL DEF MctsSpec

-----------------------------------------------------------------------------
(* Information-set Monte Carlo tree search. *)

IsEdges == [action : Exchanges, visits : Nat, availability : Nat, totals : Totals]
Seen == {Information(w) : w \in Worlds}
IsNodes == [information : Seen, edges : Seq(IsEdges), visits : Nat]
IsTrees == Seq(IsNodes)
Steps == Nat \X Nat

IsmctsSessions ==
  [root : Seen, nodes : IsTrees, draws : Nat, iterations : Nat, decision : Decisions,
   at : {"returned", "loop", "descend", "simulate", "failed"}, left : Nat,
   world : Worlds, path : Seq(Steps), depth : Nat, idle : Nat]

OnPath(path, i) == \E k \in DOMAIN path : path[k][1] = i

Taken(path, i) == {step[2] : step \in {s \in ToSet(path) : s[1] = i}}

Visited(edges) == [e \in DOMAIN edges |-> edges[e].visits]

(* The steps are over edges there are, and no two leave the same node.      *)
StepsOk(nodes, path) ==
  /\ \A k \in DOMAIN path : /\ path[k][1] \in DOMAIN nodes
                            /\ path[k][2] \in DOMAIN nodes[path[k][1]].edges
  /\ \A k, l \in DOMAIN path : path[k][1] = path[l][1] => k = l

(* The node of a step was offered its edge once more than it was told of.   *)
EdgeOk(edge, iterations, information, taken, onPath) ==
  /\ edge.visits <= edge.availability
  /\ taken => edge.visits < edge.availability
  /\ edge.availability <= iterations \/ (onPath /\ edge.availability <= iterations + 1)
  /\ Contains(problem.proposals[information], edge.action)

NodeOk(nodes, path, iterations, i) ==
  /\ nodes[i].visits <= iterations
  /\ nodes[i].visits = Total(Visited(nodes[i].edges), DOMAIN nodes[i].edges)
  /\ \A e \in DOMAIN nodes[i].edges :
       EdgeOk(nodes[i].edges[e], iterations, nodes[i].information, e \in Taken(path, i), OnPath(path, i))

OneNodeEach(nodes) ==
  \A i, j \in DOMAIN nodes : nodes[i].information = nodes[j].information => i = j

InfoTreeOk(s) ==
  /\ s \in IsmctsSessions
  /\ s.root = Information(problem.initial)
  /\ Len(s.nodes) > 0 /\ s.nodes[1].information = s.root
  /\ OneNodeEach(s.nodes)
  /\ StepsOk(s.nodes, s.path)
  /\ \A i \in DOMAIN s.nodes : NodeOk(s.nodes, s.path, s.iterations, i)

InfoWalkInv(s) ==
  /\ s.at \in {"returned", "loop"} => s.path = <<>>
  /\ s.at \in {"descend", "simulate"} => s.left > 0
  /\ s.at # "failed" => IsmctsAccepts

Explored(nodes) == {e \in DOMAIN nodes[1].edges : nodes[1].edges[e].visits > 0}

InfoDecisionInv(s) ==
  s.decision.found =>
    /\ s.at = "returned"
    /\ s.iterations = problem.iterations
    /\ Outcome(problem.initial, s.decision.action) # Refused
    /\ \E e \in Explored(s.nodes) :
         /\ s.nodes[1].edges[e].action = s.decision.action
         /\ \A f \in Explored(s.nodes) : s.nodes[1].edges[f].visits <= s.nodes[1].edges[e].visits

InfoInv(s) == InfoTreeOk(s) /\ InfoWalkInv(s) /\ InfoDecisionInv(s)

IsmctsInv == problem \in Games /\ InfoInv(ismcts)

-----------------------------------------------------------------------------
LEMMA InformationIsTyped ==
  ASSUME problem \in Games, NEW w \in Worlds
  PROVE  /\ Information(w) \in Seen /\ Information(w).actor \in Nat
         /\ problem.proposals[Information(w)] \in Seq(Exchanges)
         /\ Available(w) \in Seq(Exchanges)
         /\ \A k \in DOMAIN Available(w) :
              /\ Available(w)[k] \in Exchanges
              /\ Outcome(w, Available(w)[k]) \in Worlds
              /\ Contains(problem.proposals[Information(w)], Available(w)[k])
<1>1. /\ Information(w).actor \in Nat
      /\ problem.proposals[Information(w)] \in Seq(Exchanges)
  BY InformationAssumption DEF Information
<1> DEFINE proposals == problem.proposals[Information(w)]
           actions == ApplicableActions(w, proposals)
<1>2. actions = Available(w)
  BY DEF Available
<1>3. proposals \in Seq(Exchanges)
  BY <1>1
<1> HIDE DEF proposals
<1>4. /\ actions \in Seq(Exchanges)
      /\ \A k \in DOMAIN actions :
           /\ Outcome(w, actions[k]) \in Worlds
           /\ \E i \in DOMAIN proposals : proposals[i] = actions[k]
  BY <1>3, ApplicableAreAccepted
<1> HIDE DEF actions
<1>5. \A k \in DOMAIN actions : actions[k] \in Exchanges /\ Contains(proposals, actions[k])
  BY <1>3, <1>4 DEF Contains
<1> QED
  BY <1>1, <1>2, <1>4, <1>5 DEF Seen, proposals

LEMMA InfoNodeIsTyped ==
  ASSUME NEW nodes \in IsTrees, NEW i \in DOMAIN nodes
  PROVE  /\ nodes[i] \in IsNodes
         /\ nodes[i].information \in Seen /\ nodes[i].edges \in Seq(IsEdges) /\ nodes[i].visits \in Nat
         /\ Len(nodes) \in Nat /\ DOMAIN nodes = 1 .. Len(nodes) /\ i \in 1 .. Len(nodes)
         /\ Len(nodes[i].edges) \in Nat /\ DOMAIN nodes[i].edges = 1 .. Len(nodes[i].edges)
<1>1. nodes[i] \in IsNodes /\ Len(nodes) \in Nat /\ DOMAIN nodes = 1 .. Len(nodes)
  BY DEF IsTrees
<1>2. nodes[i].information \in Seen /\ nodes[i].edges \in Seq(IsEdges) /\ nodes[i].visits \in Nat
  BY <1>1 DEF IsNodes
<1> QED
  BY <1>1, <1>2

LEMMA InfoEdgeIsTyped ==
  ASSUME NEW edges \in Seq(IsEdges), NEW e \in DOMAIN edges
  PROVE  /\ edges[e] \in IsEdges /\ edges[e].action \in Exchanges
         /\ edges[e].visits \in Nat /\ edges[e].availability \in Nat /\ edges[e].totals \in Totals
<1>1. edges[e] \in IsEdges
  OBVIOUS
<1> QED
  BY <1>1 DEF IsEdges

LEMMA InfoFields ==
  ASSUME NEW s \in IsmctsSessions
  PROVE  /\ s.root \in Seen /\ s.nodes \in IsTrees /\ s.draws \in Nat /\ s.iterations \in Nat
         /\ s.decision \in Decisions /\ s.left \in Nat /\ s.world \in Worlds /\ s.path \in Seq(Steps)
         /\ s.depth \in Nat /\ s.idle \in Nat
         /\ s.at \in {"returned", "loop", "descend", "simulate", "failed"}
BY DEF IsmctsSessions

LEMMA VisitedIsTyped ==
  ASSUME NEW edges \in Seq(IsEdges)
  PROVE  /\ Visited(edges) \in [DOMAIN edges -> Nat] /\ Visited(edges) \in [DOMAIN edges -> Int]
         /\ IsFiniteSet(DOMAIN edges)
<1>1. \A e \in DOMAIN edges : edges[e].visits \in Nat
  BY InfoEdgeIsTyped
<1>2. Len(edges) \in Nat /\ DOMAIN edges = 1 .. Len(edges)
  OBVIOUS
<1>3. IsFiniteSet(DOMAIN edges)
  BY <1>2, FS_Interval
<1> QED
  BY <1>1, <1>3 DEF Visited

LEMMA TotalOfTheLast ==
  ASSUME NEW p \in Nat, NEW q, q = p + 1, NEW G \in [1 .. q -> Int], NEW H \in [1 .. p -> Int],
         \A k \in 1 .. p : G[k] = H[k]
  PROVE  Total(G, 1 .. q) = G[q] + Total(H, 1 .. p)
<1> DEFINE S == 1 .. q
<1>1. /\ IsFiniteSet(S) /\ q \in S /\ S \ {q} = 1 .. p
  <2>1. q \in Nat /\ 1 \in Nat
    OBVIOUS
  <2>2. IsFiniteSet(1 .. q)
    BY <2>1, FS_Interval
  <2> QED  BY <2>2
<1>2. /\ G \in [S -> Int] /\ H \in [S \ {q} -> Int] /\ \A c \in S \ {q} : G[c] = H[c]
  BY <1>1
<1> HIDE DEF S
<1>3. Total(G, S) = G[q] + Total(H, S \ {q})
  BY <1>1, <1>2, TotalWithOneMore
<1> QED
  BY <1>1, <1>3 DEF S

(* What was never visited adds nothing. *)
PaddedWithZeros(F, m, A, n) ==
  /\ n \in Nat /\ m \in Nat /\ n <= m
  /\ F \in [1 .. m -> Int] /\ A \in [1 .. n -> Int]
  /\ \A k \in 1 .. n : F[k] = A[k]
  /\ \A k \in 1 .. m : k > n => F[k] = 0

LEMMA TotalPadded ==
  ASSUME NEW n, NEW m, NEW F, NEW A, PaddedWithZeros(F, m, A, n)
  PROVE  Total(F, 1 .. m) = Total(A, 1 .. n)
<1>0. /\ n \in Nat /\ m \in Nat /\ n <= m
      /\ F \in [1 .. m -> Int] /\ A \in [1 .. n -> Int]
      /\ \A k \in 1 .. n : F[k] = A[k]
      /\ \A k \in 1 .. m : k > n => F[k] = 0
  BY DEF PaddedWithZeros
<1> USE <1>0
<1> DEFINE Padded(j) == \A G \in [1 .. n + j -> Int] :
             /\ \A k \in 1 .. n : G[k] = A[k]
             /\ \A k \in 1 .. n + j : k > n => G[k] = 0
             => Total(G, 1 .. n + j) = Total(A, 1 .. n)
           T == {j \in Nat : Padded(j)}
<1>1. 0 \in T
  <2> SUFFICES ASSUME NEW G \in [1 .. n + 0 -> Int], \A k \in 1 .. n : G[k] = A[k]
               PROVE  Total(G, 1 .. n + 0) = Total(A, 1 .. n)
    OBVIOUS
  <2>1. n + 0 = n
    OBVIOUS
  <2>2. G = A
    BY <2>1
  <2> QED  BY <2>1, <2>2
<1>2. ASSUME NEW j \in Nat, j \in T PROVE j + 1 \in T
  <2> DEFINE p == n + j
             q == n + (j + 1)
  <2> SUFFICES ASSUME NEW G \in [1 .. q -> Int], \A k \in 1 .. n : G[k] = A[k],
                      \A k \in 1 .. q : k > n => G[k] = 0
               PROVE  Total(G, 1 .. q) = Total(A, 1 .. n)
    OBVIOUS
  <2> DEFINE H == [k \in 1 .. p |-> G[k]]
  <2>1. /\ p \in Nat /\ q \in Nat /\ q = p + 1 /\ q \in 1 .. q /\ 1 .. p = (1 .. q) \ {q} /\ q > n
        /\ 1 .. p \subseteq 1 .. q /\ 1 .. n \subseteq 1 .. p /\ G \in [1 .. q -> Int]
    OBVIOUS
  <2>2. Padded(j)
    BY <1>2
  <2>3. /\ H \in [1 .. p -> Int]
        /\ \A k \in 1 .. n : H[k] = A[k]
        /\ \A k \in 1 .. p : k > n => H[k] = 0
        /\ \A k \in 1 .. p : G[k] = H[k]
    BY <2>1
  <2> HIDE DEF H
  <2>4. Total(H, 1 .. p) = Total(A, 1 .. n)
    BY <2>2, <2>3
  <2> HIDE DEF p, q
  <2>5. IsFiniteSet(1 .. q) /\ IsFiniteSet(1 .. p)
    BY <2>1, FS_Interval
  <2>8. Total(G, 1 .. q) = G[q] + Total(H, 1 .. p)
    <3>1. /\ p \in Nat /\ q = p + 1 /\ G \in [1 .. q -> Int] /\ H \in [1 .. p -> Int]
          /\ \A k \in 1 .. p : G[k] = H[k]
      BY <2>1, <2>3
    <3> QED  BY <3>1, TotalOfTheLast, Zenon
  <2>9. Total(H, 1 .. p) \in Int
    BY <2>3, <2>5, TotalType
  <2>10. G[q] = 0
    BY <2>1
  <2> QED  BY <2>4, <2>8, <2>9, <2>10
<1> HIDE DEF Padded
<1>3. Nat \subseteq T
  BY <1>1, <1>2, SetOfNaturals
<1> DEFINE j == m - n
<1>4. j \in Nat /\ n + j = m
  OBVIOUS
<1> HIDE DEF j
<1>5. Padded(j)
  BY <1>3, <1>4
<1> QED
  BY <1>4, <1>5 DEF Padded

-----------------------------------------------------------------------------
(* Nature's and the players' exchanges of a sampled world. *)
LEMMA FreshEdgeIsTyped ==
  ASSUME problem \in Games, NEW x \in Exchanges
  PROVE  /\ [IsEdge(x) EXCEPT !.availability = 1] \in IsEdges
         /\ [IsEdge(x) EXCEPT !.availability = 1].action = x
         /\ [IsEdge(x) EXCEPT !.availability = 1].visits = 0
         /\ [IsEdge(x) EXCEPT !.availability = 1].availability = 1
<1>1. NoValues \in Totals
  BY DEF NoValues, Totals
<1> DEFINE totals == NoValues
           edge == [action |-> x, visits |-> 0, availability |-> 0, totals |-> totals]
<1>2. totals \in Totals /\ IsEdge(x) = edge
  BY <1>1 DEF IsEdge
<1> HIDE DEF totals
<1>3. /\ [edge EXCEPT !.availability = 1] \in IsEdges
      /\ [edge EXCEPT !.availability = 1].action = x
      /\ [edge EXCEPT !.availability = 1].visits = 0
      /\ [edge EXCEPT !.availability = 1].availability = 1
  BY <1>2 DEF IsEdges
<1> QED
  BY <1>2, <1>3

LEMMA OfferedMore ==
  ASSUME NEW edge \in IsEdges, NEW more, more = [edge EXCEPT !.availability = @ + 1]
  PROVE  /\ more \in IsEdges /\ more.action = edge.action /\ more.visits = edge.visits
         /\ more.availability = edge.availability + 1
<1> DEFINE n == edge.availability + 1
<1>1. n \in Nat /\ more = [edge EXCEPT !.availability = n]
  BY DEF IsEdges
<1> HIDE DEF n
<1>2. /\ more \in IsEdges /\ more.action = edge.action /\ more.visits = edge.visits
      /\ more.availability = n
  BY <1>1 DEF IsEdges
<1> QED
  BY <1>2 DEF n

(* The edges there were keep their places; what is offered now is counted,  *)
(* and has an edge.                                                         *)
Registered(r, edges, actions) ==
  /\ r \in Seq(IsEdges) /\ Len(r) \in Nat /\ Len(edges) <= Len(r)
  /\ \A e \in 1 .. Len(edges) :
       /\ r[e].action = edges[e].action /\ r[e].visits = edges[e].visits
       /\ \/ r[e].availability = edges[e].availability /\ ~Contains(actions, edges[e].action)
          \/ r[e].availability = edges[e].availability + 1
  /\ \A e \in 1 .. Len(r) : e > Len(edges) =>
       r[e].visits = 0 /\ r[e].availability = 1 /\ Contains(actions, r[e].action)
  /\ \A k \in DOMAIN actions : \E e \in 1 .. Len(r) : r[e].action = actions[k]

LEMMA RegisterKeeps ==
  ASSUME problem \in Games, NEW edges \in Seq(IsEdges), NEW actions \in Seq(Exchanges),
         NEW r, r = RegisterAvailable(edges, actions)
  PROVE  Registered(r, edges, actions)
<1> DEFINE places == {i \in DOMAIN actions : \A e \in DOMAIN edges : edges[e].action # actions[i]}
           new == Keeping(actions, places)
           fresh == NewEdges(edges, actions)
           old == [e \in DOMAIN edges |->
                     IF Contains(actions, edges[e].action)
                     THEN [edges[e] EXCEPT !.availability = @ + 1] ELSE edges[e]]
           n == Len(edges)
           m == Len(new)
<1>1. /\ n \in Nat /\ DOMAIN edges = 1 .. n
      /\ DOMAIN actions = 1 .. Len(actions)
      /\ r = old \o fresh
  BY DEF RegisterAvailable
<1>2. /\ new \in Seq(Exchanges)
      /\ \A k \in DOMAIN new : \E i \in DOMAIN actions : i \in places /\ new[k] = actions[i]
      /\ \A i \in DOMAIN actions : i \in places => \E k \in DOMAIN new : new[k] = actions[i]
  <2> HIDE DEF places
  <2> QED  BY KeepingKeeps
<1>3. /\ fresh = [k \in DOMAIN new |-> [IsEdge(new[k]) EXCEPT !.availability = 1]]
      /\ \A i \in DOMAIN actions : i \in places <=> \A e \in DOMAIN edges : edges[e].action # actions[i]
  BY DEF NewEdges
<1> HIDE DEF new, fresh, places
<1>4. /\ m \in Nat /\ DOMAIN new = 1 .. m /\ \A k \in 1 .. m : new[k] \in Exchanges
  BY <1>2
<1>5. /\ fresh \in Seq(IsEdges) /\ Len(fresh) = m
      /\ \A k \in 1 .. m : fresh[k].action = new[k] /\ fresh[k].visits = 0 /\ fresh[k].availability = 1
  <2>1. \A k \in 1 .. m : /\ fresh[k] \in IsEdges /\ fresh[k].action = new[k] /\ fresh[k].visits = 0
                          /\ fresh[k].availability = 1
    BY <1>3, <1>4, FreshEdgeIsTyped
  <2>2. fresh = [k \in 1 .. m |-> fresh[k]]
    BY <1>3, <1>4
  <2> HIDE DEF m
  <2>3. fresh \in [1 .. m -> IsEdges]
    BY <2>1, <2>2
  <2> QED  BY <1>4, <2>1, <2>3 DEF m
<1>6. /\ old \in Seq(IsEdges) /\ Len(old) = n
      /\ \A e \in 1 .. n :
           /\ old[e].action = edges[e].action /\ old[e].visits = edges[e].visits
           /\ \/ old[e].availability = edges[e].availability /\ ~Contains(actions, edges[e].action)
              \/ old[e].availability = edges[e].availability + 1
  <2>1. ASSUME NEW e \in 1 .. n
        PROVE  /\ old[e] \in IsEdges
               /\ old[e].action = edges[e].action /\ old[e].visits = edges[e].visits
               /\ \/ old[e].availability = edges[e].availability /\ ~Contains(actions, edges[e].action)
                  \/ old[e].availability = edges[e].availability + 1
    <3>1. edges[e] \in IsEdges
      BY <1>1, InfoEdgeIsTyped
    <3>2. CASE Contains(actions, edges[e].action)
      <4>1. old[e] = [edges[e] EXCEPT !.availability = @ + 1]
        BY <1>1, <3>2
      <4> HIDE DEF old
      <4> QED  BY <3>1, <4>1, OfferedMore
    <3>3. CASE ~Contains(actions, edges[e].action)
      <4>1. old[e] = edges[e]
        BY <1>1, <3>3
      <4> QED  BY <3>1, <3>3, <4>1
    <3> QED  BY <3>2, <3>3
  <2>2. old = [e \in 1 .. n |-> old[e]]
    BY <1>1
  <2> HIDE DEF old, n
  <2>3. old \in [1 .. n -> IsEdges]
    BY <2>1, <2>2
  <2>4. old \in Seq(IsEdges) /\ Len(old) = n
    BY <1>1, <2>3
  <2> QED  BY <2>1, <2>4
<1> HIDE DEF old, n, m
<1>7. /\ r \in Seq(IsEdges) /\ Len(r) = n + m
      /\ \A e \in 1 .. n + m : r[e] = IF e <= n THEN old[e] ELSE fresh[e - n]
  <2>1. old \in Seq(IsEdges) /\ fresh \in Seq(IsEdges)
    BY <1>5, <1>6
  <2>2. /\ old \o fresh \in Seq(IsEdges)
        /\ Len(old \o fresh) = Len(old) + Len(fresh)
        /\ \A e \in 1 .. Len(old) + Len(fresh) :
             (old \o fresh)[e] = IF e <= Len(old) THEN old[e] ELSE fresh[e - Len(old)]
    BY <2>1, ConcatProperties, Zenon
  <2>3. r = old \o fresh /\ Len(old) = n /\ Len(fresh) = m
    BY <1>1, <1>5, <1>6
  <2> QED  BY <2>2, <2>3, Zenon
<1>8. \A e \in 1 .. n : r[e] = old[e] /\ e \in 1 .. n + m
  BY <1>1, <1>4, <1>7
<1>9. ASSUME NEW e \in 1 .. n + m, e > n
      PROVE  r[e].visits = 0 /\ r[e].availability = 1 /\ Contains(actions, r[e].action)
  <2>1. r[e] = fresh[e - n] /\ e - n \in 1 .. m
    BY <1>1, <1>4, <1>7, <1>9
  <2>2. PICK i \in DOMAIN actions : new[e - n] = actions[i]
    BY <1>2, <1>4, <2>1
  <2>3. r[e].action = actions[i]
    BY <1>5, <2>1, <2>2
  <2>4. Contains(actions, r[e].action)
    BY <1>1, <2>3 DEF Contains
  <2> QED  BY <1>5, <2>1, <2>4
<1>10. ASSUME NEW i \in DOMAIN actions PROVE \E e \in 1 .. n + m : r[e].action = actions[i]
  <2>1. CASE i \in places
    <3>1. PICK k \in 1 .. m : new[k] = actions[i]
      BY <1>2, <1>4, <2>1
    <3> DEFINE e == n + k
    <3>2. e \in 1 .. n + m /\ ~(e <= n) /\ e - n = k
      BY <1>1, <1>4
    <3> HIDE DEF e
    <3>3. r[e] = fresh[k]
      BY <1>7, <3>2
    <3> QED  BY <1>5, <3>1, <3>2, <3>3
  <2>2. CASE i \notin places
    <3>1. PICK e \in 1 .. n : edges[e].action = actions[i]
      BY <1>1, <1>3, <2>2
    <3> QED  BY <1>6, <1>8, <3>1
  <2> QED  BY <2>1, <2>2
<1>11. n + m \in Nat /\ n <= n + m
  BY <1>1, <1>4
<1> QED
  BY <1>6, <1>7, <1>8, <1>9, <1>10, <1>11 DEF n, Registered

-----------------------------------------------------------------------------
LEMMA RewardedIsCounted ==
  ASSUME problem \in Games, NEW edges \in Seq(IsEdges), NEW taken,
         NEW values \in Seq(Int), ValidValues(values),
         NEW r, r = RewardedEdges(edges, taken, values)
  PROVE  /\ r \in Seq(IsEdges) /\ Len(r) = Len(edges) /\ DOMAIN r = DOMAIN edges
         /\ \A e \in DOMAIN edges :
              /\ r[e].action = edges[e].action /\ r[e].availability = edges[e].availability
              /\ r[e].visits = IF e \in taken THEN edges[e].visits + 1 ELSE edges[e].visits
<1> DEFINE n == Len(edges)
<1>1. n \in Nat /\ DOMAIN edges = 1 .. n
  OBVIOUS
<1>2. /\ problem.players \in Nat /\ DOMAIN values = 1 .. problem.players
      /\ \A p \in 1 .. problem.players : values[p] \in Int
  BY GameIsTyped DEF ValidValues
<1>3. /\ DOMAIN r = 1 .. n
      /\ \A e \in 1 .. n : r[e] = IF e \in taken
                                  THEN [edges[e] EXCEPT !.visits = @ + 1, !.totals = AddValues(@, values)]
                                  ELSE edges[e]
  BY <1>1 DEF RewardedEdges
<1>4. ASSUME NEW e \in 1 .. n
      PROVE  /\ r[e] \in IsEdges
             /\ r[e].action = edges[e].action /\ r[e].availability = edges[e].availability
             /\ r[e].visits = IF e \in taken THEN edges[e].visits + 1 ELSE edges[e].visits
  <2>1. edges[e] \in IsEdges /\ edges[e].visits \in Nat /\ edges[e].totals \in [1 .. problem.players -> Int]
    BY <1>1, InfoEdgeIsTyped DEF Totals
  <2>2. CASE e \notin taken
    BY <1>3, <2>1, <2>2
  <2>3. CASE e \in taken
    <3> DEFINE visits == edges[e].visits + 1
               told == AddValues(edges[e].totals, values)
    <3>1. told \in Totals
      <4>1. told = [p \in 1 .. problem.players |-> edges[e].totals[p] + values[p]]
        BY <2>1 DEF AddValues
      <4>2. \A p \in 1 .. problem.players : edges[e].totals[p] + values[p] \in Int
        <5> SUFFICES ASSUME NEW p \in 1 .. problem.players PROVE edges[e].totals[p] + values[p] \in Int
          OBVIOUS
        <5>1. edges[e].totals[p] \in Int /\ values[p] \in Int
          BY <1>2, <2>1
        <5> QED  BY <5>1
      <4> QED  BY <4>1, <4>2 DEF Totals
    <3>2. visits \in Nat
      BY <2>1
    <3>3. r[e] = [edges[e] EXCEPT !.visits = visits, !.totals = told]
      BY <1>3, <2>3
    <3> HIDE DEF visits, told
    <3>4. /\ r[e] \in IsEdges
          /\ r[e].action = edges[e].action /\ r[e].availability = edges[e].availability
          /\ r[e].visits = visits
      BY <2>1, <3>1, <3>2, <3>3 DEF IsEdges
    <3> QED  BY <2>3, <3>4 DEF visits
  <2> QED  BY <2>2, <2>3
<1>5. r = [e \in 1 .. n |-> r[e]]
  BY <1>1 DEF RewardedEdges
<1> HIDE DEF n
<1>6. r \in [1 .. n -> IsEdges]
  BY <1>4, <1>5
<1>7. r \in Seq(IsEdges) /\ Len(r) = n
  BY <1>1, <1>6
<1> QED
  BY <1>1, <1>3, <1>4, <1>7 DEF n

LEMMA TakenIsOne ==
  ASSUME NEW nodes \in IsTrees, NEW path \in Seq(Steps), StepsOk(nodes, path), NEW i
  PROVE  \/ Taken(path, i) = {}
         \/ /\ OnPath(path, i)
            /\ \E e \in DOMAIN nodes[i].edges : Taken(path, i) = {e}
<1> SUFFICES ASSUME Taken(path, i) # {}
             PROVE  /\ OnPath(path, i)
                    /\ \E e \in DOMAIN nodes[i].edges : Taken(path, i) = {e}
  OBVIOUS
<1>1. PICK k \in DOMAIN path : path[k][1] = i
  BY DEF Taken, ToSet
<1>2. path[k][2] \in DOMAIN nodes[i].edges
  BY <1>1 DEF StepsOk
<1>3. \A l \in DOMAIN path : path[l][1] = i => l = k
  BY <1>1 DEF StepsOk
<1>4. Taken(path, i) = {path[k][2]}
  <2>1. ASSUME NEW x PROVE x \in Taken(path, i) <=> \E l \in DOMAIN path : path[l][1] = i /\ x = path[l][2]
    BY DEF Taken, ToSet
  <2>2. \A x : x \in Taken(path, i) <=> x = path[k][2]
    BY <1>1, <1>3, <2>1
  <2> QED  BY <2>2
<1> QED
  BY <1>1, <1>2, <1>4 DEF OnPath

LEMMA NothingTaken ==
  ASSUME NEW i
  PROVE  Taken(<<>>, i) = {} /\ ~OnPath(<<>>, i)
<1>1. DOMAIN <<>> = {}
  OBVIOUS
<1> QED
  BY <1>1 DEF Taken, OnPath, ToSet

(* At most one of S counts one more. *)
CountsOneMore(F, A, S, taken) ==
  /\ taken = {} \/ \E e \in S : taken = {e}
  /\ \A e \in S : F[e] = IF e \in taken THEN A[e] + 1 ELSE A[e]

LEMMA OneMoreVisit ==
  ASSUME NEW S, IsFiniteSet(S), NEW A \in [S -> Int], NEW F \in [S -> Int],
         NEW taken, CountsOneMore(F, A, S, taken)
  PROVE  Total(F, S) = Total(A, S) + Cardinality(taken)
<1>0. /\ taken = {} \/ \E e \in S : taken = {e}
      /\ \A e \in S : F[e] = IF e \in taken THEN A[e] + 1 ELSE A[e]
  BY DEF CountsOneMore
<1> DEFINE B == [e \in S |-> IF e \in taken THEN 1 ELSE 0]
<1>1. B \in [S -> Int] /\ \A e \in S : B[e] = IF e \in taken THEN 1 ELSE 0
  OBVIOUS
<1> HIDE DEF B
<1>2. \A e \in S : F[e] = A[e] + B[e]
  <2> SUFFICES ASSUME NEW e \in S PROVE F[e] = A[e] + B[e]
    OBVIOUS
  <2>1. A[e] \in Int
    OBVIOUS
  <2> QED  BY <1>0, <1>1, <2>1
<1>3. Total(F, S) = Total(A, S) + Total(B, S)
  BY <1>1, <1>2, TotalAdds
<1>4. CASE taken = {}
  <2>1. \A e \in S : B[e] = 0 * A[e]
    <3> SUFFICES ASSUME NEW e \in S PROVE B[e] = 0 * A[e]
      OBVIOUS
    <3>1. A[e] \in Int /\ B[e] = 0
      BY <1>1, <1>4
    <3> QED  BY <3>1
  <2>2. 0 \in Int
    OBVIOUS
  <2>3. Total(B, S) = 0 * Total(A, S) /\ Total(A, S) \in Int
    BY <1>1, <2>1, <2>2, TotalScales, TotalType, Zenon
  <2>4. \A k \in Int : 0 * k = 0
    OBVIOUS
  <2>5. Cardinality(taken) = 0
    BY <1>4, FS_EmptySet
  <2> QED  BY <1>3, <2>3, <2>4, <2>5
<1>5. CASE taken # {}
  <2>1. PICK e \in S : taken = {e}
    BY <1>0, <1>5
  <2>2. B[e] = 1 /\ \A c \in S \ {e} : B[c] = 0
    BY <1>1, <2>1
  <2>3. Total(B, S) = B[e]
    BY <1>1, <2>2, TotalOfOne
  <2>4. Cardinality(taken) = 1
    BY <2>1, FS_Singleton
  <2> QED  BY <1>3, <2>2, <2>3, <2>4
<1> QED
  BY <1>4, <1>5

LEMMA RewardedNode ==
  ASSUME problem \in Games, NEW nodes \in IsTrees, NEW path \in Seq(Steps), StepsOk(nodes, path),
         NEW iterations \in Nat, NEW i \in DOMAIN nodes, NodeOk(nodes, path, iterations, i),
         NEW values \in Seq(Int), ValidValues(values),
         NEW after, after = Rewarded(nodes, path, values)
  PROVE  /\ after[i] \in IsNodes /\ after[i].information = nodes[i].information
         /\ NodeOk(after, <<>>, iterations + 1, i)
<1> DEFINE taken == Taken(path, i)
           edges == nodes[i].edges
           visits == nodes[i].visits + Cardinality(taken)
<1>1. PICK rewarded : rewarded = RewardedEdges(edges, taken, values)
  OBVIOUS
<1>2. after[i] = [nodes[i] EXCEPT !.visits = visits, !.edges = rewarded]
  BY <1>1 DEF Rewarded, Taken
<1>3. /\ nodes[i] \in IsNodes /\ edges \in Seq(IsEdges) /\ nodes[i].visits \in Nat
      /\ Len(edges) \in Nat /\ DOMAIN edges = 1 .. Len(edges)
  BY InfoNodeIsTyped
<1>4. taken = {} \/ (OnPath(path, i) /\ \E e \in DOMAIN edges : taken = {e})
  BY TakenIsOne
<1>5. Cardinality(taken) \in {0, 1} /\ (Cardinality(taken) = 0 <=> taken = {})
  BY <1>4, FS_EmptySet, FS_Singleton
<1>6. visits \in Nat
  BY <1>3, <1>5
<1> HIDE DEF taken, edges, visits
<1>7. /\ rewarded \in Seq(IsEdges) /\ Len(rewarded) = Len(edges) /\ DOMAIN rewarded = DOMAIN edges
      /\ \A e \in DOMAIN edges :
           /\ rewarded[e].action = edges[e].action /\ rewarded[e].availability = edges[e].availability
           /\ rewarded[e].visits = IF e \in taken THEN edges[e].visits + 1 ELSE edges[e].visits
  BY <1>1, <1>3, RewardedIsCounted
<1>8. /\ after[i] \in IsNodes /\ after[i].information = nodes[i].information
      /\ after[i].visits = visits /\ after[i].edges = rewarded
  <2> DEFINE S == Seq(IsEdges)
  <2>1. rewarded \in S /\ nodes[i] \in [information : Seen, edges : S, visits : Nat]
    BY <1>3, <1>7 DEF IsNodes
  <2> HIDE DEF S
  <2>2. /\ after[i] \in [information : Seen, edges : S, visits : Nat]
        /\ after[i].information = nodes[i].information
        /\ after[i].visits = visits /\ after[i].edges = rewarded
    BY <1>2, <1>6, <2>1
  <2> QED  BY <2>2 DEF S, IsNodes
<1>9. /\ nodes[i].visits <= iterations
      /\ nodes[i].visits = Total(Visited(edges), DOMAIN edges)
      /\ \A e \in DOMAIN edges : EdgeOk(edges[e], iterations, nodes[i].information, e \in taken, OnPath(path, i))
  BY DEF NodeOk, edges, taken
<1>10. after[i].visits <= iterations + 1
  BY <1>3, <1>5, <1>8, <1>9 DEF visits
<1>11. after[i].visits = Total(Visited(rewarded), DOMAIN rewarded)
  <2> DEFINE S == DOMAIN edges
             F == Visited(rewarded)
             A == Visited(edges)
  <2>1. /\ IsFiniteSet(S) /\ A \in [S -> Int] /\ F \in [S -> Int]
    BY <1>3, <1>7, VisitedIsTyped
  <2>2. \A e \in S : F[e] = IF e \in taken THEN A[e] + 1 ELSE A[e]
    BY <1>7 DEF Visited
  <2>3. taken = {} \/ \E e \in S : taken = {e}
    BY <1>4
  <2> HIDE DEF S, A, F
  <2>4. CountsOneMore(F, A, S, taken)
    BY <2>2, <2>3 DEF CountsOneMore
  <2>5. Total(F, S) = Total(A, S) + Cardinality(taken)
    BY <2>1, <2>4, OneMoreVisit
  <2> QED  BY <1>7, <1>8, <1>9, <2>5 DEF S, A, F, visits
<1>12. ASSUME NEW e \in DOMAIN edges
       PROVE  EdgeOk(rewarded[e], iterations + 1, nodes[i].information, FALSE, FALSE)
  <2>1. /\ edges[e].visits \in Nat /\ edges[e].availability \in Nat
    BY <1>3, InfoEdgeIsTyped
  <2>2. /\ edges[e].visits <= edges[e].availability
        /\ e \in taken => edges[e].visits < edges[e].availability
        /\ edges[e].availability <= iterations + 1
        /\ Contains(problem.proposals[nodes[i].information], edges[e].action)
    BY <1>9, <2>1 DEF EdgeOk
  <2>3. rewarded[e].visits <= rewarded[e].availability /\ rewarded[e].availability <= iterations + 1
    BY <1>7, <2>1, <2>2
  <2> QED  BY <1>7, <2>2, <2>3 DEF EdgeOk
<1>13. NodeOk(after, <<>>, iterations + 1, i)
  <2>1. \A e \in DOMAIN rewarded : EdgeOk(rewarded[e], iterations + 1, after[i].information,
                                          e \in Taken(<<>>, i), OnPath(<<>>, i))
    <3>1. Taken(<<>>, i) = {} /\ ~OnPath(<<>>, i)
      BY NothingTaken
    <3> SUFFICES ASSUME NEW e \in DOMAIN edges
                 PROVE  EdgeOk(rewarded[e], iterations + 1, after[i].information,
                               e \in Taken(<<>>, i), OnPath(<<>>, i))
      BY <1>7
    <3>2. EdgeOk(rewarded[e], iterations + 1, after[i].information, FALSE, FALSE)
      BY <1>8, <1>12
    <3> QED  BY <3>1, <3>2 DEF EdgeOk
  <2> QED  BY <1>8, <1>10, <1>11, <2>1 DEF NodeOk
<1> QED
  BY <1>8, <1>13

LEMMA InfoFailureKeeps ==
  ASSUME NEW s, InfoTreeOk(s), ~s.decision.found, NEW r, r = IsmctsFail(s)
  PROVE  InfoInv(r)
<1>1. s \in IsmctsSessions
  BY DEF InfoTreeOk
<1>2. /\ r \in IsmctsSessions /\ r.nodes = s.nodes /\ r.root = s.root /\ r.path = s.path
      /\ r.iterations = s.iterations /\ r.decision = s.decision /\ r.at = "failed"
  BY <1>1 DEF IsmctsFail, IsmctsSessions
<1>3. InfoTreeOk(r)
  BY <1>2 DEF InfoTreeOk
<1> QED
  BY <1>2, <1>3 DEF InfoInv, InfoWalkInv, InfoDecisionInv

(* The end of an iteration settles what was offered on its way.             *)
LEMMA CreditKeeps ==
  ASSUME problem \in Games, IsmctsAccepts, NEW s, InfoTreeOk(s), ~s.decision.found, s.left > 0,
         NEW r, r = Credit(s)
  PROVE  InfoInv(r)
<1> DEFINE values == problem.values[s.world]
<1>1. /\ s \in IsmctsSessions /\ s.nodes \in IsTrees /\ s.path \in Seq(Steps) /\ s.iterations \in Nat
      /\ s.left \in Nat /\ s.world \in Worlds /\ StepsOk(s.nodes, s.path)
      /\ s.root = Information(problem.initial) /\ Len(s.nodes) > 0 /\ s.nodes[1].information = s.root
      /\ OneNodeEach(s.nodes)
      /\ \A i \in DOMAIN s.nodes : NodeOk(s.nodes, s.path, s.iterations, i)
  BY InfoFields DEF InfoTreeOk
<1>2. values \in Seq(Int)
  BY <1>1, WorthIsTyped
<1>3. CASE ~ValidValues(values)
  BY <1>3, InfoFailureKeeps DEF Credit
<1>4. CASE ValidValues(values)
  <2>1. PICK after : after = Rewarded(s.nodes, s.path, values)
    OBVIOUS
  <2> DEFINE left == s.left - 1
             iterations == s.iterations + 1
             empty == <<>>
             n == Len(s.nodes)
  <2>2. /\ r = [s EXCEPT !.at = "loop", !.left = left, !.iterations = iterations, !.path = empty,
                         !.nodes = after]
    BY <1>4, <2>1 DEF Credit
  <2>3. left \in Nat /\ iterations \in Nat /\ empty \in Seq(Steps) /\ DOMAIN empty = {}
    BY <1>1
  <2>4. n \in Nat /\ DOMAIN s.nodes = 1 .. n
    BY <1>1 DEF IsTrees
  <2> HIDE DEF values
  <2>5. \A i \in 1 .. n : /\ after[i] \in IsNodes /\ after[i].information = s.nodes[i].information
                          /\ NodeOk(after, empty, iterations, i)
    <3> SUFFICES ASSUME NEW i \in DOMAIN s.nodes
                 PROVE  /\ after[i] \in IsNodes /\ after[i].information = s.nodes[i].information
                        /\ NodeOk(after, <<>>, s.iterations + 1, i)
      BY <2>4
    <3>1. NodeOk(s.nodes, s.path, s.iterations, i)
      BY <1>1
    <3> QED  BY <1>1, <1>2, <1>4, <2>1, <3>1, RewardedNode
  <2>6. after \in IsTrees /\ Len(after) = n /\ DOMAIN after = 1 .. n
    <3>1. after = [i \in 1 .. n |-> after[i]]
      BY <2>1, <2>4 DEF Rewarded
    <3> HIDE DEF n
    <3>2. after \in [1 .. n -> IsNodes]
      BY <2>5, <3>1
    <3> QED  BY <2>4, <3>2 DEF IsTrees
  <2> HIDE DEF left, iterations, empty
  <2>7. /\ r \in IsmctsSessions /\ r.nodes = after /\ r.root = s.root /\ r.path = empty
        /\ r.iterations = iterations /\ r.decision = s.decision /\ r.at = "loop"
    BY <1>1, <2>2, <2>3, <2>6 DEF IsmctsSessions
  <2>8. StepsOk(after, empty)
    BY <2>3 DEF StepsOk
  <2>9. OneNodeEach(after)
    BY <1>1, <2>4, <2>5, <2>6 DEF OneNodeEach
  <2>10. Len(after) > 0 /\ after[1].information = s.root
    <3>1. 1 \in 1 .. n
      BY <1>1, <2>4
    <3> QED  BY <1>1, <2>5, <2>6, <3>1
  <2>11. InfoTreeOk(r)
    BY <1>1, <2>5, <2>6, <2>7, <2>8, <2>9, <2>10 DEF InfoTreeOk
  <2> QED
    BY <2>7, <2>11 DEF InfoInv, InfoWalkInv, InfoDecisionInv, empty
<1> QED
  BY <1>3, <1>4

-----------------------------------------------------------------------------
LEMMA InfoTreeFacts ==
  ASSUME NEW s, InfoTreeOk(s)
  PROVE  /\ s \in IsmctsSessions /\ s.nodes \in IsTrees /\ s.path \in Seq(Steps) /\ s.iterations \in Nat
         /\ s.draws \in Nat /\ s.depth \in Nat /\ s.left \in Nat /\ s.world \in Worlds
         /\ s.root = Information(problem.initial)
         /\ Len(s.nodes) \in Nat /\ Len(s.nodes) > 0 /\ DOMAIN s.nodes = 1 .. Len(s.nodes)
         /\ 1 \in DOMAIN s.nodes /\ s.nodes[1].information = s.root
         /\ OneNodeEach(s.nodes) /\ StepsOk(s.nodes, s.path)
         /\ \A i \in DOMAIN s.nodes : NodeOk(s.nodes, s.path, s.iterations, i)
<1>1. s.nodes \in IsTrees /\ s.path \in Seq(Steps) /\ s.iterations \in Nat /\ s.draws \in Nat
      /\ s.depth \in Nat /\ s.left \in Nat /\ s.world \in Worlds
  BY InfoFields DEF InfoTreeOk
<1>2. Len(s.nodes) \in Nat /\ DOMAIN s.nodes = 1 .. Len(s.nodes)
  BY <1>1 DEF IsTrees
<1>3. Len(s.nodes) > 0
  BY DEF InfoTreeOk
<1> QED
  BY <1>1, <1>2, <1>3 DEF InfoTreeOk

SameJourney(old, new) ==
  /\ new.at = old.at /\ new.left = old.left /\ new.iterations = old.iterations
  /\ new.draws = old.draws /\ new.decision = old.decision /\ new.path = old.path
  /\ new.world = old.world /\ new.depth = old.depth /\ new.root = old.root

LEMMA NodeForKeeps ==
  ASSUME problem \in Games, NEW s, InfoTreeOk(s), NEW information \in Seen,
         NEW r, r = NodeFor(s, information),
         NEW node, node = CHOOSE i \in NodesFor(r, information) : TRUE
  PROVE  /\ InfoTreeOk(r) /\ SameJourney(s, r)
         /\ node \in DOMAIN r.nodes /\ r.nodes[node].information = information
<1>1. /\ s \in IsmctsSessions /\ s.nodes \in IsTrees /\ Len(s.nodes) \in Nat /\ Len(s.nodes) > 0
      /\ DOMAIN s.nodes = 1 .. Len(s.nodes) /\ s.nodes[1].information = s.root
      /\ s.root = Information(problem.initial) /\ s.iterations \in Nat
      /\ OneNodeEach(s.nodes) /\ StepsOk(s.nodes, s.path)
      /\ \A i \in DOMAIN s.nodes : NodeOk(s.nodes, s.path, s.iterations, i)
  BY InfoTreeFacts
<1>2. CASE NodesFor(s, information) # {}
  <2>1. r = s
    BY <1>2 DEF NodeFor
  <2>2. node \in NodesFor(s, information)
    BY <1>2, <2>1
  <2> QED  BY <2>1, <2>2 DEF SameJourney, NodesFor
<1>3. CASE NodesFor(s, information) = {}
  <2> DEFINE n == Len(s.nodes)
             fresh == IsNode(information)
  <2>1. PICK new : new = Append(s.nodes, fresh)
    OBVIOUS
  <2>2. r = [s EXCEPT !.nodes = new]
    BY <1>3, <2>1 DEF NodeFor
  <2>3. /\ fresh \in IsNodes /\ fresh.information = information /\ fresh.edges = <<>> /\ fresh.visits = 0
    <3>1. <<>> \in Seq(IsEdges)
      OBVIOUS
    <3> QED  BY <3>1 DEF IsNode, IsNodes
  <2>4. /\ new \in IsTrees /\ Len(new) = n + 1 /\ DOMAIN new = DOMAIN s.nodes \cup {n + 1}
        /\ n + 1 \notin DOMAIN s.nodes
        /\ new[n + 1] = fresh /\ \A i \in DOMAIN s.nodes : new[i] = s.nodes[i]
    <3>1. s.nodes \in Seq(IsNodes) /\ fresh \in IsNodes /\ n \in Nat /\ DOMAIN s.nodes = 1 .. n
      BY <1>1, <2>3 DEF IsTrees
    <3> DEFINE nodes == s.nodes
    <3> HIDE DEF fresh
    <3>2. /\ new \in Seq(IsNodes) /\ Len(new) = n + 1 /\ new[n + 1] = fresh
          /\ \A i \in 1 .. n : new[i] = s.nodes[i]
          /\ DOMAIN new = 1 .. n + 1
      BY <2>1, <3>1
    <3> QED  BY <3>1, <3>2 DEF IsTrees
  <2> HIDE DEF fresh, n
  <2>5. /\ r \in IsmctsSessions /\ r.nodes = new /\ SameJourney(s, r)
    BY <1>1, <2>2, <2>4 DEF IsmctsSessions, SameJourney
  <2>6. node = n + 1
    <3>1. \A i \in DOMAIN s.nodes : s.nodes[i].information # information
      BY <1>3 DEF NodesFor
    <3>2. \A i \in DOMAIN new : new[i].information = information <=> i = n + 1
      BY <2>3, <2>4, <3>1
    <3>3. NodesFor(r, information) = {n + 1}
      BY <2>4, <2>5, <3>2 DEF NodesFor
    <3> QED  BY <3>3
  <2>7. OneNodeEach(new)
    <3>1. \A i \in DOMAIN s.nodes : s.nodes[i].information # information
      BY <1>3 DEF NodesFor
    <3> QED  BY <1>1, <2>3, <2>4, <3>1 DEF OneNodeEach
  <2>8. StepsOk(new, s.path)
    BY <1>1, <2>4 DEF StepsOk
  <2>9. ASSUME NEW i \in DOMAIN new PROVE NodeOk(new, s.path, s.iterations, i)
    <3>1. CASE i \in DOMAIN s.nodes
      <4>1. new[i] = s.nodes[i] /\ NodeOk(s.nodes, s.path, s.iterations, i)
        BY <1>1, <2>4, <3>1
      <4> QED  BY <4>1 DEF NodeOk
    <3>2. CASE i = n + 1
      <4>1. new[i].edges = <<>> /\ new[i].visits = 0
        BY <2>3, <2>4, <3>2
      <4>2. DOMAIN <<>> = {}
        OBVIOUS
      <4>3. Visited(<<>>) \in [{} -> Int]
        BY <4>2 DEF Visited
      <4>4. Total(Visited(<<>>), {}) = 0
        BY <4>3, TotalOfNone
      <4> QED  BY <1>1, <4>1, <4>2, <4>4 DEF NodeOk
    <3> QED  BY <2>4, <3>1, <3>2
  <2>10. Len(new) > 0 /\ new[1].information = s.root
    <3>1. 1 \in DOMAIN s.nodes
      BY <1>1
    <3> QED  BY <1>1, <2>4, <3>1 DEF n
  <2>11. InfoTreeOk(r)
    BY <1>1, <2>5, <2>7, <2>8, <2>9, <2>10 DEF InfoTreeOk, SameJourney
  <2> QED  BY <2>3, <2>4, <2>5, <2>6, <2>11
<1> QED
  BY <1>2, <1>3

(* A node with other edges. *)
OtherEdges(new, nodes, node, edges) ==
  /\ new \in IsTrees /\ DOMAIN new = DOMAIN nodes /\ Len(new) = Len(nodes)
  /\ \A i \in DOMAIN nodes : i # node => new[i] = nodes[i]
  /\ new[node].information = nodes[node].information /\ new[node].visits = nodes[node].visits
  /\ new[node].edges = edges

LEMMA NodeWithEdges ==
  ASSUME NEW nodes \in IsTrees, NEW node \in DOMAIN nodes, NEW edges \in Seq(IsEdges),
         NEW new, new = [nodes EXCEPT ![node].edges = edges]
  PROVE  OtherEdges(new, nodes, node, edges)
<1> DEFINE S == Seq(IsEdges)
           changed == [nodes[node] EXCEPT !.edges = edges]
           n == Len(nodes)
<1>1. /\ nodes[node] \in [information : Seen, edges : S, visits : Nat] /\ edges \in S
      /\ n \in Nat /\ DOMAIN nodes = 1 .. n /\ nodes \in [1 .. n -> IsNodes]
  <2>1. nodes[node] \in IsNodes /\ n \in Nat /\ DOMAIN nodes = 1 .. n
    BY InfoNodeIsTyped
  <2>2. nodes[node] \in [information : Seen, edges : S, visits : Nat]
    BY <2>1 DEF IsNodes
  <2>3. nodes \in Seq(IsNodes)
    BY DEF IsTrees
  <2>4. nodes \in [1 .. n -> IsNodes]
    BY <2>3
  <2> QED  BY <2>1, <2>2, <2>4
<1> HIDE DEF S
<1>2. /\ changed \in [information : Seen, edges : S, visits : Nat]
      /\ changed.information = nodes[node].information /\ changed.visits = nodes[node].visits
      /\ changed.edges = edges
  BY <1>1
<1>3. new = [nodes EXCEPT ![node] = changed] /\ changed \in IsNodes
  BY <1>2 DEF S, IsNodes
<1> HIDE DEF changed, n
<1>4. new \in [1 .. n -> IsNodes] /\ DOMAIN new = 1 .. n
  BY <1>1, <1>3
<1>5. new \in Seq(IsNodes) /\ Len(new) = n
  BY <1>1, <1>4
<1>6. new[node] = changed /\ \A i \in DOMAIN nodes : i # node => new[i] = nodes[i]
  BY <1>3
<1> QED
  BY <1>1, <1>2, <1>4, <1>5, <1>6 DEF IsTrees, n, OtherEdges

(* What is offered at a node of the way is offered once more than it was    *)
(* before, and the way goes on by an edge that is.                          *)
LEMMA OfferedNode ==
  ASSUME problem \in Games, NEW nodes \in IsTrees, NEW path \in Seq(Steps),
         NEW iterations \in Nat, NEW node \in DOMAIN nodes,
         NodeOk(nodes, path, iterations, node), ~OnPath(path, node),
         NEW actions \in Seq(Exchanges),
         \A k \in DOMAIN actions : Contains(problem.proposals[nodes[node].information], actions[k]),
         NEW edges, edges = RegisterAvailable(nodes[node].edges, actions),
         NEW e \in DOMAIN edges, Contains(actions, edges[e].action),
         NEW new, new = [nodes EXCEPT ![node].edges = edges],
         NEW further, OnPath(further, node), Taken(further, node) = {e}
  PROVE  NodeOk(new, further, iterations, node)
<1> DEFINE old == nodes[node].edges
           n == Len(old)
           m == Len(edges)
<1>1. old \in Seq(IsEdges) /\ n \in Nat /\ DOMAIN old = 1 .. n /\ nodes[node].visits \in Nat
  BY InfoNodeIsTyped
<1> HIDE DEF old
<1>2. /\ edges \in Seq(IsEdges) /\ m \in Nat /\ n <= m /\ DOMAIN edges = 1 .. m
      /\ \A c \in 1 .. n :
           /\ edges[c].action = old[c].action /\ edges[c].visits = old[c].visits
           /\ \/ edges[c].availability = old[c].availability /\ ~Contains(actions, old[c].action)
              \/ edges[c].availability = old[c].availability + 1
      /\ \A c \in 1 .. m : c > n =>
           edges[c].visits = 0 /\ edges[c].availability = 1 /\ Contains(actions, edges[c].action)
  <2>1. edges = RegisterAvailable(old, actions)
    BY DEF old
  <2>2. Registered(edges, old, actions)
    BY <1>1, <2>1, RegisterKeeps
  <2> HIDE DEF n
  <2>3. n \in Nat /\ n = Len(old)
    BY <1>1 DEF n
  <2> QED  BY <2>2, <2>3 DEF Registered
<1>3. new[node].information = nodes[node].information /\ new[node].visits = nodes[node].visits
      /\ new[node].edges = edges
  <2>1. OtherEdges(new, nodes, node, edges)
    BY <1>2, NodeWithEdges
  <2> QED  BY <2>1 DEF OtherEdges
<1>4. /\ nodes[node].visits <= iterations
      /\ nodes[node].visits = Total(Visited(old), DOMAIN old)
      /\ \A c \in DOMAIN old : /\ old[c].visits <= old[c].availability
                               /\ old[c].availability <= iterations
                               /\ Contains(problem.proposals[nodes[node].information], old[c].action)
  BY DEF NodeOk, EdgeOk, old
<1>5. \A x : Contains(actions, x) => Contains(problem.proposals[nodes[node].information], x)
  <2>1. DOMAIN actions = 1 .. Len(actions)
    OBVIOUS
  <2> SUFFICES ASSUME NEW x, Contains(actions, x) PROVE Contains(problem.proposals[nodes[node].information], x)
    OBVIOUS
  <2>2. PICK k \in DOMAIN actions : actions[k] = x
    BY <2>1 DEF Contains
  <2> QED  BY <2>2
<1> HIDE DEF n, m
<1>6. Total(Visited(edges), DOMAIN edges) = Total(Visited(old), DOMAIN old)
  <2> DEFINE F == Visited(edges)
             A == Visited(old)
  <2>1. F \in [1 .. m -> Int] /\ A \in [1 .. n -> Int]
    BY <1>1, <1>2, VisitedIsTyped
  <2>2. /\ \A k \in 1 .. n : F[k] = A[k]
        /\ \A k \in 1 .. m : k > n => F[k] = 0
    <3>1. \A k \in 1 .. n : k \in 1 .. m
      BY <1>1, <1>2
    <3>2. /\ \A k \in 1 .. m : F[k] = edges[k].visits
          /\ \A k \in 1 .. n : A[k] = old[k].visits
      BY <1>1, <1>2 DEF Visited
    <3> QED  BY <1>2, <3>1, <3>2
  <2> HIDE DEF F, A
  <2>3. Total(F, 1 .. m) = Total(A, 1 .. n)
    <3>1. PaddedWithZeros(F, m, A, n)
      BY <1>1, <1>2, <2>1, <2>2 DEF PaddedWithZeros
    <3> QED  BY <3>1, TotalPadded
  <2> QED  BY <1>1, <1>2, <2>3 DEF F, A
<1>7. ASSUME NEW c \in 1 .. m
      PROVE  EdgeOk(edges[c], iterations, nodes[node].information, c \in Taken(further, node), OnPath(further, node))
  <2>1. CASE c > n
    <3>1. edges[c].visits = 0 /\ edges[c].availability = 1 /\ Contains(actions, edges[c].action)
      BY <1>2, <2>1
    <3> QED  BY <1>5, <3>1 DEF EdgeOk
  <2>2. CASE ~(c > n)
    <3>1. c \in 1 .. n
      BY <1>1, <1>2, <2>2
    <3>2. /\ edges[c].action = old[c].action /\ edges[c].visits = old[c].visits
          /\ \/ edges[c].availability = old[c].availability /\ ~Contains(actions, old[c].action)
             \/ edges[c].availability = old[c].availability + 1
          /\ old[c].visits \in Nat /\ old[c].availability \in Nat
          /\ old[c].visits <= old[c].availability /\ old[c].availability <= iterations
          /\ Contains(problem.proposals[nodes[node].information], old[c].action)
      BY <1>1, <1>2, <1>4, <3>1, InfoEdgeIsTyped
    <3>3. edges[c].visits <= edges[c].availability /\ edges[c].availability <= iterations + 1
      BY <3>2
    <3>4. c \in Taken(further, node) => edges[c].visits < edges[c].availability
      <4> SUFFICES ASSUME c = e PROVE edges[c].visits < edges[c].availability
        OBVIOUS
      <4>1. edges[c].availability = old[c].availability + 1
        BY <3>2
      <4> QED  BY <3>2, <4>1
    <3> QED  BY <3>2, <3>3, <3>4 DEF EdgeOk
  <2> QED  BY <2>1, <2>2
<1>8. nodes[node].visits = Total(Visited(edges), DOMAIN edges)
  BY <1>4, <1>6
<1> QED
  BY <1>2, <1>3, <1>4, <1>7, <1>8 DEF NodeOk

-----------------------------------------------------------------------------
(* One step further on the way. *)
StepFurther(further, path, node, e) ==
  /\ further \in Seq(Steps)
  /\ DOMAIN further = DOMAIN path \cup {Len(path) + 1} /\ Len(path) + 1 \notin DOMAIN path
  /\ further[Len(path) + 1] = <<node, e>>
  /\ \A k \in DOMAIN path : further[k] = path[k]

LEMMA AppendedStep ==
  ASSUME NEW path \in Seq(Steps), NEW node \in Nat, NEW e \in Nat,
         NEW further, further = Append(path, <<node, e>>)
  PROVE  StepFurther(further, path, node, e)
<1> DEFINE step == <<node, e>>
           n == Len(path)
<1>1. step \in Steps
  BY DEF Steps
<1> HIDE DEF step
<1>2. n \in Nat /\ DOMAIN path = 1 .. n
  OBVIOUS
<1>3. /\ further \in Seq(Steps) /\ Len(further) = n + 1 /\ further[n + 1] = step
      /\ \A k \in 1 .. n : further[k] = path[k]
  BY <1>1 DEF step
<1> HIDE DEF n
<1>4. DOMAIN further = (1 .. n) \cup {n + 1} /\ n + 1 \notin 1 .. n
  <2>1. DOMAIN further = 1 .. n + 1
    BY <1>3
  <2> QED  BY <1>2, <2>1
<1> QED
  BY <1>2, <1>3, <1>4 DEF StepFurther, step, n

LEMMA TakenFurther ==
  ASSUME NEW path, NEW node, NEW e, ~OnPath(path, node), NEW further, StepFurther(further, path, node, e)
  PROVE  /\ OnPath(further, node) /\ Taken(further, node) = {e}
         /\ \A i : i # node => /\ Taken(further, i) = Taken(path, i)
                               /\ OnPath(further, i) <=> OnPath(path, i)
<1> DEFINE last == Len(path) + 1
<1>1. /\ DOMAIN further = DOMAIN path \cup {last} /\ last \notin DOMAIN path
      /\ further[last] = <<node, e>> /\ \A k \in DOMAIN path : further[k] = path[k]
  BY DEF StepFurther
<1> HIDE DEF last
<1>2. further[last][1] = node /\ further[last][2] = e
  BY <1>1
<1>3. \A i, x : x \in Taken(further, i) <=> \E k \in DOMAIN further : further[k][1] = i /\ x = further[k][2]
  BY DEF Taken, ToSet
<1>4. \A i, x : x \in Taken(path, i) <=> \E k \in DOMAIN path : path[k][1] = i /\ x = path[k][2]
  BY DEF Taken, ToSet
<1>5. \A k \in DOMAIN path : path[k][1] # node
  BY DEF OnPath
<1>6. OnPath(further, node)
  BY <1>1, <1>2 DEF OnPath
<1>7. \A x : x \in Taken(further, node) <=> x = e
  BY <1>1, <1>2, <1>3, <1>5
<1>8. ASSUME NEW i, i # node
      PROVE  /\ Taken(further, i) = Taken(path, i)
             /\ OnPath(further, i) <=> OnPath(path, i)
  <2>1. \A x : x \in Taken(further, i) <=> x \in Taken(path, i)
    BY <1>1, <1>2, <1>3, <1>4, <1>8
  <2>2. OnPath(further, i) <=> OnPath(path, i)
    BY <1>1, <1>2, <1>8 DEF OnPath
  <2> QED  BY <2>1, <2>2
<1> QED
  BY <1>6, <1>7, <1>8

(* Which action is taken: one of those on offer, by an edge that is there.  *)
Untried(edges, actions) ==
  Keeping(actions, {i \in DOMAIN actions : edges[EdgeFor(edges, actions[i])].visits = 0})

Favourite(edges, actions, player) ==
  LastBest([k \in DOMAIN actions |-> IsmctsScore(edges[EdgeFor(edges, actions[k])], player)])

ActionTaken(edges, actions, player, draws) ==
  IF Untried(edges, actions) # <<>> THEN RandomAction(Untried(edges, actions), draws)
  ELSE actions[Favourite(edges, actions, player)]

LEMMA TakenIsOffered ==
  ASSUME problem \in Games, NEW actions \in Seq(Exchanges), actions # <<>>, NEW draws \in Nat, NEW player,
         NEW old, NEW edges, Registered(edges, old, actions),
         NEW action, action = ActionTaken(edges, actions, player, draws)
  PROVE  /\ \E k \in DOMAIN actions : action = actions[k]
         /\ EdgeFor(edges, action) \in DOMAIN edges /\ edges[EdgeFor(edges, action)].action = action
         /\ EdgeFor(edges, action) \in Nat
<1> DEFINE places == {i \in DOMAIN actions : edges[EdgeFor(edges, actions[i])].visits = 0}
           score == [k \in DOMAIN actions |-> IsmctsScore(edges[EdgeFor(edges, actions[k])], player)]
           n == Len(actions)
           unvisited == Untried(edges, actions)
           best == Favourite(edges, actions, player)
<1>1. n \in Nat /\ n > 0 /\ DOMAIN actions = 1 .. n
  BY EmptySeq
<1>2. DOMAIN score = 1 .. n /\ score = [k \in 1 .. n |-> score[k]]
  BY <1>1
<1>3. unvisited = Keeping(actions, places) /\ best = LastBest(score)
  BY DEF Untried, Favourite
<1>4. action = IF unvisited # <<>> THEN RandomAction(unvisited, draws) ELSE actions[best]
  BY DEF ActionTaken
<1> HIDE DEF score, places, unvisited, best
<1>5. PICK k \in DOMAIN actions : action = actions[k]
  <2>1. CASE unvisited # <<>>
    <3>1. /\ unvisited \in Seq(Exchanges)
          /\ \A k \in DOMAIN unvisited : \E i \in DOMAIN actions : i \in places /\ unvisited[k] = actions[i]
      BY <1>3, KeepingKeeps
    <3>2. PICK j \in DOMAIN unvisited : RandomAction(unvisited, draws) = unvisited[j]
      BY <2>1, <3>1, RandomActionIsOne
    <3> QED  BY <1>4, <2>1, <3>1, <3>2
  <2>2. CASE ~(unvisited # <<>>)
    <3> HIDE DEF n
    <3>1. Len(score) = n
      BY <1>1, <1>2
    <3>2. best \in 1 .. n
      BY <1>1, <1>3, <3>1, LastBestIsOne
    <3> QED  BY <1>1, <1>4, <2>2, <3>2
  <2> QED  BY <2>1, <2>2
<1>6. edges \in Seq(IsEdges) /\ \A m \in DOMAIN actions : \E e \in 1 .. Len(edges) : edges[e].action = actions[m]
  BY DEF Registered
<1>7. DOMAIN edges = 1 .. Len(edges) /\ Len(edges) \in Nat
  BY <1>6
<1>8. \E e \in DOMAIN edges : edges[e].action = action
  BY <1>5, <1>6, <1>7
<1>9. EdgeFor(edges, action) \in DOMAIN edges /\ edges[EdgeFor(edges, action)].action = action
  BY <1>8 DEF EdgeFor
<1>10. EdgeFor(edges, action) \in Nat
  <2> DEFINE e == EdgeFor(edges, action)
  <2>1. e \in 1 .. Len(edges)
    BY <1>7, <1>9
  <2> HIDE DEF e
  <2>2. e \in Nat
    BY <1>7, <2>1
  <2> QED  BY <2>2 DEF e
<1> QED
  BY <1>5, <1>9, <1>10

Continued(r, t, at, draws, world, path, depth) ==
  /\ t \in IsmctsSessions /\ at \in {"simulate", "descend"} /\ draws \in Nat /\ depth \in Nat
  /\ world \in Worlds /\ path \in Seq(Steps)
  /\ r = [t EXCEPT !.at = at, !.draws = draws, !.world = world, !.path = path, !.depth = depth]

StillOf(r, t, at, path) ==
  /\ r \in IsmctsSessions /\ r.nodes = t.nodes /\ r.root = t.root /\ r.path = path
  /\ r.iterations = t.iterations /\ r.decision = t.decision /\ r.at = at /\ r.left = t.left

LEMMA JourneyGoesOn ==
  ASSUME NEW r, NEW t, NEW at, NEW draws, NEW world, NEW path, NEW depth,
         Continued(r, t, at, draws, world, path, depth)
  PROVE  StillOf(r, t, at, path)
<1> DEFINE P == Seq(Steps)
<1>1. /\ path \in P
      /\ t \in [root : Seen, nodes : IsTrees, draws : Nat, iterations : Nat, decision : Decisions,
                 at : {"returned", "loop", "descend", "simulate", "failed"}, left : Nat,
                 world : Worlds, path : P, depth : Nat, idle : Nat]
  BY DEF Continued, IsmctsSessions
<1>0. /\ at \in {"simulate", "descend"} /\ draws \in Nat /\ depth \in Nat /\ world \in Worlds
      /\ r = [t EXCEPT !.at = at, !.draws = draws, !.world = world, !.path = path, !.depth = depth]
  BY DEF Continued
<1> HIDE DEF P
<1>2. /\ r \in [root : Seen, nodes : IsTrees, draws : Nat, iterations : Nat, decision : Decisions,
                 at : {"returned", "loop", "descend", "simulate", "failed"}, left : Nat,
                 world : Worlds, path : P, depth : Nat, idle : Nat]
      /\ r.nodes = t.nodes /\ r.root = t.root /\ r.path = path
      /\ r.iterations = t.iterations /\ r.decision = t.decision /\ r.at = at /\ r.left = t.left
  BY <1>0, <1>1
<1> QED
  BY <1>2 DEF IsmctsSessions, P, StillOf

LEMMA TakeKeeps ==
  ASSUME problem \in Games, IsmctsAccepts, NEW s, InfoTreeOk(s), ~s.decision.found, s.left > 0,
         NEW node \in DOMAIN s.nodes, s.nodes[node].information = Information(s.world),
         ~OnPath(s.path, node),
         NEW actions, actions = Available(s.world), actions # <<>>,
         NEW edges, edges = RegisterAvailable(s.nodes[node].edges, actions),
         NEW t, t = [s EXCEPT !.nodes[node].edges = edges],
         NEW r, r = TakeEdge(t, node, actions)
  PROVE  InfoInv(r)
<1> DEFINE seen == Information(s.world)
           player == seen.actor
           old == s.nodes[node].edges
<1>1. /\ s \in IsmctsSessions /\ s.nodes \in IsTrees /\ s.path \in Seq(Steps) /\ s.iterations \in Nat
      /\ s.draws \in Nat /\ s.depth \in Nat /\ s.left \in Nat /\ s.world \in Worlds
      /\ s.root = Information(problem.initial)
      /\ DOMAIN s.nodes = 1 .. Len(s.nodes) /\ Len(s.nodes) > 0
      /\ 1 \in DOMAIN s.nodes /\ s.nodes[1].information = s.root
      /\ OneNodeEach(s.nodes) /\ StepsOk(s.nodes, s.path)
      /\ \A i \in DOMAIN s.nodes : NodeOk(s.nodes, s.path, s.iterations, i)
  BY InfoTreeFacts
<1>2. /\ actions \in Seq(Exchanges)
      /\ \A k \in DOMAIN actions :
           /\ actions[k] \in Exchanges /\ Outcome(s.world, actions[k]) \in Worlds
           /\ Contains(problem.proposals[s.nodes[node].information], actions[k])
  BY <1>1, InformationIsTyped
<1>3. old \in Seq(IsEdges) /\ node \in Nat
  BY <1>1, InfoNodeIsTyped
<1>4. edges = RegisterAvailable(old, actions)
  OBVIOUS
<1> HIDE DEF old
<1>5. Registered(edges, old, actions)
  BY <1>2, <1>3, <1>4, RegisterKeeps
<1>6. edges \in Seq(IsEdges)
  BY <1>5 DEF Registered
<1>7. PICK new : new = [s.nodes EXCEPT ![node].edges = edges]
  OBVIOUS
<1>8. OtherEdges(new, s.nodes, node, edges)
  BY <1>1, <1>6, <1>7, NodeWithEdges
<1>9. /\ new \in IsTrees /\ DOMAIN new = DOMAIN s.nodes /\ Len(new) = Len(s.nodes)
      /\ \A i \in DOMAIN s.nodes : i # node => new[i] = s.nodes[i]
      /\ new[node].information = s.nodes[node].information
      /\ new[node].edges = edges
  BY <1>8 DEF OtherEdges
<1>10. t = [s EXCEPT !.nodes = new]
  BY <1>7
<1>11. /\ t \in IsmctsSessions /\ t.nodes = new /\ t.root = s.root /\ t.path = s.path /\ t.draws = s.draws
       /\ t.iterations = s.iterations /\ t.decision = s.decision /\ t.left = s.left
       /\ t.world = s.world /\ t.depth = s.depth
  BY <1>1, <1>9, <1>10 DEF IsmctsSessions
<1> DEFINE expanded == Untried(edges, actions) # <<>>
           action == ActionTaken(edges, actions, player, s.draws)
           e == EdgeFor(edges, action)
           at == IF expanded THEN "simulate" ELSE "descend"
           draws == IF expanded THEN s.draws + 1 ELSE s.draws
           next == Outcome(s.world, action)
           further == Append(s.path, <<node, e>>)
           depth == s.depth + 1
<1>12. r = [t EXCEPT !.at = at, !.draws = draws, !.world = next, !.path = further, !.depth = depth]
  <2> DEFINE edgesOfT == t.nodes[node].edges
             playerOfT == Information(t.world).actor
             actionOfT == ActionTaken(edgesOfT, actions, playerOfT, t.draws)
  <2>1. r = [t EXCEPT !.at = IF Untried(edgesOfT, actions) # <<>> THEN "simulate" ELSE "descend",
                      !.draws = IF Untried(edgesOfT, actions) # <<>> THEN t.draws + 1 ELSE t.draws,
                      !.world = Outcome(t.world, actionOfT),
                      !.path = Append(t.path, <<node, EdgeFor(edgesOfT, actionOfT)>>),
                      !.depth = t.depth + 1]
    BY DEF TakeEdge, ActionTaken, Untried, Favourite
  <2>2. edgesOfT = edges /\ playerOfT = player /\ t.draws = s.draws /\ t.world = s.world /\ t.path = s.path
        /\ t.depth = s.depth
    BY <1>9, <1>11
  <2> HIDE DEF edgesOfT, playerOfT
  <2>3. actionOfT = action
    BY <2>2
  <2> HIDE DEF actionOfT
  <2> QED  BY <2>1, <2>2, <2>3
<1>13. /\ \E k \in DOMAIN actions : action = actions[k]
       /\ e \in DOMAIN edges /\ edges[e].action = action /\ e \in Nat
  <2> HIDE DEF action
  <2>1. action = ActionTaken(edges, actions, player, s.draws)
    BY DEF action
  <2> QED  BY <1>1, <1>2, <1>5, <2>1, TakenIsOffered
<1>14. at \in {"simulate", "descend"} /\ draws \in Nat /\ depth \in Nat
  BY <1>1
<1> HIDE DEF expanded, action, at, draws, depth
<1>15. next \in Worlds
  BY <1>2, <1>13
<1> HIDE DEF e
<1>16. StepFurther(further, s.path, node, e)
  BY <1>1, <1>3, <1>13, AppendedStep
<1> HIDE DEF next, further
<1>17. /\ further \in Seq(Steps)
       /\ DOMAIN further = DOMAIN s.path \cup {Len(s.path) + 1} /\ Len(s.path) + 1 \notin DOMAIN s.path
       /\ further[Len(s.path) + 1] = <<node, e>>
       /\ \A k \in DOMAIN s.path : further[k] = s.path[k]
  BY <1>16 DEF StepFurther
<1>18. /\ r \in IsmctsSessions /\ r.nodes = new /\ r.root = s.root /\ r.path = further
       /\ r.iterations = s.iterations /\ r.decision = s.decision /\ r.at = at /\ r.left = s.left
  <2>1. Continued(r, t, at, draws, next, further, depth)
    BY <1>11, <1>12, <1>14, <1>15, <1>17 DEF Continued
  <2>2. StillOf(r, t, at, further)
    BY <2>1, JourneyGoesOn
  <2> QED  BY <1>11, <2>2 DEF StillOf
<1>19. /\ OnPath(further, node) /\ Taken(further, node) = {e}
       /\ \A i : i # node => /\ Taken(further, i) = Taken(s.path, i)
                             /\ OnPath(further, i) <=> OnPath(s.path, i)
  BY <1>16, TakenFurther
<1>20. StepsOk(new, further)
  <2> DEFINE last == Len(s.path) + 1
  <2>1. further[last][1] = node /\ further[last][2] = e
    BY <1>17
  <2>2. \A k \in DOMAIN s.path : /\ s.path[k][1] # node
                                 /\ s.path[k][1] \in DOMAIN s.nodes
                                 /\ s.path[k][2] \in DOMAIN s.nodes[s.path[k][1]].edges
    BY <1>1 DEF StepsOk, OnPath
  <2>3. \A k \in DOMAIN further : /\ further[k][1] \in DOMAIN new
                                  /\ further[k][2] \in DOMAIN new[further[k][1]].edges
    BY <1>9, <1>13, <1>17, <2>1, <2>2
  <2>4. \A k, l \in DOMAIN further : further[k][1] = further[l][1] => k = l
    <3>1. \A k, l \in DOMAIN s.path : s.path[k][1] = s.path[l][1] => k = l
      BY <1>1 DEF StepsOk
    <3> QED  BY <1>17, <2>1, <2>2, <3>1
  <2> QED  BY <2>3, <2>4 DEF StepsOk
<1>21. OneNodeEach(new)
  BY <1>1, <1>9 DEF OneNodeEach
<1>22. ASSUME NEW i \in DOMAIN new PROVE NodeOk(new, further, s.iterations, i)
  <2>1. CASE i = node
    <3>1. Contains(actions, edges[e].action)
      <4>1. DOMAIN actions = 1 .. Len(actions)
        BY <1>2
      <4> QED  BY <1>13, <4>1 DEF Contains
    <3>2. NodeOk(s.nodes, s.path, s.iterations, node)
      BY <1>1
    <3>3. NodeOk(new, further, s.iterations, node)
      BY <1>1, <1>2, <1>4, <1>7, <1>13, <1>19, <3>1, <3>2, OfferedNode DEF old
    <3> QED  BY <2>1, <3>3
  <2>2. CASE i # node
    <3>1. new[i] = s.nodes[i] /\ NodeOk(s.nodes, s.path, s.iterations, i)
      BY <1>1, <1>9, <2>2
    <3>2. Taken(further, i) = Taken(s.path, i) /\ (OnPath(further, i) <=> OnPath(s.path, i))
      BY <1>19, <2>2
    <3> QED  BY <3>1, <3>2 DEF NodeOk, EdgeOk
  <2> QED  BY <2>1, <2>2
<1>23. Len(new) > 0 /\ new[1].information = s.root
  BY <1>1, <1>9
<1>24. InfoTreeOk(r)
  BY <1>1, <1>9, <1>18, <1>20, <1>21, <1>22, <1>23 DEF InfoTreeOk
<1> QED
  BY <1>14, <1>18, <1>24 DEF InfoInv, InfoWalkInv, InfoDecisionInv

-----------------------------------------------------------------------------
LEMMA InfoFacts ==
  ASSUME IsmctsInv
  PROVE  /\ problem \in Games /\ InfoTreeOk(ismcts) /\ InfoWalkInv(ismcts) /\ InfoDecisionInv(ismcts)
         /\ ismcts \in IsmctsSessions /\ ismcts.world \in Worlds /\ ismcts.draws \in Nat
         /\ ismcts.depth \in Nat /\ ismcts.idle \in Nat /\ ismcts.nodes \in IsTrees
         /\ ismcts.at # "returned" => ~ismcts.decision.found
         /\ ismcts.at # "failed" => IsmctsAccepts
         /\ ismcts.at \in {"descend", "simulate"} => ismcts.left > 0
<1>1. /\ problem \in Games /\ InfoTreeOk(ismcts) /\ InfoWalkInv(ismcts) /\ InfoDecisionInv(ismcts)
  BY DEF IsmctsInv, InfoInv
<1>2. /\ ismcts.at # "returned" => ~ismcts.decision.found
      /\ ismcts.at # "failed" => IsmctsAccepts
      /\ ismcts.at \in {"descend", "simulate"} => ismcts.left > 0
  BY <1>1 DEF InfoWalkInv, InfoDecisionInv
<1>3. ismcts \in IsmctsSessions
  BY <1>1 DEF InfoTreeOk
<1> QED
  BY <1>1, <1>2, <1>3, InfoFields

LEMMA InfoNewKeeps ==
  ASSUME problem \in Games, NEW s, s = IsmctsNew
  PROVE  InfoInv(s)
<1> DEFINE information == Information(problem.initial)
           node == IsNode(information)
           nodes == <<node>>
           undecided == [found |-> FALSE, action |-> Refused]
           at == IF IsmctsAccepts THEN "returned" ELSE "failed"
           empty == <<>>
           path == <<>>
<1>1. problem.initial \in Worlds /\ information \in Seen /\ MaxIdle \in Nat
  BY GameIsTyped, InformationIsTyped, SearchAssumption
<1>2. /\ empty \in Seq(IsEdges) /\ DOMAIN empty = {}
      /\ path \in Seq(Steps) /\ DOMAIN path = {}
  OBVIOUS
<1>3. node = [information |-> information, edges |-> empty, visits |-> 0]
  BY DEF IsNode
<1>4. s = [root |-> information, nodes |-> nodes, draws |-> 0, iterations |-> 0,
           decision |-> undecided, at |-> at, left |-> 0, world |-> problem.initial,
           path |-> path, depth |-> 0, idle |-> MaxIdle]
  BY DEF IsmctsNew
<1>5. undecided \in Decisions /\ ~undecided.found
  BY DEF Decisions
<1>6. at \in {"returned", "failed"} /\ (at # "failed" => IsmctsAccepts)
  OBVIOUS
<1> HIDE DEF information, empty, path, undecided, at
<1>7. node \in IsNodes /\ node.information = information /\ node.edges = empty /\ node.visits = 0
  BY <1>1, <1>2, <1>3 DEF IsNodes
<1> HIDE DEF node
<1>8. nodes \in IsTrees /\ Len(nodes) = 1 /\ DOMAIN nodes = {1} /\ nodes[1] = node
  BY <1>7 DEF IsTrees
<1> HIDE DEF nodes
<1>9. /\ s \in IsmctsSessions /\ s.nodes = nodes /\ s.root = information /\ s.path = path
      /\ s.iterations = 0 /\ s.decision = undecided /\ s.at = at
  BY <1>1, <1>2, <1>4, <1>5, <1>6, <1>8 DEF IsmctsSessions
<1>10. OneNodeEach(nodes) /\ StepsOk(nodes, path)
  BY <1>2, <1>8 DEF OneNodeEach, StepsOk
<1>11. NodeOk(nodes, path, 0, 1)
  <2>1. Total(Visited(empty), {}) = 0
    <3>1. Visited(empty) \in [{} -> Int]
      BY <1>2 DEF Visited
    <3> QED  BY <3>1, TotalOfNone
  <2> QED  BY <1>2, <1>7, <1>8, <2>1 DEF NodeOk
<1>12. InfoTreeOk(s)
  <2>1. \A i \in DOMAIN s.nodes : NodeOk(s.nodes, s.path, s.iterations, i)
    BY <1>8, <1>9, <1>11
  <2>2. s.root = Information(problem.initial) /\ Len(s.nodes) > 0 /\ s.nodes[1].information = s.root
    <3>1. s.root = Information(problem.initial)
      BY <1>9 DEF information
    <3>2. Len(s.nodes) > 0
      <4>1. s.nodes = nodes /\ Len(nodes) = 1
        BY <1>8, <1>9
      <4>2. Len(s.nodes) = 1
        BY <4>1
      <4> QED  BY <4>2
    <3>3. s.nodes[1].information = s.root
      BY <1>7, <1>8, <1>9
    <3> QED  BY <3>1, <3>2, <3>3
  <2>3. OneNodeEach(s.nodes) /\ StepsOk(s.nodes, s.path)
    BY <1>9, <1>10
  <2> QED  BY <1>9, <2>1, <2>2, <2>3 DEF InfoTreeOk
<1> QED
  BY <1>5, <1>6, <1>9, <1>12 DEF InfoInv, InfoWalkInv, InfoDecisionInv, path

(* A step that leaves the tree and the way alone. *)
LEMMA SameInfoKeeps ==
  ASSUME NEW s, InfoTreeOk(s), NEW r \in IsmctsSessions, r.nodes = s.nodes, r.root = s.root,
         r.path = s.path, r.iterations = s.iterations
  PROVE  InfoTreeOk(r)
BY DEF InfoTreeOk

LEMMA InfoAdvanceKeeps ==
  ASSUME IsmctsInv, NEW units \in Budgets, IsmctsAdvance(units)
  PROVE  InfoInv(ismcts')
<1> DEFINE idle == IF units = 0 THEN ismcts.idle - 1 ELSE ismcts.idle
<1>1. units \in Nat /\ ismcts \in IsmctsSessions /\ ismcts.idle \in Nat /\ (units = 0 => ismcts.idle > 0)
      /\ ismcts.at = "returned" /\ ~ismcts.decision.found
  BY SearchAssumption, InfoFacts DEF IsmctsAdvance
<1>2. idle \in Nat
  BY <1>1
<1>3. ismcts' = [ismcts EXCEPT !.at = "loop", !.left = units, !.idle = idle]
  BY DEF IsmctsAdvance
<1> HIDE DEF idle
<1>4. PICK after : after = ismcts'
  OBVIOUS
<1>5. /\ after \in IsmctsSessions /\ after.nodes = ismcts.nodes /\ after.root = ismcts.root
      /\ after.path = ismcts.path /\ after.iterations = ismcts.iterations
      /\ after.decision = ismcts.decision /\ after.at = "loop"
  BY <1>1, <1>2, <1>3, <1>4 DEF IsmctsSessions
<1>6. InfoTreeOk(after)
  BY <1>5, InfoFacts, SameInfoKeeps
<1> QED
  BY <1>1, <1>4, <1>5, <1>6, InfoFacts DEF InfoInv, InfoWalkInv, InfoDecisionInv

LEMMA InfoInterruptKeeps ==
  ASSUME IsmctsInv, IsmctsInterrupt
  PROVE  InfoInv(ismcts')
<1> DEFINE idle == ismcts.idle - 1
<1>1. ismcts \in IsmctsSessions /\ ismcts.idle \in Nat /\ ismcts.idle > 0 /\ ismcts.at = "loop"
  BY InfoFacts DEF IsmctsInterrupt, IsmctsMoreWork
<1>2. idle \in Nat
  BY <1>1
<1>3. ismcts' = [ismcts EXCEPT !.at = "returned", !.idle = idle]
  BY DEF IsmctsInterrupt
<1> HIDE DEF idle
<1>4. PICK after : after = ismcts'
  OBVIOUS
<1>5. /\ after \in IsmctsSessions /\ after.nodes = ismcts.nodes /\ after.root = ismcts.root
      /\ after.path = ismcts.path /\ after.iterations = ismcts.iterations
      /\ after.decision = ismcts.decision /\ after.at = "returned"
  BY <1>1, <1>2, <1>3, <1>4 DEF IsmctsSessions
<1>6. InfoTreeOk(after) /\ ~ismcts.decision.found
  BY <1>1, <1>5, InfoFacts, SameInfoKeeps
<1> QED
  BY <1>1, <1>4, <1>5, <1>6, InfoFacts DEF InfoInv, InfoWalkInv, InfoDecisionInv

LEMMA DeterminizedIsAWorld ==
  ASSUME IsmctsInv, problem.beliefs # <<>>
  PROVE  Determinized \in Worlds
<1> DEFINE beliefs == problem.beliefs
           n == Len(beliefs)
           ticket == Ticket(ismcts.draws, n)
<1>1. /\ beliefs \in Seq(Worlds) /\ problem \in Games /\ ismcts.draws \in Nat
  BY InfoFacts, InformationAssumption
<1>2. n \in Nat /\ n > 0 /\ DOMAIN beliefs = 1 .. n /\ \A k \in 1 .. n : beliefs[k] \in Worlds
  BY <1>1, EmptySeq
<1> HIDE DEF n
<1>3. ticket \in 0 .. n - 1
  BY <1>1, <1>2, TicketIsBelow
<1>4. Determinized = beliefs[1 + ticket]
  BY DEF Determinized, n
<1> HIDE DEF ticket
<1>5. 1 + ticket \in 1 .. n
  BY <1>2, <1>3
<1> QED
  BY <1>2, <1>4, <1>5

LEMMA InfoStartKeeps ==
  ASSUME IsmctsInv, IsmctsStart
  PROVE  InfoInv(ismcts')
<1>1. ismcts \in IsmctsSessions /\ ismcts.at = "loop" /\ ismcts.left > 0 /\ ismcts.draws \in Nat
      /\ ~ismcts.decision.found /\ InfoTreeOk(ismcts)
  BY InfoFacts DEF IsmctsStart, IsmctsMoreWork
<1>2. CASE problem.beliefs = <<>> \/ Information(Determinized) # ismcts.root
  <2>1. ismcts' = IsmctsFail(ismcts)
    BY <1>2 DEF IsmctsStart
  <2> QED  BY <1>1, <2>1, InfoFailureKeeps
<1>3. CASE ~(problem.beliefs = <<>> \/ Information(Determinized) # ismcts.root)
  <2> DEFINE world == Determinized
             draws == ismcts.draws + 1
             path == <<>>
  <2>1. ismcts' = [ismcts EXCEPT !.at = "descend", !.world = world, !.path = path,
                                 !.depth = 0, !.draws = draws]
    BY <1>3 DEF IsmctsStart
  <2>2. world \in Worlds /\ draws \in Nat /\ path \in Seq(Steps) /\ path = ismcts.path
    BY <1>1, <1>3, DeterminizedIsAWorld, InfoFacts DEF InfoWalkInv
  <2> HIDE DEF world, draws, path
  <2>3. PICK after : after = ismcts'
    OBVIOUS
  <2>4. /\ after \in IsmctsSessions /\ after.nodes = ismcts.nodes /\ after.root = ismcts.root
        /\ after.path = ismcts.path /\ after.iterations = ismcts.iterations
        /\ after.decision = ismcts.decision /\ after.at = "descend" /\ after.left = ismcts.left
    BY <1>1, <2>1, <2>2, <2>3 DEF IsmctsSessions
  <2>5. InfoTreeOk(after)
    BY <1>1, <2>4, SameInfoKeeps
  <2> QED
    BY <1>1, <2>3, <2>4, <2>5, InfoFacts DEF InfoInv, InfoWalkInv, InfoDecisionInv
<1> QED
  BY <1>2, <1>3

LEMMA InfoEvaluateKeeps ==
  ASSUME IsmctsInv, IsmctsEvaluate
  PROVE  InfoInv(ismcts')
BY InfoFacts, CreditKeeps DEF IsmctsEvaluate

(* A turn of the walk that leaves the tree alone. *)
LEMMA WorldMovesOn ==
  ASSUME IsmctsInv, ismcts.at \in {"descend", "simulate"}, NEW next \in Worlds,
         ismcts' = [ismcts EXCEPT !.world = next, !.depth = @ + 1, !.draws = @ + 1]
  PROVE  InfoInv(ismcts')
<1> DEFINE depth == ismcts.depth + 1
           draws == ismcts.draws + 1
<1>1. ismcts \in IsmctsSessions /\ depth \in Nat /\ draws \in Nat /\ InfoTreeOk(ismcts)
      /\ ~ismcts.decision.found /\ ismcts.left > 0 /\ IsmctsAccepts
  BY InfoFacts
<1>2. ismcts' = [ismcts EXCEPT !.world = next, !.depth = depth, !.draws = draws]
  OBVIOUS
<1> HIDE DEF depth, draws
<1>3. PICK after : after = ismcts'
  OBVIOUS
<1>4. /\ after \in IsmctsSessions /\ after.nodes = ismcts.nodes /\ after.root = ismcts.root
      /\ after.path = ismcts.path /\ after.iterations = ismcts.iterations
      /\ after.decision = ismcts.decision /\ after.at = ismcts.at /\ after.left = ismcts.left
  BY <1>1, <1>2, <1>3 DEF IsmctsSessions
<1>5. InfoTreeOk(after)
  BY <1>1, <1>4, SameInfoKeeps
<1> QED
  BY <1>1, <1>3, <1>4, <1>5 DEF InfoInv, InfoWalkInv, InfoDecisionInv

LEMMA InfoChanceKeeps ==
  ASSUME IsmctsInv, IsmctsChance
  PROVE  InfoInv(ismcts')
<1> DEFINE x == NatureSample(ismcts.world, ismcts.draws)
           next == Outcome(ismcts.world, x)
<1>1. /\ ismcts.at \in {"descend", "simulate"}
      /\ ismcts' = IF ~NatureHasSupport(ismcts.world) \/ next = Refused THEN IsmctsFail(ismcts)
                   ELSE [ismcts EXCEPT !.world = next, !.depth = @ + 1, !.draws = @ + 1]
  BY DEF IsmctsChance
<1>2. /\ problem \in Games /\ InfoTreeOk(ismcts) /\ ismcts.world \in Worlds /\ ismcts.draws \in Nat
      /\ ~ismcts.decision.found
  BY <1>1, InfoFacts
<1>3. CASE ~NatureHasSupport(ismcts.world) \/ next = Refused
  BY <1>1, <1>2, <1>3, InfoFailureKeeps
<1>4. CASE ~(~NatureHasSupport(ismcts.world) \/ next = Refused)
  <2>1. x \in Exchanges
    BY <1>2, <1>4, SampleIsSupported
  <2> HIDE DEF x
  <2>2. next \in Worlds
    BY <1>2, <1>4, <2>1, OutcomeIsTyped
  <2> HIDE DEF next
  <2>3. ismcts' = [ismcts EXCEPT !.world = next, !.depth = @ + 1, !.draws = @ + 1]
    BY <1>1, <1>4
  <2> QED  BY <1>1, <2>2, <2>3, WorldMovesOn
<1> QED
  BY <1>3, <1>4

LEMMA InfoSimulateKeeps ==
  ASSUME IsmctsInv, IsmctsSimulate
  PROVE  InfoInv(ismcts')
<1> DEFINE actions == Available(ismcts.world)
           action == RandomAction(actions, ismcts.draws)
           next == Outcome(ismcts.world, action)
<1>1. /\ ismcts.at = "simulate"
      /\ ismcts' =
           IF ~ValidActor(Information(ismcts.world).actor) THEN IsmctsFail(ismcts)
           ELSE IF actions = <<>> THEN Credit(ismcts)
           ELSE [ismcts EXCEPT !.world = next, !.depth = @ + 1, !.draws = @ + 1]
  BY DEF IsmctsSimulate
<1>2. /\ problem \in Games /\ IsmctsAccepts /\ InfoTreeOk(ismcts) /\ ismcts.world \in Worlds
      /\ ismcts.draws \in Nat /\ ~ismcts.decision.found /\ ismcts.left > 0
  BY <1>1, InfoFacts
<1>3. /\ actions \in Seq(Exchanges)
      /\ \A k \in DOMAIN actions : Outcome(ismcts.world, actions[k]) \in Worlds
  BY <1>2, InformationIsTyped
<1> HIDE DEF actions
<1>4. CASE ~ValidActor(Information(ismcts.world).actor)
  BY <1>1, <1>2, <1>4, InfoFailureKeeps
<1>5. CASE ValidActor(Information(ismcts.world).actor) /\ actions = <<>>
  BY <1>1, <1>2, <1>5, CreditKeeps
<1>6. CASE ValidActor(Information(ismcts.world).actor) /\ actions # <<>>
  <2>1. next \in Worlds
    <3>1. PICK k \in DOMAIN actions : action = actions[k]
      BY <1>2, <1>3, <1>6, RandomActionIsOne
    <3> QED  BY <1>3, <3>1
  <2> HIDE DEF action, next
  <2>2. ismcts' = [ismcts EXCEPT !.world = next, !.depth = @ + 1, !.draws = @ + 1]
    BY <1>1, <1>6
  <2> QED  BY <1>1, <2>1, <2>2, WorldMovesOn
<1> QED
  BY <1>4, <1>5, <1>6

LEMMA InfoVisitKeeps ==
  ASSUME IsmctsInv, IsmctsVisit
  PROVE  InfoInv(ismcts')
<1> DEFINE seen == Information(ismcts.world)
           actions == Available(ismcts.world)
<1>1. PICK session : session = NodeFor(ismcts, seen)
  OBVIOUS
<1>2. PICK node : node = CHOOSE i \in NodesFor(session, seen) : TRUE
  OBVIOUS
<1>3. PICK edges : edges = RegisterAvailable(session.nodes[node].edges, actions)
  OBVIOUS
<1>4. PICK told : told = [session EXCEPT !.nodes[node].edges = edges]
  OBVIOUS
<1>5. /\ ismcts.at = "descend"
      /\ ismcts' =
           IF ~ValidActor(seen.actor) THEN IsmctsFail(ismcts)
           ELSE IF actions = <<>> \/ \E step \in ToSet(ismcts.path) : step[1] = node THEN Credit(session)
           ELSE TakeEdge(told, node, actions)
  BY <1>1, <1>2, <1>3, <1>4 DEF IsmctsVisit
<1>6. /\ problem \in Games /\ IsmctsAccepts /\ InfoTreeOk(ismcts) /\ ismcts.world \in Worlds
      /\ ~ismcts.decision.found /\ ismcts.left > 0 /\ seen \in Seen
  BY <1>5, InfoFacts, InformationIsTyped
<1> HIDE DEF seen
<1>7. /\ InfoTreeOk(session) /\ SameJourney(ismcts, session)
      /\ node \in DOMAIN session.nodes /\ session.nodes[node].information = seen
  BY <1>1, <1>2, <1>6, NodeForKeeps
<1>8. /\ ~session.decision.found /\ session.left > 0 /\ session.world = ismcts.world
      /\ session.path = ismcts.path
  BY <1>6, <1>7 DEF SameJourney
<1>9. (\E step \in ToSet(ismcts.path) : step[1] = node) <=> OnPath(session.path, node)
  BY <1>8 DEF OnPath, ToSet
<1>10. CASE ~ValidActor(seen.actor)
  BY <1>5, <1>6, <1>10, InfoFailureKeeps
<1>11. CASE ValidActor(seen.actor) /\ (actions = <<>> \/ OnPath(session.path, node))
  <2>1. ismcts' = Credit(session)
    BY <1>5, <1>9, <1>11
  <2> QED  BY <1>6, <1>7, <1>8, <2>1, CreditKeeps
<1>12. CASE ValidActor(seen.actor) /\ actions # <<>> /\ ~OnPath(session.path, node)
  <2>1. ismcts' = TakeEdge(told, node, actions)
    BY <1>5, <1>9, <1>12
  <2>2. session.nodes[node].information = Information(session.world) /\ actions = Available(session.world)
    BY <1>7, <1>8 DEF seen
  <2> HIDE DEF actions
  <2> QED  BY <1>3, <1>4, <1>6, <1>7, <1>8, <1>12, <2>1, <2>2, TakeKeeps
<1> QED
  BY <1>10, <1>11, <1>12

LEMMA InfoFinishKeeps ==
  ASSUME IsmctsInv, ismcts.at = "loop", ismcts.iterations = problem.iterations, NEW r, r = IsmctsFinish
  PROVE  InfoInv(r)
<1> DEFINE edges == ismcts.nodes[1].edges
           n == Len(edges)
           D == Explored(ismcts.nodes)
           player == ismcts.root.actor + 1
           visits == [e \in D |-> edges[e].visits]
           total == [e \in D |-> edges[e].totals[player]]
           best == MostVisited(visits, total)
           x == edges[best].action
<1>1. r = IF D = {} \/ Outcome(problem.initial, x) = Refused
          THEN IsmctsFail(ismcts)
          ELSE [ismcts EXCEPT !.at = "returned", !.decision = [found |-> TRUE, action |-> x]]
  BY DEF IsmctsFinish, RootEdges, ExploredEdges, Explored
<1>2. /\ problem \in Games /\ IsmctsAccepts /\ InfoTreeOk(ismcts) /\ ~ismcts.decision.found
      /\ ismcts \in IsmctsSessions /\ ismcts.nodes \in IsTrees /\ 1 \in DOMAIN ismcts.nodes
      /\ ismcts.root = Information(problem.initial) /\ problem.initial \in Worlds
  BY InfoFacts, InfoTreeFacts, GameIsTyped
<1>3. edges \in Seq(IsEdges) /\ n \in Nat /\ DOMAIN edges = 1 .. n
  BY <1>2, InfoNodeIsTyped
<1>4. CASE D = {} \/ Outcome(problem.initial, x) = Refused
  BY <1>1, <1>2, <1>4, InfoFailureKeeps
<1>5. CASE ~(D = {} \/ Outcome(problem.initial, x) = Refused)
  <2>1. player \in 1 .. problem.players
    <3>1. problem.players \in Nat /\ ismcts.root.actor \in Nat
      BY <1>2, GameIsTyped, InformationIsTyped
    <3>2. ismcts.root.actor < problem.players
      BY <1>2 DEF IsmctsAccepts, ValidActor
    <3> QED  BY <3>1, <3>2
  <2> HIDE DEF player
  <2>2. D \in SUBSET (1 .. n)
    BY <1>3 DEF Explored
  <2>3. ASSUME NEW e \in D PROVE edges[e].visits \in Nat /\ edges[e].totals[player] \in Int
    <3>1. e \in DOMAIN edges
      BY <1>3, <2>2
    <3>2. edges[e].visits \in Nat /\ edges[e].totals \in Totals
      BY <1>3, <3>1, InfoEdgeIsTyped
    <3> QED  BY <2>1, <3>2 DEF Totals
  <2> HIDE DEF n, D
  <2>4. visits \in [D -> Nat] /\ total \in [D -> Int] /\ \A e \in D : visits[e] = edges[e].visits
    BY <2>3
  <2> HIDE DEF visits, total
  <2>5. best \in D /\ \A f \in D : visits[f] <= visits[best]
    BY <1>3, <1>5, <2>2, <2>4, MostVisitedIsOne
  <2> HIDE DEF best
  <2>6. /\ best \in DOMAIN edges /\ x \in Exchanges
        /\ \A f \in D : edges[f].visits <= edges[best].visits
    <3>1. best \in DOMAIN edges
      BY <1>3, <2>2, <2>5
    <3>2. x \in Exchanges
      BY <1>3, <3>1, InfoEdgeIsTyped
    <3> QED  BY <2>4, <2>5, <3>1, <3>2
  <2> DEFINE made == [found |-> TRUE, action |-> x]
  <2>7. made \in Decisions /\ made.found /\ made.action = edges[best].action
        /\ Outcome(problem.initial, made.action) # Refused
    BY <1>5, <2>6 DEF Decisions
  <2>8. r = [ismcts EXCEPT !.at = "returned", !.decision = made]
    BY <1>1, <1>5
  <2> HIDE DEF made, x
  <2>9. /\ r \in IsmctsSessions /\ r.nodes = ismcts.nodes /\ r.root = ismcts.root /\ r.path = ismcts.path
        /\ r.iterations = ismcts.iterations /\ r.decision = made /\ r.at = "returned"
    BY <1>2, <2>7, <2>8 DEF IsmctsSessions
  <2>10. InfoTreeOk(r)
    BY <1>2, <2>9, SameInfoKeeps
  <2>11. InfoDecisionInv(r)
    <3>1. Explored(r.nodes) = D /\ r.nodes[1].edges = edges
      BY <2>9 DEF D
    <3> QED  BY <2>5, <2>6, <2>7, <2>9, <3>1 DEF InfoDecisionInv
  <2> QED
    BY <1>2, <2>9, <2>10, <2>11, InfoFacts DEF InfoInv, InfoWalkInv
<1> QED
  BY <1>4, <1>5

LEMMA InfoReturnKeeps ==
  ASSUME IsmctsInv, IsmctsReturn
  PROVE  InfoInv(ismcts')
<1>1. ismcts.at = "loop"
  BY DEF IsmctsReturn
<1>2. CASE ismcts.iterations = problem.iterations
  <2>1. ismcts' = IsmctsFinish
    BY <1>2 DEF IsmctsReturn
  <2> QED  BY <1>1, <1>2, <2>1, InfoFinishKeeps
<1>3. CASE ismcts.iterations # problem.iterations
  <2>1. PICK after : after = ismcts'
    OBVIOUS
  <2>2. after = [ismcts EXCEPT !.at = "returned"] /\ ismcts \in IsmctsSessions
    BY <1>3, <2>1, InfoFacts DEF IsmctsReturn
  <2>3. /\ after \in IsmctsSessions /\ after.nodes = ismcts.nodes /\ after.root = ismcts.root
        /\ after.path = ismcts.path /\ after.iterations = ismcts.iterations
        /\ after.decision = ismcts.decision /\ after.at = "returned"
    BY <2>2 DEF IsmctsSessions
  <2>4. InfoTreeOk(after) /\ ~ismcts.decision.found
    BY <1>1, <2>3, InfoFacts, SameInfoKeeps
  <2> QED
    BY <1>1, <2>1, <2>3, <2>4, InfoFacts DEF InfoInv, InfoWalkInv, InfoDecisionInv
<1> QED
  BY <1>2, <1>3

-----------------------------------------------------------------------------
(* The invariant speaks of one problem, which no step changes. *)
LEMMA InfoKept ==
  ASSUME problem' = problem
  PROVE  InfoInv(ismcts)' <=> InfoInv(ismcts')
<1>1. /\ \A w, x : Outcome(w, x)' = Outcome(w, x)
      /\ \A w : Information(w)' = Information(w)
      /\ Totals' = Totals /\ Seen' = Seen
      /\ ValidConfig' <=> ValidConfig
      /\ \A actor : ValidActor(actor)' <=> ValidActor(actor)
  BY DEF Outcome, Information, Totals, Seen, ValidConfig, ValidActor
<1>2. IsmctsAccepts' <=> IsmctsAccepts
  BY <1>1 DEF IsmctsAccepts
<1>3. IsEdges' = IsEdges
  BY <1>1 DEF IsEdges
<1>4. IsTrees' = IsTrees
  BY <1>1, <1>3 DEF IsTrees, IsNodes
<1>5. IsmctsSessions' = IsmctsSessions
  BY <1>1, <1>4 DEF IsmctsSessions
<1>6. \A edge, iterations, information, taken, onPath :
        EdgeOk(edge, iterations, information, taken, onPath)' <=> EdgeOk(edge, iterations, information, taken, onPath)
  BY DEF EdgeOk
<1>7. \A nodes, path, iterations, i : NodeOk(nodes, path, iterations, i)' <=> NodeOk(nodes, path, iterations, i)
  BY <1>6 DEF NodeOk
<1>8. InfoTreeOk(ismcts)' <=> InfoTreeOk(ismcts')
  BY <1>1, <1>5, <1>7 DEF InfoTreeOk
<1>9. InfoWalkInv(ismcts)' <=> InfoWalkInv(ismcts')
  BY <1>2 DEF InfoWalkInv
<1>10. InfoDecisionInv(ismcts)' <=> InfoDecisionInv(ismcts')
  BY <1>1 DEF InfoDecisionInv
<1> QED
  BY <1>8, <1>9, <1>10 DEF InfoInv

THEOREM IsmctsInvIsInductive ==
  /\ IsmctsInit => IsmctsInv
  /\ IsmctsInv /\ [IsmctsNext]_ismctsVars => IsmctsInv'
<1>1. ASSUME IsmctsInit PROVE IsmctsInv
  BY <1>1, InfoNewKeeps DEF IsmctsInit, IsmctsInv
<1>2. ASSUME IsmctsInv, IsmctsNext PROVE IsmctsInv'
  <2>1. InfoInv(ismcts')
    <3>1. CASE \E units \in Budgets : IsmctsAdvance(units)
      BY <1>2, <3>1, InfoAdvanceKeeps
    <3>2. CASE IsmctsInterrupt
      BY <1>2, <3>2, InfoInterruptKeeps
    <3>3. CASE IsmctsStart
      BY <1>2, <3>3, InfoStartKeeps
    <3>4. CASE IsmctsEvaluate
      BY <1>2, <3>4, InfoEvaluateKeeps
    <3>5. CASE IsmctsChance
      BY <1>2, <3>5, InfoChanceKeeps
    <3>6. CASE IsmctsVisit
      BY <1>2, <3>6, InfoVisitKeeps
    <3>7. CASE IsmctsSimulate
      BY <1>2, <3>7, InfoSimulateKeeps
    <3>8. CASE IsmctsReturn
      BY <1>2, <3>8, InfoReturnKeeps
    <3> QED  BY <1>2, <3>1, <3>2, <3>3, <3>4, <3>5, <3>6, <3>7, <3>8 DEF IsmctsNext
  <2>2. problem' = problem
    BY <1>2 DEF IsmctsNext, IsmctsAdvance, IsmctsInterrupt, IsmctsStart, IsmctsEvaluate,
       IsmctsChance,
                IsmctsVisit, IsmctsSimulate, IsmctsReturn
  <2> QED  BY <1>2, <2>1, <2>2, InfoKept DEF IsmctsInv
<1>3. ASSUME IsmctsInv, UNCHANGED ismctsVars PROVE IsmctsInv'
  <2>1. problem' = problem /\ ismcts' = ismcts
    BY <1>3 DEF ismctsVars
  <2>2. InfoInv(ismcts')
    BY <1>3, <2>1 DEF IsmctsInv
  <2> QED  BY <1>3, <2>1, <2>2, InfoKept DEF IsmctsInv
<1> QED
  BY <1>1, <1>2, <1>3

(* What the sum over the edges adds up to. *)
LEMMA VisitsAreTotal ==
  ASSUME NEW edges \in Seq(IsEdges)
  PROVE  MapThenSumSet(LAMBDA e : edges[e].visits, DOMAIN edges) = Total(Visited(edges), DOMAIN edges)
<1> DEFINE S == DOMAIN edges
           F == Visited(edges)
           iter == CHOOSE g : g = [t \in SUBSET S |->
                     IF t = {} THEN 0 ELSE edges[Picked(t)].visits + g[t \ {Picked(t)}]]
<1>1. IsFiniteSet(S) /\ F \in [S -> Int]
  BY VisitedIsTyped
<1>2. \A r \in S : edges[r].visits = F[r]
  BY DEF Visited
<1>3. MapThenSumSet(LAMBDA e : edges[e].visits, S) = iter[S]
  BY DEF MapThenSumSet, MapThenFoldSet, Picked
<1> HIDE DEF S, F
<1>4. PICK g : PartialSums(g, F, S)
  BY <1>1, PartialSumsExist
<1>5. \A t \in SUBSET S : t # {} => edges[Picked(t)].visits = F[Picked(t)]
  <2> SUFFICES ASSUME NEW t \in SUBSET S, t # {}
               PROVE  edges[Picked(t)].visits = F[Picked(t)]
    OBVIOUS
  <2>1. Picked(t) \in S
    BY <1>1, Smaller
  <2> QED  BY <1>2, <2>1
<1>6. \A h : (h = [t \in SUBSET S |->
                     IF t = {} THEN 0 ELSE edges[Picked(t)].visits + h[t \ {Picked(t)}]])
             <=> PartialSums(h, F, S)
  BY <1>5 DEF PartialSums
<1>7. PartialSums(iter, F, S)
  BY <1>4, <1>6
<1> HIDE DEF iter
<1>8. iter[S] = Total(F, S)
  BY <1>1, <1>7, PartialSumsEndInTotal
<1> QED
  BY <1>3, <1>8 DEF S, F

LEMMA InformationTellsTheTruth ==
  ASSUME IsmctsInv
  PROVE  IsmctsTellsTheTruth
<1> DEFINE nodes == ismcts.nodes
<1>1. /\ InfoTreeOk(ismcts) /\ InfoDecisionInv(ismcts)
      /\ nodes \in IsTrees /\ OneNodeEach(nodes) /\ ismcts.iterations \in Nat
      /\ \A i \in DOMAIN nodes : NodeOk(nodes, ismcts.path, ismcts.iterations, i)
  BY InfoFacts, InfoTreeFacts
<1>2. InformationIsCounted
  <2>1. \A i, j \in DOMAIN nodes : nodes[i].information = nodes[j].information => i = j
    BY <1>1 DEF OneNodeEach
  <2>2. ASSUME NEW i \in DOMAIN nodes
        PROVE  LET node == nodes[i]
               IN  /\ node.visits = MapThenSumSet(LAMBDA e : node.edges[e].visits, DOMAIN node.edges)
                   /\ node.visits <= ismcts.iterations
                   /\ \A e \in DOMAIN node.edges :
                        /\ node.edges[e].visits <= node.edges[e].availability
                        /\ node.edges[e].availability <= ismcts.iterations + 1
                        /\ Contains(problem.proposals[node.information], node.edges[e].action)
    <3> DEFINE edges == nodes[i].edges
    <3>1. edges \in Seq(IsEdges)
      BY <1>1, InfoNodeIsTyped
    <3>2. MapThenSumSet(LAMBDA e : edges[e].visits, DOMAIN edges) = Total(Visited(edges), DOMAIN edges)
      BY <3>1, VisitsAreTotal
    <3>3. /\ nodes[i].visits <= ismcts.iterations
          /\ nodes[i].visits = Total(Visited(edges), DOMAIN edges)
          /\ \A e \in DOMAIN edges :
               EdgeOk(edges[e], ismcts.iterations, nodes[i].information,
                      e \in Taken(ismcts.path, i), OnPath(ismcts.path, i))
      BY <1>1 DEF NodeOk
    <3>4. ASSUME NEW e \in DOMAIN edges
          PROVE  /\ edges[e].visits <= edges[e].availability
                 /\ edges[e].availability <= ismcts.iterations + 1
                 /\ Contains(problem.proposals[nodes[i].information], edges[e].action)
      <4> HIDE DEF edges
      <4>1. edges[e].availability \in Nat
        BY <3>1, InfoEdgeIsTyped
      <4>2. /\ edges[e].visits <= edges[e].availability
            /\ \/ edges[e].availability <= ismcts.iterations
               \/ edges[e].availability <= ismcts.iterations + 1
            /\ Contains(problem.proposals[nodes[i].information], edges[e].action)
        BY <3>3 DEF EdgeOk
      <4> QED  BY <1>1, <4>1, <4>2
    <3> QED  BY <3>2, <3>3, <3>4
  <2> QED  BY <2>1, <2>2 DEF InformationIsCounted
<1>3. DecisionIsApplicable
  BY <1>1 DEF InfoDecisionInv, DecisionIsApplicable, Explored, ExploredEdges, RootEdges
<1> QED
  BY <1>2, <1>3 DEF IsmctsTellsTheTruth

(* For every game of hidden information, seed and budget, however the work  *)
(* is cut into advances, whatever world is drawn and whatever fails: nodes  *)
(* and edges were visited and offered as often as they say, nothing is on   *)
(* offer that was not proposed for what the player sees, and the decision   *)
(* is the action taken most often and one the real economy accepts.         *)
THEOREM IsmctsAlwaysTellsTheTruth == IsmctsSpec => []IsmctsTellsTheTruth
<1>1. IsmctsInit => IsmctsInv
  BY IsmctsInvIsInductive
<1>2. IsmctsInv /\ [IsmctsNext]_ismctsVars => IsmctsInv'
  BY IsmctsInvIsInductive
<1>3. IsmctsInv => IsmctsTellsTheTruth
  BY InformationTellsTheTruth
<1> QED
  BY <1>1, <1>2, <1>3, PTL DEF IsmctsSpec

-----------------------------------------------------------------------------
(* What is left of a session without the budget of the advance it is in and *)
(* without the difference between the two ends of an advance.               *)
MctsProgress(s) ==
  [s EXCEPT !.left = 0, !.idle = 0, !.at = IF @ = "returned" THEN "loop" ELSE @]

(* The one turn of the loops that follows, whoever asks for it. *)
MctsEnds(s) ==
  LET edges  == s.nodes[1].children
      chosen == MostVisited([e \in DOMAIN edges |-> s.nodes[edges[e].child].visits],
                            [e \in DOMAIN edges |-> s.nodes[edges[e].child].totals[RootPlayer + 1]])
      x      == edges[chosen].action
  IN  IF edges = <<>> \/ Outcome(problem.initial, x) = Refused THEN MctsFail(s)
      ELSE [s EXCEPT !.at = "returned", !.decision = [found |-> TRUE, action |-> x]]

Drawn(s) == [s EXCEPT !.draws = @ + 1]

MctsByNature(s, w) ==
  LET x    == NatureSample(w, s.draws)
      down == DescendOrExpand(Drawn(s), s.node, x)
  IN  IF ~NatureHasSupport(w) \/ Outcome(w, x) = Refused THEN MctsFail(s)
      ELSE IF Len(down.nodes) > Len(s.nodes) THEN MctsRollout(down)
      ELSE MctsFollow(down)

NotYetTried(s, w) ==
  LET actions == MctsActions(w)
  IN  Keeping(actions, {i \in DOMAIN actions : EdgesFor(s, s.node, actions[i]) = {}})

MctsByScore(s, here) ==
  LET player == problem.actor[here.world]
      best   == LastBest([e \in DOMAIN here.children |->
                  UctScore(s.nodes[here.children[e].child], player, here.visits)])
  IN  IF ~ValidActor(player) THEN MctsFail(s)
      ELSE MctsFollow([s EXCEPT !.node = here.children[best].child])

MctsDescends(s, here) ==
  IF MctsStuck(here.world, s.depth) THEN BackUp(s, s.path, problem.values[here.world])
  ELSE IF NatureMoves(here.world) THEN MctsByNature(s, here.world)
  ELSE IF NotYetTried(s, here.world) = <<>> THEN MctsByScore(s, here)
  ELSE MctsRollout(DescendOrExpand(Drawn(s), s.node, RandomAction(NotYetTried(s, here.world), s.draws)))

MctsSimulates(s) ==
  LET x == IF NatureMoves(s.world) THEN NatureSample(s.world, s.draws)
           ELSE RandomAction(MctsActions(s.world), s.draws)
  IN  IF MctsStuck(s.world, s.depth) THEN BackUp(s, s.path, problem.values[s.world])
      ELSE IF \/ NatureMoves(s.world) /\ ~NatureHasSupport(s.world)
              \/ Outcome(s.world, x) = Refused
      THEN MctsFail(s)
      ELSE [s EXCEPT !.world = Outcome(s.world, x), !.depth = @ + 1, !.draws = @ + 1]

MctsAfter(s) ==
  IF s.at = "failed" \/ s.decision.found THEN s
  ELSE IF s.at = "descend" THEN MctsDescends(s, s.nodes[s.node])
  ELSE IF s.at = "simulate" THEN MctsSimulates(s)
  ELSE IF s.iterations = problem.iterations THEN MctsEnds(s)
  ELSE [s EXCEPT !.at = "descend", !.node = 1, !.path = <<1>>, !.depth = 0]

MctsOn(c) == MctsProgress(MctsAfter(c))

-----------------------------------------------------------------------------
(* Sessions that differ in what is left of their advances only.             *)
MctsWhole(s) ==
  DOMAIN s = {"nodes", "transpositions", "draws", "iterations", "decision", "at", "left",
              "node", "path", "world", "depth", "idle"}

Alike(s, t) ==
  /\ MctsWhole(s) /\ MctsWhole(t)
  /\ s.nodes = t.nodes /\ s.transpositions = t.transpositions /\ s.draws = t.draws
  /\ s.iterations = t.iterations /\ s.decision = t.decision /\ s.at = t.at
  /\ s.node = t.node /\ s.path = t.path /\ s.world = t.world /\ s.depth = t.depth

LEMMA AlikeAfterFailure ==
  ASSUME NEW s, NEW t, Alike(s, t)
  PROVE  Alike(MctsFail(s), MctsFail(t)) /\ Alike(Drawn(s), Drawn(t))
  BY DEF Alike, MctsWhole, MctsFail, Drawn

LEMMA AlikeAfterBackUp ==
  ASSUME NEW s, NEW t, Alike(s, t), NEW path, NEW values
  PROVE  Alike(BackUp(s, path, values), BackUp(t, path, values))
  BY AlikeAfterFailure DEF Alike, MctsWhole, BackUp

LEMMA AlikeAfterRollout ==
  ASSUME NEW s, NEW t, Alike(s, t)
  PROVE  Alike(MctsRollout(s), MctsRollout(t))
  BY DEF Alike, MctsWhole, MctsRollout

LEMMA AlikeAfterFollow ==
  ASSUME NEW s, NEW t, Alike(s, t)
  PROVE  Alike(MctsFollow(s), MctsFollow(t))
<1>1. Alike([s EXCEPT !.path = Append(@, s.node), !.depth = @ + 1],
            [t EXCEPT !.path = Append(@, t.node), !.depth = @ + 1])
  BY DEF Alike, MctsWhole
<1>2. s.path = t.path /\ s.node = t.node /\ s.nodes = t.nodes
  BY DEF Alike
<1> QED  BY <1>1, <1>2, AlikeAfterBackUp DEF MctsFollow

LEMMA AlikeAfterDescent ==
  ASSUME NEW s, NEW t, Alike(s, t), NEW parent, NEW x
  PROVE  Alike(DescendOrExpand(s, parent, x), DescendOrExpand(t, parent, x))
<1>1. s.nodes = t.nodes /\ s.transpositions = t.transpositions
  BY DEF Alike
<1>2. EdgesFor(s, parent, x) = EdgesFor(t, parent, x) /\ ChildBy(s, parent, x) = ChildBy(t, parent, x)
  BY <1>1 DEF EdgesFor, ChildBy
<1>3. ASSUME NEW n PROVE Alike([s EXCEPT !.node = n], [t EXCEPT !.node = n])
  BY DEF Alike, MctsWhole
<1>4. ASSUME NEW n, NEW nodes
      PROVE  Alike([s EXCEPT !.nodes = nodes, !.node = n], [t EXCEPT !.nodes = nodes, !.node = n])
  BY DEF Alike, MctsWhole
<1>5. ASSUME NEW n, NEW nodes, NEW places
      PROVE  Alike([s EXCEPT !.nodes = nodes, !.node = n, !.transpositions = places],
                   [t EXCEPT !.nodes = nodes, !.node = n, !.transpositions = places])
  BY DEF Alike, MctsWhole
<1> DEFINE next   == Outcome(s.nodes[parent].world, x)
           child  == Len(s.nodes) + 1
           Joined(n) == [s.nodes EXCEPT ![parent].children = Append(@, [action |-> x, child |-> n])]
<1>6. CASE EdgesFor(s, parent, x) # {}
  BY <1>2, <1>3, <1>6 DEF DescendOrExpand
<1>7. CASE EdgesFor(s, parent, x) = {} /\ next \in DOMAIN s.transpositions
  BY <1>1, <1>2, <1>4, <1>7 DEF DescendOrExpand
<1>8. CASE EdgesFor(s, parent, x) = {} /\ next \notin DOMAIN s.transpositions
  BY <1>1, <1>2, <1>5, <1>8 DEF DescendOrExpand
<1> QED  BY <1>6, <1>7, <1>8

LEMMA AlikeAfterTurn ==
  ASSUME NEW s, NEW t, Alike(s, t)
  PROVE  Alike(MctsAfter(s), MctsAfter(t))
<1>1. /\ s.nodes = t.nodes /\ s.draws = t.draws /\ s.iterations = t.iterations
      /\ s.decision = t.decision /\ s.at = t.at /\ s.node = t.node /\ s.path = t.path
      /\ s.world = t.world /\ s.depth = t.depth
  BY DEF Alike
<1>2. Alike(MctsFail(s), MctsFail(t)) /\ Alike(Drawn(s), Drawn(t))
  BY AlikeAfterFailure
<1>3. Alike(MctsEnds(s), MctsEnds(t))
  <2>1. ASSUME NEW d PROVE Alike([s EXCEPT !.at = "returned", !.decision = d],
                                 [t EXCEPT !.at = "returned", !.decision = d])
    BY DEF Alike, MctsWhole
  <2> QED  BY <1>1, <1>2, <2>1 DEF MctsEnds
<1>4. Alike([s EXCEPT !.at = "descend", !.node = 1, !.path = <<1>>, !.depth = 0],
            [t EXCEPT !.at = "descend", !.node = 1, !.path = <<1>>, !.depth = 0])
  BY DEF Alike, MctsWhole
<1>5. Alike(MctsSimulates(s), MctsSimulates(t))
  <2>1. ASSUME NEW w PROVE Alike([s EXCEPT !.world = w, !.depth = @ + 1, !.draws = @ + 1],
                                 [t EXCEPT !.world = w, !.depth = @ + 1, !.draws = @ + 1])
    BY DEF Alike, MctsWhole
  <2>2. \A path, values : Alike(BackUp(s, path, values), BackUp(t, path, values))
    BY AlikeAfterBackUp
  <2> DEFINE X(u) == IF NatureMoves(u.world) THEN NatureSample(u.world, u.draws)
                     ELSE RandomAction(MctsActions(u.world), u.draws)
  <2>3. X(s) = X(t)
    BY <1>1
  <2>4. /\ Alike(BackUp(s, s.path, problem.values[s.world]), BackUp(t, t.path, problem.values[t.world]))
        /\ Alike([s EXCEPT !.world = Outcome(s.world, X(s)), !.depth = @ + 1, !.draws = @ + 1],
                 [t EXCEPT !.world = Outcome(t.world, X(t)), !.depth = @ + 1, !.draws = @ + 1])
    BY <1>1, <2>1, <2>2, <2>3
  <2> HIDE DEF X
  <2>5. \A u : MctsSimulates(u) =
          IF MctsStuck(u.world, u.depth) THEN BackUp(u, u.path, problem.values[u.world])
          ELSE IF \/ NatureMoves(u.world) /\ ~NatureHasSupport(u.world)
                  \/ Outcome(u.world, X(u)) = Refused
          THEN MctsFail(u)
          ELSE [u EXCEPT !.world = Outcome(u.world, X(u)), !.depth = @ + 1, !.draws = @ + 1]
    BY DEF MctsSimulates, X
  <2> QED  BY <1>1, <1>2, <2>3, <2>4, <2>5
<1>6. ASSUME NEW x PROVE
        LET down == DescendOrExpand(Drawn(s), s.node, x)
            same == DescendOrExpand(Drawn(t), t.node, x)
        IN  /\ Alike(MctsRollout(down), MctsRollout(same)) /\ Alike(MctsFollow(down), MctsFollow(same))
            /\ down.nodes = same.nodes
  <2> DEFINE down == DescendOrExpand(Drawn(s), s.node, x)
             same == DescendOrExpand(Drawn(t), t.node, x)
  <2>1. Alike(down, same)
    BY <1>1, <1>2, AlikeAfterDescent
  <2> HIDE DEF down, same
  <2>2. /\ Alike(MctsRollout(down), MctsRollout(same)) /\ Alike(MctsFollow(down), MctsFollow(same))
        /\ down.nodes = same.nodes
    BY <2>1, AlikeAfterRollout, AlikeAfterFollow DEF Alike
  <2> QED  BY <2>2 DEF down, same
<1>7. ASSUME NEW w PROVE Alike(MctsByNature(s, w), MctsByNature(t, w))
  <2> DEFINE x == NatureSample(w, s.draws)
  <2>1. x = NatureSample(w, t.draws)
    BY <1>1
  <2> HIDE DEF x
  <2> QED  BY <1>1, <1>2, <1>6, <2>1 DEF MctsByNature, x
<1>8. ASSUME NEW here PROVE Alike(MctsByScore(s, here), MctsByScore(t, here))
  <2>1. ASSUME NEW n PROVE Alike(MctsFollow([s EXCEPT !.node = n]), MctsFollow([t EXCEPT !.node = n]))
    <3>1. Alike([s EXCEPT !.node = n], [t EXCEPT !.node = n])
      BY DEF Alike, MctsWhole
    <3> QED  BY <3>1, AlikeAfterFollow
  <2> QED  BY <1>1, <1>2, <2>1 DEF MctsByScore
<1>9. ASSUME NEW here PROVE Alike(MctsDescends(s, here), MctsDescends(t, here))
  <2>1. Alike(BackUp(s, s.path, problem.values[here.world]), BackUp(t, t.path, problem.values[here.world]))
    BY <1>1, AlikeAfterBackUp
  <2>2. NotYetTried(s, here.world) = NotYetTried(t, here.world)
    BY <1>1 DEF NotYetTried, EdgesFor
  <2>3. RandomAction(NotYetTried(s, here.world), s.draws) = RandomAction(NotYetTried(t, here.world), t.draws)
    BY <1>1, <2>2
  <2> QED  BY <1>1, <1>6, <1>7, <1>8, <2>1, <2>2, <2>3 DEF MctsDescends
<1> QED  BY <1>1, <1>3, <1>4, <1>5, <1>9 DEF MctsAfter

(* What follows is determined by the progress alone. *)
LEMMA OnFromProgress ==
  ASSUME NEW s, MctsWhole(s), s.at # "returned"
  PROVE  MctsOn(MctsProgress(s)) = MctsProgress(MctsAfter(s))
<1>1. Alike(s, MctsProgress(s))
  BY DEF Alike, MctsWhole, MctsProgress
<1>2. Alike(MctsAfter(s), MctsAfter(MctsProgress(s)))
  BY <1>1, AlikeAfterTurn
<1>3. \A u, v : Alike(u, v) => MctsProgress(u) = MctsProgress(v)
  <2> SUFFICES ASSUME NEW u, NEW v, Alike(u, v) PROVE MctsProgress(u) = MctsProgress(v)
    OBVIOUS
  <2>1. \A f \in DOMAIN MctsProgress(u) : MctsProgress(u)[f] = MctsProgress(v)[f]
    BY DEF Alike, MctsWhole, MctsProgress
  <2>2. DOMAIN MctsProgress(u) = DOMAIN MctsProgress(v)
    BY DEF Alike, MctsWhole, MctsProgress
  <2> QED  BY <2>1, <2>2 DEF MctsProgress
<1> QED  BY <1>2, <1>3 DEF MctsOn

(* Every step of a session is a turn, or no progress. *)
LEMMA MctsTurns ==
  ASSUME MctsInv, MctsNext
  PROVE  /\ problem' = problem
         /\ \/ MctsProgress(mcts') = MctsProgress(mcts)
            \/ MctsProgress(mcts') = MctsOn(MctsProgress(mcts))
<1>1. /\ mcts \in MctsSessions /\ MctsWhole(mcts) /\ (mcts.decision.found => mcts.at = "returned")
      /\ problem.iterations \in Nat /\ mcts.iterations \in Nat
  <2>1. mcts \in MctsSessions /\ problem \in Games /\ DecisionInv(mcts)
    BY DEF MctsInv, SessionInv, TreeOk
  <2> QED  BY <2>1, GameAssumption DEF MctsSessions, MctsWhole, DecisionInv
<1>2. CASE \E units \in Budgets : MctsAdvance(units)
  BY <1>1, <1>2 DEF MctsAdvance, MctsProgress, MctsSessions
<1>3. CASE MctsInterrupt
  BY <1>1, <1>3 DEF MctsInterrupt, MctsMoreWork, MctsProgress, MctsSessions
<1>4. CASE MctsReturn /\ mcts.iterations # problem.iterations
  BY <1>1, <1>4 DEF MctsReturn, MctsProgress, MctsSessions
<1>5. ASSUME problem' = problem, mcts' = MctsAfter(mcts), mcts.at # "returned"
      PROVE  MctsProgress(mcts') = MctsOn(MctsProgress(mcts))
  BY <1>1, <1>5, OnFromProgress
<1>6. CASE MctsStart
  <2>1. mcts' = MctsAfter(mcts)
    BY <1>1, <1>6 DEF MctsStart, MctsMoreWork, MctsAfter
  <2> QED  BY <1>5, <1>6, <2>1 DEF MctsStart, MctsMoreWork
<1>7. CASE MctsReturn /\ mcts.iterations = problem.iterations
  <2>1. mcts' = MctsFinish
    BY <1>7 DEF MctsReturn
  <2>2. MctsFinish = MctsEnds(mcts)
    BY DEF MctsFinish, MctsEnds, BestChild, RootChild
  <2>3. mcts' = MctsAfter(mcts)
    BY <1>1, <1>7, <2>1, <2>2 DEF MctsReturn, MctsAfter
  <2> QED  BY <1>5, <1>7, <2>3 DEF MctsReturn
<1>8. ASSUME mcts.at = "descend", problem' = problem, mcts' = MctsDescends(mcts, MctsHere)
      PROVE  MctsProgress(mcts') = MctsOn(MctsProgress(mcts))
  BY <1>1, <1>5, <1>8 DEF MctsAfter, MctsHere
<1>9. CASE MctsEvaluate
  BY <1>8, <1>9 DEF MctsEvaluate, MctsDescends
<1>10. CASE MctsChance
  <2>1. mcts' = MctsByNature(mcts, MctsHere.world)
    BY <1>10 DEF MctsChance, MctsByNature, Drawn
  <2> QED  BY <1>8, <1>10, <2>1 DEF MctsChance, MctsGoing, MctsDescends
<1>11. Unexpanded = NotYetTried(mcts, MctsHere.world)
  BY DEF Unexpanded, NotYetTried
<1>12. CASE MctsExpand
  BY <1>8, <1>11, <1>12 DEF MctsExpand, MctsGoing, MctsDescends, Drawn
<1>13. CASE MctsSelect
  <2>1. mcts' = MctsByScore(mcts, MctsHere)
    BY <1>13 DEF MctsSelect, MctsByScore
  <2> QED  BY <1>8, <1>11, <1>13, <2>1 DEF MctsSelect, MctsGoing, MctsDescends
<1>14. ASSUME mcts.at = "simulate", problem' = problem, mcts' = MctsSimulates(mcts)
       PROVE  MctsProgress(mcts') = MctsOn(MctsProgress(mcts))
  BY <1>1, <1>5, <1>14 DEF MctsAfter
<1>15. CASE MctsSimulate
  <2>1. mcts' = MctsSimulates(mcts)
    BY <1>15 DEF MctsSimulate, MctsSimulates
  <2> QED  BY <1>14, <1>15, <2>1 DEF MctsSimulate
<1>16. CASE MctsSimulateEnd
  <2>1. mcts' = MctsSimulates(mcts)
    BY <1>16 DEF MctsSimulateEnd, MctsSimulates
  <2> QED  BY <1>14, <1>16, <2>1 DEF MctsSimulateEnd
<1>17. problem' = problem
  BY DEF MctsNext, MctsAdvance, MctsInterrupt, MctsStart, MctsEvaluate, MctsChance, MctsExpand,
         MctsSelect, MctsSimulate, MctsSimulateEnd, MctsReturn
<1> QED
  BY <1>2, <1>3, <1>4, <1>6, <1>7, <1>9, <1>10, <1>12, <1>13, <1>15, <1>16, <1>17 DEF MctsNext

(* The turns depend on the problem, which is never changed. *)
LEMMA MctsOnKept ==
  ASSUME problem' = problem, NEW c
  PROVE  MctsOn(c)' = MctsOn(c)
<1>1. /\ \A w, x : Outcome(w, x)' = Outcome(w, x)
      /\ \A values : ValidValues(values)' <=> ValidValues(values)
      /\ \A actor : ValidActor(actor)' <=> ValidActor(actor)
      /\ \A w : NatureMoves(w)' <=> NatureMoves(w)
      /\ \A draws, total : Ticket(draws, total)' = Ticket(draws, total)
      /\ NoValues' = NoValues /\ RootPlayer' = RootPlayer
  BY DEF Outcome, ValidValues, ValidActor, NatureMoves, Ticket, NoValues, RootPlayer
<1>2. /\ \A w, proposals : ApplicableActions(w, proposals)' = ApplicableActions(w, proposals)
      /\ \A w : NatureHasSupport(w)' <=> NatureHasSupport(w)
      /\ \A w, draws : NatureSample(w, draws)' = NatureSample(w, draws)
      /\ \A actions, draws : RandomAction(actions, draws)' = RandomAction(actions, draws)
  BY <1>1 DEF ApplicableActions, NatureHasSupport, NatureSample, RandomAction
<1>3. /\ \A w : MctsActions(w)' = MctsActions(w)
      /\ \A w : MctsNode(w)' = MctsNode(w)
      /\ \A s, path, values : BackUp(s, path, values)' = BackUp(s, path, values)
  BY <1>1, <1>2 DEF MctsActions, MctsNode, BackUp
<1>4. /\ \A w, depth : MctsStuck(w, depth)' <=> MctsStuck(w, depth)
      /\ \A s, parent, x : DescendOrExpand(s, parent, x)' = DescendOrExpand(s, parent, x)
      /\ \A s : MctsFollow(s)' = MctsFollow(s)
      /\ \A s, w : NotYetTried(s, w)' = NotYetTried(s, w)
      /\ \A s : MctsEnds(s)' = MctsEnds(s)
  <2>1. \A w, depth : MctsStuck(w, depth)' <=> MctsStuck(w, depth)
    BY <1>1, <1>3 DEF MctsStuck
  <2>2. \A s, parent, x : DescendOrExpand(s, parent, x)' = DescendOrExpand(s, parent, x)
    <3> SUFFICES ASSUME NEW s, NEW parent, NEW x
                 PROVE  DescendOrExpand(s, parent, x)' = DescendOrExpand(s, parent, x)
      OBVIOUS
    <3> DEFINE Down(next, node) ==
          LET known  == next \in DOMAIN s.transpositions
              child  == IF known THEN s.transpositions[next] ELSE Len(s.nodes) + 1
              linked == [s.nodes EXCEPT ![parent].children =
                           Append(@, [action |-> x, child |-> child])]
          IN  IF EdgesFor(s, parent, x) # {} THEN [s EXCEPT !.node = ChildBy(s, parent, x)]
              ELSE IF known THEN [s EXCEPT !.nodes = linked, !.node = child]
              ELSE [s EXCEPT !.nodes = Append(linked, node), !.node = child,
                             !.transpositions = Located(@, next, child)]
    <3>1. DescendOrExpand(s, parent, x)
            = Down(Outcome(s.nodes[parent].world, x), MctsNode(Outcome(s.nodes[parent].world, x)))
      BY DEF DescendOrExpand
    <3>2. DescendOrExpand(s, parent, x)'
            = Down(Outcome(s.nodes[parent].world, x)', MctsNode(Outcome(s.nodes[parent].world, x))')
      BY DEF DescendOrExpand
    <3>3. Outcome(s.nodes[parent].world, x)' = Outcome(s.nodes[parent].world, x)
      BY <1>1
    <3>4. MctsNode(Outcome(s.nodes[parent].world, x))' = MctsNode(Outcome(s.nodes[parent].world, x))
      <4>1. \A w : MctsNode(w)' = [world |-> w, children |-> <<>>, visits |-> 0, totals |-> NoValues']
        BY DEF MctsNode
      <4> QED  BY <1>1, <3>3, <4>1 DEF MctsNode
    <3> HIDE DEF Down
    <3> QED  BY <3>1, <3>2, <3>3, <3>4
  <2>3. \A s : MctsFollow(s)' = MctsFollow(s)
    BY <1>3 DEF MctsFollow
  <2>4. \A s, w : NotYetTried(s, w)' = NotYetTried(s, w)
    BY <1>3 DEF NotYetTried
  <2>5. \A s : MctsEnds(s)' = MctsEnds(s)
    BY <1>1 DEF MctsEnds
  <2> QED  BY <2>1, <2>2, <2>3, <2>4, <2>5
<1>5. /\ \A s, w : MctsByNature(s, w)' = MctsByNature(s, w)
      /\ \A s, here : MctsByScore(s, here)' = MctsByScore(s, here)
      /\ \A s : MctsSimulates(s)' = MctsSimulates(s)
  BY <1>1, <1>2, <1>3, <1>4 DEF MctsByNature, MctsByScore, MctsSimulates
<1>6. \A s, here : MctsDescends(s, here)' = MctsDescends(s, here)
  BY <1>1, <1>2, <1>3, <1>4, <1>5 DEF MctsDescends
<1>7. \A s : MctsAfter(s)' = MctsAfter(s)
  BY <1>4, <1>5, <1>6 DEF MctsAfter
<1> QED  BY <1>7 DEF MctsOn

MctsLeads(c, d) ==
  \A S : c \in S /\ (\A e \in S : MctsOn(e) \in S) => d \in S

LEMMA MctsLeadsOn ==
  ASSUME NEW c, NEW d
  PROVE  /\ MctsLeads(c, c)
         /\ MctsLeads(c, d) => MctsLeads(c, MctsOn(d))
         /\ MctsLeads(c, d) /\ MctsOn(d) = d => MctsLeads(MctsOn(c), d)
         /\ MctsLeads(c, d) /\ MctsOn(c) = c => d = c
<1>1. MctsLeads(c, c) /\ (MctsLeads(c, d) => MctsLeads(c, MctsOn(d)))
  BY DEF MctsLeads
<1>2. ASSUME MctsLeads(c, d), MctsOn(d) = d PROVE MctsLeads(MctsOn(c), d)
  <2> SUFFICES ASSUME NEW S, MctsOn(c) \in S, \A e \in S : MctsOn(e) \in S
               PROVE  d \in S
    BY DEF MctsLeads
  <2>1. c \in S \cup {c} /\ \A e \in S \cup {c} : MctsOn(e) \in S \cup {c}
    OBVIOUS
  <2>2. d \in S \cup {c}
    BY <1>2, <2>1 DEF MctsLeads
  <2> QED  BY <1>2, <2>2
<1>3. ASSUME MctsLeads(c, d), MctsOn(c) = c PROVE d = c
  <2>1. c \in {c} /\ \A e \in {c} : MctsOn(e) \in {c}
    BY <1>3
  <2> QED  BY <1>3, <2>1 DEF MctsLeads
<1> QED  BY <1>1, <1>2, <1>3

-----------------------------------------------------------------------------
(* What is left of an information-set search without the budget of the      *)
(* advance it is in, the difference between the two ends of an advance, the *)
(* world between two iterations, and, after the last of n iterations, what  *)
(* the real economy makes of the choice.                                    *)
OnTheWay(s) == s.at \in {"descend", "simulate"}

IsmctsProgress(n, s) ==
  [s EXCEPT !.left = 0, !.idle = 0, !.decision = Refused,
            !.world = IF OnTheWay(s) THEN @ ELSE Refused,
            !.at = IF OnTheWay(s) THEN @
                   ELSE IF s.iterations = n THEN "over"
                   ELSE IF @ = "failed" THEN @ ELSE "loop"]

(* The one turn of the loops that follows, whoever asks for it. *)
IsmctsStarts(s) ==
  LET w == problem.beliefs[1 + Ticket(s.draws, Len(problem.beliefs))]
  IN  IF problem.beliefs = <<>> \/ Information(w) # s.root THEN IsmctsFail(s)
      ELSE [s EXCEPT !.at = "descend", !.world = w, !.path = <<>>, !.depth = 0, !.draws = @ + 1]

IsmctsByNature(s) ==
  LET next == Outcome(s.world, NatureSample(s.world, s.draws))
  IN  IF ~NatureHasSupport(s.world) \/ next = Refused THEN IsmctsFail(s)
      ELSE [s EXCEPT !.world = next, !.depth = @ + 1, !.draws = @ + 1]

IsmctsVisits(s, actions) ==
  LET seen    == Information(s.world)
      session == NodeFor(s, seen)
      node    == CHOOSE i \in NodesFor(session, seen) : TRUE
      edges   == RegisterAvailable(session.nodes[node].edges, actions)
  IN  IF ~ValidActor(seen.actor) THEN IsmctsFail(s)
      ELSE IF actions = <<>> \/ \E step \in ToSet(s.path) : step[1] = node THEN Credit(session)
      ELSE TakeEdge([session EXCEPT !.nodes[node].edges = edges], node, actions)

IsmctsPlays(s, actions) ==
  IF ~ValidActor(Information(s.world).actor) THEN IsmctsFail(s)
  ELSE IF actions = <<>> THEN Credit(s)
  ELSE [s EXCEPT !.world = Outcome(@, RandomAction(actions, s.draws)),
                 !.depth = @ + 1, !.draws = @ + 1]

IsmctsAfter(s) ==
  IF s.at \in {"failed", "over"} THEN s
  ELSE IF ~OnTheWay(s) THEN IsmctsStarts(s)
  ELSE IF IsmctsEnded(s) THEN Credit(s)
  ELSE IF NatureMoves(s.world) THEN IsmctsByNature(s)
  ELSE IF s.at = "descend" THEN IsmctsVisits(s, Available(s.world))
  ELSE IsmctsPlays(s, Available(s.world))

IsmctsOn(c) == IsmctsProgress(problem.iterations, IsmctsAfter(c))

-----------------------------------------------------------------------------
InfoWhole(s) ==
  DOMAIN s = {"root", "nodes", "draws", "iterations", "decision", "at", "left", "world", "path",
              "depth", "idle"}

(* Searches that differ only in what is not part of their progress.         *)
InfoAlike(s, t) ==
  /\ InfoWhole(s) /\ InfoWhole(t)
  /\ s.root = t.root /\ s.nodes = t.nodes /\ s.draws = t.draws /\ s.iterations = t.iterations
  /\ s.at = t.at /\ s.path = t.path /\ s.depth = t.depth
  /\ OnTheWay(s) => s.world = t.world

LEMMA InfoAlikeAfterFailure ==
  ASSUME NEW s, NEW t, InfoAlike(s, t)
  PROVE  InfoAlike(IsmctsFail(s), IsmctsFail(t))
  BY DEF InfoAlike, InfoWhole, IsmctsFail, OnTheWay

LEMMA InfoAlikeAfterCredit ==
  ASSUME NEW s, NEW t, InfoAlike(s, t), OnTheWay(s)
  PROVE  InfoAlike(Credit(s), Credit(t))
<1>1. s.world = t.world /\ s.nodes = t.nodes /\ s.path = t.path
  BY DEF InfoAlike
<1>2. ASSUME NEW nodes
      PROVE  InfoAlike([s EXCEPT !.at = "loop", !.left = @ - 1, !.iterations = @ + 1, !.path = <<>>,
                                 !.nodes = nodes],
                       [t EXCEPT !.at = "loop", !.left = @ - 1, !.iterations = @ + 1, !.path = <<>>,
                                 !.nodes = nodes])
  BY DEF InfoAlike, InfoWhole, OnTheWay
<1> QED  BY <1>1, <1>2, InfoAlikeAfterFailure DEF Credit

LEMMA InfoAlikeAtNode ==
  ASSUME NEW s, NEW t, InfoAlike(s, t), NEW seen
  PROVE  /\ InfoAlike(NodeFor(s, seen), NodeFor(t, seen))
         /\ NodeFor(s, seen).at = s.at
         /\ NodesFor(NodeFor(s, seen), seen) = NodesFor(NodeFor(t, seen), seen)
<1>1. NodesFor(s, seen) = NodesFor(t, seen) /\ s.nodes = t.nodes
  BY DEF InfoAlike, NodesFor
<1>2. ASSUME NEW nodes PROVE InfoAlike([s EXCEPT !.nodes = nodes], [t EXCEPT !.nodes = nodes])
  BY DEF InfoAlike, InfoWhole, OnTheWay
<1>3. InfoAlike(NodeFor(s, seen), NodeFor(t, seen))
  BY <1>1, <1>2 DEF NodeFor
<1>4. NodeFor(s, seen).at = s.at
  BY DEF InfoAlike, InfoWhole, NodeFor
<1> QED  BY <1>3, <1>4 DEF InfoAlike, NodesFor

LEMMA InfoAlikeAfterEdge ==
  ASSUME NEW s, NEW t, InfoAlike(s, t), OnTheWay(s), NEW node, NEW actions
  PROVE  InfoAlike(TakeEdge(s, node, actions), TakeEdge(t, node, actions))
<1>1. s.world = t.world /\ s.nodes = t.nodes /\ s.draws = t.draws
  BY DEF InfoAlike
<1>2. ASSUME NEW at, NEW draws, NEW action, NEW step
      PROVE  InfoAlike([s EXCEPT !.at = at, !.draws = draws, !.world = Outcome(@, action),
                                 !.path = Append(@, step), !.depth = @ + 1],
                       [t EXCEPT !.at = at, !.draws = draws, !.world = Outcome(@, action),
                                 !.path = Append(@, step), !.depth = @ + 1])
  BY <1>1 DEF InfoAlike, InfoWhole, OnTheWay
<1> DEFINE edges     == s.nodes[node].edges
           unvisited == Keeping(actions, {i \in DOMAIN actions : edges[EdgeFor(edges, actions[i])].visits = 0})
           player    == Information(s.world).actor
           best      == LastBest([k \in DOMAIN actions |-> IsmctsScore(edges[EdgeFor(edges, actions[k])], player)])
           expanded  == unvisited # <<>>
           action    == IF expanded THEN RandomAction(unvisited, s.draws) ELSE actions[best]
           at        == IF expanded THEN "simulate" ELSE "descend"
           draws     == IF expanded THEN s.draws + 1 ELSE s.draws
           step      == <<node, EdgeFor(edges, action)>>
<1>3. TakeEdge(s, node, actions) =
        [s EXCEPT !.at = at, !.draws = draws, !.world = Outcome(@, action),
                  !.path = Append(@, step), !.depth = @ + 1]
  BY DEF TakeEdge
<1>4. /\ edges = t.nodes[node].edges
      /\ player = Information(t.world).actor
      /\ action = (IF expanded THEN RandomAction(unvisited, t.draws) ELSE actions[best])
      /\ draws = (IF expanded THEN t.draws + 1 ELSE t.draws)
  BY <1>1
<1>5. TakeEdge(t, node, actions) =
        [t EXCEPT !.at = at, !.draws = draws, !.world = Outcome(@, action),
                  !.path = Append(@, step), !.depth = @ + 1]
  BY <1>1 DEF TakeEdge
<1> HIDE DEF at, draws, action, step
<1>6. InfoAlike([s EXCEPT !.at = at, !.draws = draws, !.world = Outcome(@, action),
                          !.path = Append(@, step), !.depth = @ + 1],
                [t EXCEPT !.at = at, !.draws = draws, !.world = Outcome(@, action),
                          !.path = Append(@, step), !.depth = @ + 1])
  BY <1>2
<1> QED  BY <1>3, <1>5, <1>6

LEMMA InfoAlikeAfterTurn ==
  ASSUME NEW s, NEW t, InfoAlike(s, t)
  PROVE  InfoAlike(IsmctsAfter(s), IsmctsAfter(t))
<1>1. /\ s.root = t.root /\ s.nodes = t.nodes /\ s.draws = t.draws /\ s.iterations = t.iterations
      /\ s.at = t.at /\ s.path = t.path /\ s.depth = t.depth
      /\ OnTheWay(s) <=> OnTheWay(t)
      /\ OnTheWay(s) => s.world = t.world
  BY DEF InfoAlike, OnTheWay
<1>2. InfoAlike(IsmctsFail(s), IsmctsFail(t))
  BY InfoAlikeAfterFailure
<1>3. InfoAlike(IsmctsStarts(s), IsmctsStarts(t))
  <2>1. ASSUME NEW w PROVE InfoAlike([s EXCEPT !.at = "descend", !.world = w, !.path = <<>>, !.depth = 0, !.draws = @ + 1],
                                     [t EXCEPT !.at = "descend", !.world = w, !.path = <<>>, !.depth = 0, !.draws = @ + 1])
    BY DEF InfoAlike, InfoWhole, OnTheWay
  <2> QED  BY <1>1, <1>2, <2>1 DEF IsmctsStarts
<1>4. ASSUME OnTheWay(s) PROVE InfoAlike(Credit(s), Credit(t))
  BY <1>4, InfoAlikeAfterCredit
<1>5. ASSUME NEW w PROVE InfoAlike([s EXCEPT !.world = w, !.depth = @ + 1, !.draws = @ + 1],
                                   [t EXCEPT !.world = w, !.depth = @ + 1, !.draws = @ + 1])
  BY DEF InfoAlike, InfoWhole, OnTheWay
<1>6. ASSUME OnTheWay(s) PROVE InfoAlike(IsmctsByNature(s), IsmctsByNature(t))
  BY <1>1, <1>2, <1>5, <1>6 DEF IsmctsByNature
<1>7. ASSUME OnTheWay(s), NEW actions PROVE InfoAlike(IsmctsPlays(s, actions), IsmctsPlays(t, actions))
  <2>1. InfoAlike([s EXCEPT !.world = Outcome(@, RandomAction(actions, s.draws)), !.depth = @ + 1, !.draws = @ + 1],
                  [t EXCEPT !.world = Outcome(@, RandomAction(actions, t.draws)), !.depth = @ + 1, !.draws = @ + 1])
    BY <1>1, <1>5, <1>7
  <2> QED  BY <1>1, <1>2, <1>4, <1>7, <2>1 DEF IsmctsPlays
<1>8. ASSUME OnTheWay(s), NEW actions PROVE InfoAlike(IsmctsVisits(s, actions), IsmctsVisits(t, actions))
  <2> DEFINE seen    == Information(s.world)
             here    == NodeFor(s, seen)
             there   == NodeFor(t, seen)
             node    == CHOOSE i \in NodesFor(here, seen) : TRUE
             edges   == RegisterAvailable(here.nodes[node].edges, actions)
  <2>1. /\ InfoAlike(here, there) /\ OnTheWay(here) /\ here.nodes = there.nodes
        /\ NodesFor(here, seen) = NodesFor(there, seen)
    BY <1>1, <1>8, InfoAlikeAtNode DEF OnTheWay, InfoAlike
  <2>2. seen = Information(t.world)
    BY <1>1, <1>8
  <2> HIDE DEF seen, here, there
  <2>3. InfoAlike(Credit(here), Credit(there))
    BY <2>1, InfoAlikeAfterCredit
  <2> HIDE DEF node, edges
  <2>4. /\ InfoAlike([here EXCEPT !.nodes[node].edges = edges], [there EXCEPT !.nodes[node].edges = edges])
        /\ OnTheWay([here EXCEPT !.nodes[node].edges = edges])
    BY <2>1 DEF InfoAlike, InfoWhole, OnTheWay
  <2>5. InfoAlike(TakeEdge([here EXCEPT !.nodes[node].edges = edges], node, actions),
                  TakeEdge([there EXCEPT !.nodes[node].edges = edges], node, actions))
    BY <2>4, InfoAlikeAfterEdge
  <2>6. IsmctsVisits(s, actions) =
          IF ~ValidActor(seen.actor) THEN IsmctsFail(s)
          ELSE IF actions = <<>> \/ \E step \in ToSet(s.path) : step[1] = node THEN Credit(here)
          ELSE TakeEdge([here EXCEPT !.nodes[node].edges = edges], node, actions)
    BY DEF IsmctsVisits, seen, here, node, edges
  <2>7. /\ node = CHOOSE i \in NodesFor(there, seen) : TRUE
        /\ edges = RegisterAvailable(there.nodes[node].edges, actions)
    BY <2>1 DEF node, edges
  <2>8. IsmctsVisits(t, actions) =
          IF ~ValidActor(seen.actor) THEN IsmctsFail(t)
          ELSE IF actions = <<>> \/ \E step \in ToSet(t.path) : step[1] = node THEN Credit(there)
          ELSE TakeEdge([there EXCEPT !.nodes[node].edges = edges], node, actions)
    BY <2>2, <2>7 DEF IsmctsVisits, there
  <2> QED  BY <1>1, <1>2, <2>3, <2>5, <2>6, <2>8
<1>9. OnTheWay(s) => (IsmctsEnded(s) <=> IsmctsEnded(t))
  BY <1>1 DEF IsmctsEnded
<1> QED  BY <1>1, <1>3, <1>4, <1>6, <1>7, <1>8, <1>9 DEF IsmctsAfter

(* What follows is determined by the progress alone. *)
LEMMA IsmctsOnFromProgress ==
  ASSUME NEW s, InfoWhole(s),
         OnTheWay(s) \/ (s.at = "loop" /\ s.iterations # problem.iterations)
  PROVE  /\ IsmctsOn(IsmctsProgress(problem.iterations, s))
               = IsmctsProgress(problem.iterations, IsmctsAfter(s))
         /\ InfoWhole(IsmctsAfter(s))
<1> DEFINE n == problem.iterations
<1>1. InfoAlike(s, IsmctsProgress(n, s)) /\ InfoAlike(s, s)
  BY DEF InfoAlike, InfoWhole, IsmctsProgress, OnTheWay
<1>2. InfoAlike(IsmctsAfter(s), IsmctsAfter(IsmctsProgress(n, s))) /\ InfoWhole(IsmctsAfter(s))
  BY <1>1, InfoAlikeAfterTurn DEF InfoAlike
<1>3. \A u, v : InfoAlike(u, v) => IsmctsProgress(n, u) = IsmctsProgress(n, v)
  <2> SUFFICES ASSUME NEW u, NEW v, InfoAlike(u, v) PROVE IsmctsProgress(n, u) = IsmctsProgress(n, v)
    OBVIOUS
  <2>1. DOMAIN IsmctsProgress(n, u) = DOMAIN IsmctsProgress(n, v)
    BY DEF InfoAlike, InfoWhole, IsmctsProgress
  <2>2. \A f \in DOMAIN IsmctsProgress(n, u) : IsmctsProgress(n, u)[f] = IsmctsProgress(n, v)[f]
    BY ZenonT(30) DEF InfoAlike, InfoWhole, IsmctsProgress, OnTheWay
  <2> QED  BY <2>1, <2>2 DEF IsmctsProgress
<1> QED  BY <1>2, <1>3 DEF IsmctsOn

-----------------------------------------------------------------------------
(* The exchange that was taken most often, whatever becomes of it.          *)
IsmctsChoice(s) ==
  LET edges    == s.nodes[1].edges
      explored == {e \in DOMAIN edges : edges[e].visits > 0}
  IN  edges[MostVisited([e \in explored |-> edges[e].visits],
                        [e \in explored |-> edges[e].totals[s.root.actor + 1]])].action

(* A decision is this choice, after the last iteration, and final.          *)
IsmctsFit ==
  /\ InfoWhole(ismcts)
  /\ ismcts.decision.found =>
       /\ ismcts.at = "returned"
       /\ ismcts.iterations = problem.iterations
       /\ ismcts.decision = [found |-> TRUE, action |-> IsmctsChoice(ismcts)]

LEMMA IsmctsFitInit == ismcts = IsmctsNew => IsmctsFit
  BY DEF IsmctsNew, IsmctsFit, InfoWhole

LEMMA TurnsDecideNothing ==
  ASSUME NEW s, InfoWhole(s)
  PROVE  IsmctsAfter(s).decision = s.decision
<1>1. \A u : InfoWhole(u) => /\ IsmctsFail(u).decision = u.decision
                             /\ Credit(u).decision = u.decision
                             /\ \A seen : /\ InfoWhole(NodeFor(u, seen))
                                          /\ NodeFor(u, seen).decision = u.decision
  BY DEF IsmctsFail, Credit, NodeFor, InfoWhole
<1>2. \A u, nodes : InfoWhole(u) => /\ InfoWhole([u EXCEPT !.nodes = nodes])
                                    /\ [u EXCEPT !.nodes = nodes].decision = u.decision
  BY DEF InfoWhole
<1>3. \A u, node, actions : InfoWhole(u) => TakeEdge(u, node, actions).decision = u.decision
  BY DEF TakeEdge, InfoWhole
<1>4. \A actions : IsmctsVisits(s, actions).decision = s.decision
  <2> SUFFICES ASSUME NEW actions PROVE IsmctsVisits(s, actions).decision = s.decision
    OBVIOUS
  <2> DEFINE seen    == Information(s.world)
             session == NodeFor(s, seen)
             node    == CHOOSE i \in NodesFor(session, seen) : TRUE
             nodes   == [session.nodes EXCEPT ![node].edges = RegisterAvailable(session.nodes[node].edges, actions)]
  <2>1. /\ InfoWhole(session) /\ session.decision = s.decision
        /\ Credit(session).decision = s.decision
    BY <1>1
  <2>2. \/ IsmctsVisits(s, actions) = IsmctsFail(s)
        \/ IsmctsVisits(s, actions) = Credit(session)
        \/ IsmctsVisits(s, actions) = TakeEdge([session EXCEPT !.nodes = nodes], node, actions)
    BY DEF IsmctsVisits
  <2> HIDE DEF session, node, nodes
  <2> DEFINE offered == [session EXCEPT !.nodes = nodes]
  <2>3. InfoWhole(offered) /\ offered.decision = session.decision
    BY <1>2, <2>1
  <2> HIDE DEF offered
  <2>4. TakeEdge(offered, node, actions).decision = s.decision
    BY <1>3, <2>1, <2>3
  <2>5. IsmctsFail(s).decision = s.decision
    BY <1>1
  <2> QED  BY <2>1, <2>2, <2>4, <2>5 DEF offered
<1>5. \A actions : IsmctsPlays(s, actions).decision = s.decision
  BY <1>1 DEF IsmctsPlays, InfoWhole
<1>6. IsmctsStarts(s).decision = s.decision /\ IsmctsByNature(s).decision = s.decision
  BY <1>1 DEF IsmctsStarts, IsmctsByNature, InfoWhole
<1> QED  BY <1>1, <1>4, <1>5, <1>6 DEF IsmctsAfter

(* Every step of a search is a turn, or no progress. *)
LEMMA IsmctsTurns ==
  ASSUME IsmctsFit, problem.iterations \in Nat, problem' = problem, IsmctsNext
  PROVE  /\ IsmctsFit'
         /\ LET n == problem.iterations
            IN  \/ IsmctsProgress(n, ismcts') = IsmctsProgress(n, ismcts)
                \/ IsmctsProgress(n, ismcts') = IsmctsOn(IsmctsProgress(n, ismcts))
<1> DEFINE n == problem.iterations
           Undecided(s) == InfoWhole(s) /\ ~s.decision.found
<1>1. InfoWhole(ismcts) /\ (ismcts.decision.found => ismcts.at = "returned")
  BY DEF IsmctsFit
<1>2. ASSUME NEW s, Undecided(s), ismcts' = s PROVE IsmctsFit'
  BY <1>2 DEF IsmctsFit, InfoWhole
<1>3. CASE \E units \in Budgets : IsmctsAdvance(units)
  <2> PICK units : IsmctsAdvance(units)
    BY <1>3
  <2>1. Undecided(ismcts')
    BY <1>1 DEF IsmctsAdvance, InfoWhole
  <2>2. IsmctsProgress(n, ismcts') = IsmctsProgress(n, ismcts)
    BY <1>1 DEF IsmctsAdvance, InfoWhole, IsmctsProgress, OnTheWay
  <2> QED  BY <1>2, <2>1, <2>2
<1>4. CASE IsmctsInterrupt
  <2>1. Undecided(ismcts')
    BY <1>1, <1>4 DEF IsmctsInterrupt, IsmctsMoreWork, InfoWhole
  <2>2. IsmctsProgress(n, ismcts') = IsmctsProgress(n, ismcts)
    BY <1>1, <1>4 DEF IsmctsInterrupt, IsmctsMoreWork, InfoWhole, IsmctsProgress, OnTheWay
  <2> QED  BY <1>2, <2>1, <2>2
<1>5. CASE IsmctsReturn /\ ismcts.iterations # n
  <2>1. Undecided(ismcts')
    BY <1>1, <1>5 DEF IsmctsReturn, InfoWhole
  <2>2. IsmctsProgress(n, ismcts') = IsmctsProgress(n, ismcts)
    BY <1>1, <1>5 DEF IsmctsReturn, InfoWhole, IsmctsProgress, OnTheWay
  <2> QED  BY <1>2, <2>1, <2>2
<1>6. CASE IsmctsReturn /\ ismcts.iterations = n
  <2>1. ismcts' = IsmctsFinish /\ ismcts.at = "loop"
    BY <1>6 DEF IsmctsReturn
  <2>2. \/ ismcts' = IsmctsFail(ismcts)
        \/ ismcts' = [ismcts EXCEPT !.at = "returned",
                                   !.decision = [found |-> TRUE, action |-> IsmctsChoice(ismcts)]]
    BY <2>1 DEF IsmctsFinish, IsmctsChoice, RootEdges, ExploredEdges
  <2>3. CASE ismcts' = IsmctsFail(ismcts)
    <3>1. Undecided(ismcts')
      BY <1>1, <2>1, <2>3 DEF IsmctsFail, InfoWhole
    <3>2. IsmctsProgress(n, ismcts') = IsmctsProgress(n, ismcts)
      BY <1>1, <1>6, <2>1, <2>3 DEF IsmctsFail, InfoWhole, IsmctsProgress, OnTheWay
    <3> QED  BY <1>2, <3>1, <3>2
  <2> DEFINE decision == [found |-> TRUE, action |-> IsmctsChoice(ismcts)]
  <2>4. CASE ismcts' = [ismcts EXCEPT !.at = "returned", !.decision = decision]
    <3> HIDE DEF decision
    <3>1. /\ InfoWhole(ismcts') /\ ismcts'.at = "returned" /\ ismcts'.iterations = n
          /\ ismcts'.decision = decision /\ ismcts'.nodes = ismcts.nodes /\ ismcts'.root = ismcts.root
      BY <1>1, <1>6, <2>4 DEF InfoWhole
    <3>2. IsmctsProgress(n, ismcts') = IsmctsProgress(n, ismcts)
      BY <1>1, <1>6, <2>1, <2>4 DEF InfoWhole, IsmctsProgress, OnTheWay
    <3>3. IsmctsChoice(ismcts)' = IsmctsChoice(ismcts)
      BY <3>1 DEF IsmctsChoice
    <3>4. decision = [found |-> TRUE, action |-> IsmctsChoice(ismcts)']
      BY <3>3 DEF decision
    <3> QED  BY <3>1, <3>2, <3>4 DEF IsmctsFit
  <2> QED  BY <2>2, <2>3, <2>4
<1>7. ASSUME ismcts' = IsmctsAfter(ismcts),
             OnTheWay(ismcts) \/ (ismcts.at = "loop" /\ ismcts.iterations # n)
      PROVE  IsmctsFit' /\ IsmctsProgress(n, ismcts') = IsmctsOn(IsmctsProgress(n, ismcts))
  <2>1. InfoWhole(ismcts') /\ IsmctsProgress(n, ismcts') = IsmctsOn(IsmctsProgress(n, ismcts))
    BY <1>1, <1>7, IsmctsOnFromProgress
  <2>2. ~ismcts.decision.found /\ ismcts'.decision = ismcts.decision
    BY <1>1, <1>7, TurnsDecideNothing DEF OnTheWay
  <2> QED  BY <1>2, <2>1, <2>2
<1>8. CASE IsmctsStart
  <2>1. ismcts' = IsmctsAfter(ismcts) /\ ismcts.at = "loop" /\ ismcts.iterations # n
    BY <1>8 DEF IsmctsStart, IsmctsMoreWork, IsmctsAfter, IsmctsStarts, OnTheWay, Determinized
  <2> QED  BY <1>7, <2>1
<1>9. CASE IsmctsEvaluate
  <2>1. ismcts' = IsmctsAfter(ismcts) /\ OnTheWay(ismcts)
    BY <1>9 DEF IsmctsEvaluate, IsmctsAfter, OnTheWay
  <2> QED  BY <1>7, <2>1
<1>10. CASE IsmctsChance
  <2>1. ismcts' = IsmctsByNature(ismcts)
    BY <1>10 DEF IsmctsChance, IsmctsByNature
  <2>2. ismcts' = IsmctsAfter(ismcts) /\ OnTheWay(ismcts)
    BY <1>10, <2>1 DEF IsmctsChance, IsmctsAfter, OnTheWay
  <2> QED  BY <1>7, <2>2
<1>11. CASE IsmctsVisit
  <2>1. ismcts' = IsmctsVisits(ismcts, Available(ismcts.world))
    BY <1>11 DEF IsmctsVisit, IsmctsVisits
  <2>2. ismcts' = IsmctsAfter(ismcts) /\ OnTheWay(ismcts)
    BY <1>11, <2>1 DEF IsmctsVisit, IsmctsAfter, OnTheWay
  <2> QED  BY <1>7, <2>2
<1>12. CASE IsmctsSimulate
  <2>1. ismcts' = IsmctsPlays(ismcts, Available(ismcts.world))
    BY <1>12 DEF IsmctsSimulate, IsmctsPlays
  <2>2. ismcts' = IsmctsAfter(ismcts) /\ OnTheWay(ismcts)
    BY <1>12, <2>1 DEF IsmctsSimulate, IsmctsAfter, OnTheWay
  <2> QED  BY <1>7, <2>2
<1> QED
  BY <1>3, <1>4, <1>5, <1>6, <1>8, <1>9, <1>10, <1>11, <1>12 DEF IsmctsNext

IsmctsLeads(c, d) ==
  \A S : c \in S /\ (\A e \in S : IsmctsOn(e) \in S) => d \in S

LEMMA IsmctsLeadsOn ==
  ASSUME NEW c, NEW d
  PROVE  /\ IsmctsLeads(c, c)
         /\ IsmctsLeads(c, d) => IsmctsLeads(c, IsmctsOn(d))
         /\ IsmctsLeads(c, d) /\ IsmctsOn(d) = d => IsmctsLeads(IsmctsOn(c), d)
         /\ IsmctsLeads(c, d) /\ IsmctsOn(c) = c => d = c
<1>1. IsmctsLeads(c, c) /\ (IsmctsLeads(c, d) => IsmctsLeads(c, IsmctsOn(d)))
  BY DEF IsmctsLeads
<1>2. ASSUME IsmctsLeads(c, d), IsmctsOn(d) = d PROVE IsmctsLeads(IsmctsOn(c), d)
  <2> SUFFICES ASSUME NEW S, IsmctsOn(c) \in S, \A e \in S : IsmctsOn(e) \in S
               PROVE  d \in S
    BY DEF IsmctsLeads
  <2>1. c \in S \cup {c} /\ \A e \in S \cup {c} : IsmctsOn(e) \in S \cup {c}
    OBVIOUS
  <2>2. d \in S \cup {c}
    BY <1>2, <2>1 DEF IsmctsLeads
  <2> QED  BY <1>2, <2>2
<1>3. ASSUME IsmctsLeads(c, d), IsmctsOn(c) = c PROVE d = c
  <2>1. c \in {c} /\ \A e \in {c} : IsmctsOn(e) \in {c}
    BY <1>3
  <2> QED  BY <1>3, <2>1 DEF IsmctsLeads
<1> QED  BY <1>1, <1>2, <1>3

LEMMA MctsInvWhole == MctsInv => MctsWhole(mcts)
  BY DEF MctsInv, SessionInv, TreeOk, MctsSessions, MctsWhole

(* A session that is over stays where it is.                                *)
LEMMA MctsOverStays ==
  ASSUME NEW s, MctsWhole(s), s.at = "failed" \/ s.decision.found
  PROVE  MctsOn(MctsProgress(s)) = MctsProgress(s)
<1>1. MctsAfter(MctsProgress(s)) = MctsProgress(s)
  BY DEF MctsAfter, MctsProgress, MctsWhole
<1>2. MctsProgress(MctsProgress(s)) = MctsProgress(s)
  BY DEF MctsProgress, MctsWhole
<1> QED  BY <1>1, <1>2 DEF MctsOn

LEMMA IsmctsOverStays ==
  ASSUME NEW s, InfoWhole(s),
         s.at = "failed" \/ (s.at = "returned" /\ s.iterations = problem.iterations)
  PROVE  IsmctsOn(IsmctsProgress(problem.iterations, s)) = IsmctsProgress(problem.iterations, s)
<1> DEFINE n == problem.iterations
           p == IsmctsProgress(n, s)
<1>1. IsmctsAfter(p) = p
  BY DEF IsmctsAfter, IsmctsProgress, InfoWhole, OnTheWay
<1>2. IsmctsProgress(n, p) = p
  BY DEF IsmctsProgress, InfoWhole, OnTheWay
<1> QED  BY <1>1, <1>2 DEF IsmctsOn

(* The turns depend on the problem, which is never changed. *)
LEMMA IsmctsOnKept ==
  ASSUME problem' = problem, NEW c
  PROVE  IsmctsOn(c)' = IsmctsOn(c)
<1>1. /\ \A w, x : Outcome(w, x)' = Outcome(w, x)
      /\ \A values : ValidValues(values)' <=> ValidValues(values)
      /\ \A actor : ValidActor(actor)' <=> ValidActor(actor)
      /\ \A w : NatureMoves(w)' <=> NatureMoves(w)
      /\ \A draws, total : Ticket(draws, total)' = Ticket(draws, total)
      /\ \A w : Information(w)' = Information(w)
      /\ NoValues' = NoValues
  BY DEF Outcome, ValidValues, ValidActor, NatureMoves, Ticket, NoValues, Information
<1>2. /\ \A w, proposals : ApplicableActions(w, proposals)' = ApplicableActions(w, proposals)
      /\ \A w : NatureHasSupport(w)' <=> NatureHasSupport(w)
      /\ \A w, draws : NatureSample(w, draws)' = NatureSample(w, draws)
      /\ \A actions, draws : RandomAction(actions, draws)' = RandomAction(actions, draws)
  BY <1>1 DEF ApplicableActions, NatureHasSupport, NatureSample, RandomAction
<1>3. /\ \A w : Available(w)' = Available(w)
      /\ \A s : Credit(s)' = Credit(s)
      /\ \A s : IsmctsEnded(s)' <=> IsmctsEnded(s)
      /\ \A x : IsEdge(x)' = IsEdge(x)
  BY <1>1, <1>2 DEF Available, Credit, IsmctsEnded, IsEdge
<1>4. ASSUME NEW edges, NEW actions PROVE RegisterAvailable(edges, actions)' = RegisterAvailable(edges, actions)
  <2>1. NewEdges(edges, actions)' = NewEdges(edges, actions)
    BY <1>3 DEF NewEdges
  <2> QED  BY <2>1 DEF RegisterAvailable
<1>5. ASSUME NEW s, NEW node, NEW actions PROVE TakeEdge(s, node, actions)' = TakeEdge(s, node, actions)
  BY <1>1, <1>2 DEF TakeEdge
<1>6. ASSUME NEW s, NEW actions PROVE IsmctsVisits(s, actions)' = IsmctsVisits(s, actions)
  <2> DEFINE Session(seen) == NodeFor(s, seen)
             Node(seen)    == CHOOSE i \in NodesFor(Session(seen), seen) : TRUE
             Edges(seen)   == RegisterAvailable(Session(seen).nodes[Node(seen)].edges, actions)
             Offered(seen, edges) == [Session(seen) EXCEPT !.nodes[Node(seen)].edges = edges]
             Looping(seen) == actions = <<>> \/ \E step \in ToSet(s.path) : step[1] = Node(seen)
             Visits(seen)  == IF ~ValidActor(seen.actor) THEN IsmctsFail(s)
                              ELSE IF Looping(seen) THEN Credit(Session(seen))
                              ELSE TakeEdge(Offered(seen, Edges(seen)), Node(seen), actions)
  <2>1. /\ IsmctsVisits(s, actions) = Visits(Information(s.world))
        /\ IsmctsVisits(s, actions)' = Visits(Information(s.world))'
    BY DEF IsmctsVisits
  <2>2. \A seen : Edges(seen)' = Edges(seen)
    BY <1>4
  <2>3. ASSUME NEW seen PROVE Visits(seen)' = Visits(seen)
    <3> HIDE DEF Session, Node, Looping, Offered, Edges
    <3> QED  BY <1>1, <1>3, <1>5, <2>2
  <2> HIDE DEF Visits
  <2> QED  BY <1>1, <2>1, <2>3
<1>7. ASSUME NEW s, NEW actions PROVE IsmctsPlays(s, actions)' = IsmctsPlays(s, actions)
  BY <1>1, <1>2, <1>3 DEF IsmctsPlays
<1>8. /\ \A s : IsmctsStarts(s)' = IsmctsStarts(s)
      /\ \A s : IsmctsByNature(s)' = IsmctsByNature(s)
  BY <1>1, <1>2 DEF IsmctsStarts, IsmctsByNature
<1>9. \A s : IsmctsAfter(s)' = IsmctsAfter(s)
  BY <1>1, <1>3, <1>6, <1>7, <1>8 DEF IsmctsAfter
<1> QED  BY <1>9 DEF IsmctsOn

(* Two sessions that look alike have got equally far.                       *)
LEMMA AlikeMakesEqualProgress ==
  ASSUME NEW u, NEW v, InfoAlike(u, v), NEW n
  PROVE  IsmctsProgress(n, u) = IsmctsProgress(n, v)
<1>1. DOMAIN IsmctsProgress(n, u) = DOMAIN IsmctsProgress(n, v)
  BY DEF InfoAlike, InfoWhole, IsmctsProgress
<1>2. \A f \in DOMAIN IsmctsProgress(n, u) : IsmctsProgress(n, u)[f] = IsmctsProgress(n, v)[f]
  BY ZenonT(30) DEF InfoAlike, InfoWhole, IsmctsProgress, OnTheWay
<1> QED  BY <1>1, <1>2 DEF IsmctsProgress

=============================================================================

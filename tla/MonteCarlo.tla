------------------------------ MODULE MonteCarlo ------------------------------
(***************************************************************************)
(* Resumable evaluation of policies by repeated experiments.  Policies are  *)
(* sampled one after the other, each with the same sample indices, so that  *)
(* an experiment may use its index as the seed.  An outcome is a vector,    *)
(* whose dimensions are observed one after the other; a scalar has one.     *)
(***************************************************************************)
EXTENDS Integers, Sequences, FiniteSets

CONSTANTS
  Evaluations,  \* the evaluations callers ask for: samples, the dimensions of
                \* the statistics, and the outcome of each policy's experiments
  NotFinite,    \* a value the statistics refuse
  SampleBudgets, MaxFailures  \* bound: advances that stop before a sample

ASSUME EvaluationAssumption ==
  /\ NotFinite \notin Int
  /\ \A ev \in Evaluations :
       /\ ev.samples \in Nat
       /\ ev.dimensions \in Nat
       /\ ev.outcome \in Seq([0 .. ev.samples - 1 -> Seq(Int \cup {NotFinite})])
  /\ SampleBudgets \subseteq Nat
  /\ MaxFailures \in Nat

VARIABLES
  evaluation,
  mc    \* the session's fields, with the observations of each policy's
        \* statistics, the vectors they refused (surplus), and the advance
        \* in progress

mcVars == <<evaluation, mc>>

Contenders == DOMAIN evaluation.outcome

McInit ==
  /\ evaluation \in Evaluations
  /\ mc = [policyIndex |-> 1, sampleIndex |-> 0, completed |-> 0,
           statistics |-> [p \in Contenders |-> <<>>],
           surplus |-> [p \in Contenders |-> <<>>],
           at |-> "returned", left |-> 0, idle |-> MaxFailures]

McCompleted == mc.policyIndex \notin Contenders \/ evaluation.samples = 0

(* Advancing a completed session returns at once. *)
McAdvance(units) ==
  /\ mc.at = "returned"
  /\ ~McCompleted
  /\ units = 0 => mc.idle > 0
  /\ mc' = [mc EXCEPT !.at = "loop", !.left = units, !.idle = IF units = 0 THEN @ - 1 ELSE @]
  /\ UNCHANGED evaluation

McMoreWork == mc.at = "loop" /\ mc.left > 0 /\ mc.policyIndex \in Contenders

McInterrupt ==
  /\ McMoreWork
  /\ mc.idle > 0
  /\ mc' = [mc EXCEPT !.at = "returned", !.idle = @ - 1]
  /\ UNCHANGED evaluation

Sampled == evaluation.outcome[mc.policyIndex][mc.sampleIndex]

(* Statistics observe a vector dimension by dimension, up to the first value *)
(* that is not finite; one of another length they do not look at.           *)
Entered(vector) ==
  {d \in DOMAIN vector : /\ Len(vector) = evaluation.dimensions
                         /\ \A e \in 1 .. d : vector[e] # NotFinite}

Unfit(vector) == Len(vector) # evaluation.dimensions \/ Entered(vector) # DOMAIN vector

(* Mutant: a sample whose experiment fails is given up. *)
McExperimentSkips ==
  /\ McMoreWork
  /\ mc.idle > 0
  /\ mc' = [mc EXCEPT !.at = "returned", !.idle = @ - 1,
              !.sampleIndex = (@ + 1) % evaluation.samples,
              !.policyIndex = IF mc.sampleIndex + 1 = evaluation.samples THEN @ + 1 ELSE @]
  /\ UNCHANGED evaluation

(* The experiment returns an error: no index moves, and the same sample is  *)
(* run again by the next advance.                                           *)
McExperimentFails ==
  /\ McMoreWork
  /\ mc.idle > 0
  /\ mc' = [mc EXCEPT !.at = "returned", !.idle = @ - 1]
  /\ UNCHANGED evaluation

(* Mutant: an outcome that the statistics refuse counts as sampled. *)
McObservationSkips ==
  /\ McMoreWork
  /\ Unfit(Sampled)
  /\ mc' = [mc EXCEPT
        !.at = "returned", !.left = @ - 1,
        !.sampleIndex = (@ + 1) % evaluation.samples,
        !.policyIndex = IF mc.sampleIndex + 1 = evaluation.samples THEN @ + 1 ELSE @]
  /\ UNCHANGED evaluation

(* The experiment was run, and the statistics refuse its outcome, though    *)
(* not what they have taken of it: it may be tried again, until the caller  *)
(* drops the session.                                                       *)
McObservationFails ==
  /\ McMoreWork
  /\ Unfit(Sampled)
  /\ mc' = [mc EXCEPT
        !.at = IF mc.idle > 0 THEN "returned" ELSE "failed",
        !.idle = IF mc.idle > 0 THEN @ - 1 ELSE @,
        !.surplus[mc.policyIndex] = Append(@, Sampled)]
  /\ UNCHANGED evaluation

McSample ==
  /\ McMoreWork
  /\ ~Unfit(Sampled)
  /\ LET last == mc.sampleIndex + 1 = evaluation.samples
     IN  mc' = [mc EXCEPT
           !.left = @ - 1, !.completed = @ + 1,
           !.statistics[mc.policyIndex] = Append(@, Sampled),
           !.sampleIndex = IF last THEN 0 ELSE @ + 1,
           !.policyIndex = IF last THEN @ + 1 ELSE @]
  /\ UNCHANGED evaluation

McReturn ==
  /\ mc.at = "loop"
  /\ mc.left = 0 \/ mc.policyIndex \notin Contenders
  /\ mc' = [mc EXCEPT !.at = "returned"]
  /\ UNCHANGED evaluation

McNext ==
  \/ \E units \in SampleBudgets : McAdvance(units)
  \/ McInterrupt \/ McExperimentFails \/ McObservationFails \/ McSample
  \/ McReturn

McSpec == McInit /\ [][McNext]_mcVars

-----------------------------------------------------------------------------
(* The summary of one dimension, by how many values it has and how many of  *)
(* them are positive; `estimates` gives one of every policy at any time.    *)
Estimate(p, d) ==
  LET whole == mc.statistics[p]
      parts == {k \in DOMAIN mc.surplus[p] : d \in Entered(mc.surplus[p][k])}
  IN  [samples  |-> Len(whole) + Cardinality(parts),
       positive |-> Cardinality({i \in DOMAIN whole : whole[i][d] > 0})
                      + Cardinality({k \in parts : mc.surplus[p][k][d] > 0})]

IntoEstimates ==
  IF McCompleted THEN [p \in Contenders |-> [d \in 1 .. evaluation.dimensions |-> Estimate(p, d)]]
  ELSE <<>>

(* "Each policy with common sample indices": whatever was interrupted and   *)
(* whatever failed on the way, each policy's statistics hold the outcomes   *)
(* of samples 0, 1, 2 ... once each, policies that were finished hold all   *)
(* of them and policies not reached none.                                   *)
SamplesAreCommon ==
  /\ mc.completed = (mc.policyIndex - 1) * evaluation.samples + mc.sampleIndex
  /\ \A p \in Contenders :
       LET observed == IF p < mc.policyIndex THEN evaluation.samples
                       ELSE IF p = mc.policyIndex THEN mc.sampleIndex ELSE 0
       IN  mc.statistics[p] = [i \in 1 .. observed |-> evaluation.outcome[p][i - 1]]

(* What was taken of a vector that was refused half-way stays, once for     *)
(* each time it was tried, but nobody gets past it: only the policy under   *)
(* way can have such a surplus, of the sample it waits for and of no other. *)
SurplusIsOfTheRefused ==
  \A p \in Contenders : \A k \in DOMAIN mc.surplus[p] :
    /\ p = mc.policyIndex
    /\ Unfit(Sampled)
    /\ mc.surplus[p][k] = Sampled

(* Estimates that are handed out rank every policy on the same evidence:    *)
(* all its experiments, in all dimensions, none of them failed, and none of *)
(* them counted twice.                                                      *)
EstimatesAreComplete ==
  \A p \in DOMAIN IntoEstimates :
    LET outcomes == evaluation.outcome[p]
    IN  /\ \A i \in DOMAIN outcomes : ~Unfit(outcomes[i])
        /\ \A d \in 1 .. evaluation.dimensions :
             /\ IntoEstimates[p][d].samples = evaluation.samples
             /\ IntoEstimates[p][d].positive = Cardinality({i \in DOMAIN outcomes : outcomes[i][d] > 0})

(* Policies are compared on the same samples, and on all of them. *)
EvidenceIsCommon == SamplesAreCommon /\ SurplusIsOfTheRefused /\ EstimatesAreComplete
=============================================================================

---------------------------- MODULE KernelContract ----------------------------
(***************************************************************************)
(* What the kernel promises the caller of a whole operation, whatever an    *)
(* exchange does: every call is one step.  A trace is applied up to its     *)
(* first refused exchange when it is replayed in place, and as a whole or   *)
(* not at all when it is replayed on a branch (PDD.md:417); the caller      *)
(* hears "ok" exactly when all of it was applied; and work on a branch      *)
(* leaves the economy alone, as work on the economy leaves the branch.      *)
(***************************************************************************)
EXTENDS Naturals, Sequences

CONSTANTS
  Endowment,      \* the balances the economy is built with
  Proposals,      \* the exchanges callers propose
  Traces,         \* the traces callers replay
  Accepts(_, _),  \* whether an exchange is applicable to balances
  After(_, _)     \* the balances an exchange leaves

VARIABLES live, fork, answer

(* The balances after each exchange of a trace, one by one. *)
Along(trace, bal) ==
  LET after[k \in 0 .. Len(trace)] ==
        IF k = 0 THEN bal ELSE After(trace[k], after[k - 1])
  IN  after

(* The first n exchanges of a trace are accepted where they are applied. *)
Fits(trace, bal, n) == \A k \in 1 .. n : Accepts(trace[k], Along(trace, bal)[k - 1])

Whole(trace, bal) == Fits(trace, bal, Len(trace))

Verdict(accepted) == IF accepted THEN "ok" ELSE "refused"

Init == live = Endowment /\ fork = Endowment /\ answer = "none"

Fork == fork' = live /\ UNCHANGED <<live, answer>>

Apply(x) ==
  /\ live' = IF Accepts(x, live) THEN After(x, live) ELSE live
  /\ answer' = Verdict(Accepts(x, live))
  /\ UNCHANGED fork

ApplyToFork(x) ==
  /\ fork' = IF Accepts(x, fork) THEN After(x, fork) ELSE fork
  /\ answer' = Verdict(Accepts(x, fork))
  /\ UNCHANGED live

Simulate(x) ==
  /\ fork' = IF Accepts(x, live) THEN After(x, live) ELSE fork
  /\ answer' = Verdict(Accepts(x, live))
  /\ UNCHANGED live

Replay(trace) ==
  \E n \in 0 .. Len(trace) :
    /\ Fits(trace, live, n)
    /\ n = Len(trace) \/ ~Fits(trace, live, n + 1)
    /\ live' = Along(trace, live)[n]
    /\ answer' = Verdict(n = Len(trace))
    /\ UNCHANGED fork

Replayed(trace) ==
  /\ fork' = IF Whole(trace, live) THEN Along(trace, live)[Len(trace)] ELSE fork
  /\ answer' = Verdict(Whole(trace, live))
  /\ UNCHANGED live

Next ==
  \/ Fork
  \/ \E x \in Proposals : Apply(x) \/ ApplyToFork(x) \/ Simulate(x)
  \/ \E trace \in Traces : Replay(trace) \/ Replayed(trace)

Spec == Init /\ [][Next]_<<live, fork, answer>>
=============================================================================

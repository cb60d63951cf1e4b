--------------------------- MODULE GraphSearchProofs ---------------------------
(***************************************************************************)
(* What the searches of a graph promise: a breadth-first session, the front *)
(* of a Pareto session and the plan of an A* session, whatever the budgets  *)
(* they are advanced by and wherever they are interrupted or turned away,   *)
(* and best-first search; for every problem, heuristic and table of costs.  *)
(***************************************************************************)
EXTENDS BfsSession, AStarSession, ParetoSearch, BestFirst, FiniteSums, TLAPS

-----------------------------------------------------------------------------
(* Breadth-first search.                                                    *)

LEMMA BfsProblemType ==
  ASSUME BfsTypeOK
  PROVE  /\ problem.initial \in Worlds
         /\ problem.goals \subseteq Worlds
         /\ problem.candidates \in [Worlds -> Seq(Exchanges)]
         /\ problem.outcome \in [Worlds -> [Exchanges -> Worlds \cup {Refused}]]
  BY ProblemAssumption DEF BfsTypeOK

(* The first and the remaining elements of a sequence. *)
LEMMA BfsHeadTail ==
  ASSUME NEW S, NEW seq \in Seq(S), seq # <<>>
  PROVE  /\ Head(seq) \in S
         /\ Head(seq) = seq[1]
         /\ Tail(seq) \in Seq(S)
         /\ Len(seq) \in Nat \ {0}
         /\ Len(Tail(seq)) = Len(seq) - 1
         /\ \A i \in DOMAIN Tail(seq) : i + 1 \in DOMAIN seq /\ Tail(seq)[i] = seq[i + 1]
  OBVIOUS

LEMMA BfsAppended ==
  ASSUME NEW S, NEW seq \in Seq(S), NEW e \in S
  PROVE  /\ Append(seq, e) \in Seq(S)
         /\ Len(Append(seq, e)) = Len(seq) + 1
         /\ \A i \in DOMAIN seq : i \in DOMAIN Append(seq, e) /\ Append(seq, e)[i] = seq[i]
         /\ Append(seq, e)[Len(seq) + 1] = e
         /\ DOMAIN Append(seq, e) = DOMAIN seq \cup {Len(seq) + 1}
  OBVIOUS

-----------------------------------------------------------------------------
LEMMA ChildType ==
  ASSUME BfsTypeOK, BfsScanning, bfs.current \in DOMAIN bfs.states, BfsNextWorld # Refused
  PROVE  BfsChild \in State /\ BfsNextWorld \in Worlds
<1>1. bfs.states[bfs.current] \in State /\ Head(bfs.todo) \in Exchanges
  BY BfsHeadTail DEF BfsTypeOK, Session, BfsScanning
<1>2. BfsNextWorld \in Worlds
  BY <1>1, BfsProblemType DEF BfsNextWorld, BfsParent, Outcome, State
<1>3. Append(bfs.states[bfs.current].trace, Head(bfs.todo)) \in Seq(Exchanges)
  BY <1>1, BfsAppended DEF State
<1> QED  BY <1>2, <1>3 DEF BfsChild, BfsParent, State

LEMMA BfsTypeInit == BfsInit => BfsTypeOK
<1> SUFFICES ASSUME BfsInit PROVE BfsTypeOK
  OBVIOUS
<1>1. problem \in Problems /\ problem.initial \in Worlds
  BY ProblemAssumption DEF BfsInit
<1>2. [world |-> problem.initial, trace |-> <<>>] \in State
  BY <1>1 DEF State
<1>3. <<[world |-> problem.initial, trace |-> <<>>]>> \in Seq(State)
  BY <1>2
<1>4. MaxIdle \in Nat
  BY SearchAssumption
<1>5. [found |-> problem.initial \in problem.goals, trace |-> <<>>, expanded |-> 0] \in Solution
  <2>1. (problem.initial \in problem.goals) \in BOOLEAN
    OBVIOUS
  <2> QED  BY <2>1 DEF Solution
<1>6. <<1>> \in Seq(Nat) /\ <<>> \in Seq(Exchanges) /\ {problem.initial} \in SUBSET Worlds
  BY <1>1
<1> QED  BY <1>1, <1>3, <1>4, <1>5, <1>6 DEF BfsInit, BfsNew, BfsTypeOK, Session

LEMMA BfsTypeNext ==
  ASSUME BfsTypeOK, OverInv, ~bfs.solution.found => QueueInv, [BfsNext]_bfsVars
  PROVE  BfsTypeOK'
<1> USE DEF BfsTypeOK, Session
<1>1. CASE UNCHANGED bfsVars
  BY <1>1 DEF bfsVars
<1>2. ASSUME NEW units \in Budgets, BfsAdvance(units)
      PROVE  BfsTypeOK'
  <2>1. units \in Nat /\ (units = 0 => bfs.idle - 1 \in Nat)
    BY <1>2, SearchAssumption DEF BfsAdvance
  <2> QED  BY <1>2, <2>1 DEF BfsAdvance
<1>3. CASE BfsInterrupt
  <2>1. bfs.idle - 1 \in Nat
    BY <1>3 DEF BfsInterrupt
  <2> QED  BY <1>3, <2>1 DEF BfsInterrupt
<1>4. CASE BfsExpand
  <2>1. Head(bfs.frontier) \in Nat /\ Tail(bfs.frontier) \in Seq(Nat)
    BY <1>4, BfsHeadTail DEF BfsExpand
  <2>2. Head(bfs.frontier) \in DOMAIN bfs.states
    <3>1. QueueInv
      BY <1>4 DEF BfsExpand, OverInv
    <3>2. Head(bfs.frontier) = Opened + 1 /\ Len(bfs.frontier) \in Nat \ {0}
      BY <1>4, <3>1, BfsHeadTail DEF BfsExpand, QueueInv
    <3> QED  BY <3>1, <3>2 DEF QueueInv, Opened
  <2>3. bfs.states[Head(bfs.frontier)] \in State
    BY <2>2
  <2>5. bfs.states[Head(bfs.frontier)].world \in Worlds
    BY <2>3 DEF State
  <2>4. problem.candidates[bfs.states[Head(bfs.frontier)].world] \in Seq(Exchanges)
    BY <2>5, BfsProblemType
  <2>6. bfs.left - 1 \in Nat /\ bfs.expanded + 1 \in Nat
    BY <1>4 DEF BfsExpand
  <2> QED  BY <1>4, <2>1, <2>4, <2>6 DEF BfsExpand
<1>5. CASE BfsExpandNone
  BY <1>5 DEF BfsExpandNone
<1>6. CASE BfsSkip
  BY <1>6, BfsHeadTail DEF BfsSkip, BfsScanning
<1>7. ASSUME BfsReach \/ BfsDiscover
      PROVE  BfsTypeOK'
  <2>1. bfs.current \in DOMAIN bfs.states
    BY <1>7 DEF BfsReach, BfsDiscover, BfsScanning, OverInv, QueueInv, Opened
  <2>2. BfsChild \in State /\ BfsNextWorld \in Worlds
    BY <1>7, <2>1, ChildType DEF BfsReach, BfsDiscover
  <2>5. bfs.generated + 1 \in Nat /\ bfs.visited \cup {BfsNextWorld} \in SUBSET Worlds
    BY <2>2
  <2>3. CASE BfsReach
    <3>1. [found |-> TRUE, trace |-> BfsChild.trace, expanded |-> bfs.expanded] \in Solution
      BY <2>2 DEF State, Solution
    <3> QED  BY <2>3, <2>5, <3>1 DEF BfsReach
  <2>4. CASE BfsDiscover
    <3>1. /\ Append(bfs.states, BfsChild) \in Seq(State)
          /\ Append(bfs.frontier, Len(bfs.states) + 1) \in Seq(Nat)
          /\ Tail(bfs.todo) \in Seq(Exchanges)
      BY <2>2, <2>4, BfsAppended, BfsHeadTail DEF BfsDiscover, BfsScanning
    <3> QED  BY <2>4, <2>5, <3>1 DEF BfsDiscover
  <2> QED  BY <1>7, <2>3, <2>4
<1>8. CASE BfsScanEnd
  BY <1>8 DEF BfsScanEnd
<1>9. CASE BfsReturn
  BY <1>9 DEF BfsReturn
<1> QED  BY <1>1, <1>2, <1>3, <1>4, <1>5, <1>6, <1>7, <1>8, <1>9 DEF BfsNext

-----------------------------------------------------------------------------
(* Steps, by what they do to the retained states. *)

LEMMA BfsFrozen ==
  ASSUME BfsTypeOK, OverInv, bfs.solution.found \/ bfs.exhausted, [BfsNext]_bfsVars
  PROVE  UNCHANGED bfsVars
  BY DEF OverInv, BfsNext, BfsAdvance, BfsStatus, BfsInterrupt, BfsExpand, BfsExpandNone,
         BfsScanning, BfsSkip, BfsReach, BfsDiscover, BfsScanEnd, BfsReturn

(* The turns of the outer loop that leave the states, the frontier and the  *)
(* scan alone.                                                              *)
BfsQuiet ==
  /\ bfs.at # "scan" /\ bfs'.at # "scan"
  /\ bfs'.states = bfs.states /\ bfs'.frontier = bfs.frontier
  /\ bfs'.visited = bfs.visited /\ bfs'.solution = bfs.solution
  /\ problem' = problem

LEMMA BfsQuietSteps ==
  ASSUME BfsTypeOK,
         \/ \E units \in Budgets : BfsAdvance(units)
         \/ BfsInterrupt \/ BfsExpandNone \/ BfsReturn
  PROVE  BfsQuiet
  BY DEF BfsTypeOK, Session, BfsQuiet, BfsAdvance, BfsInterrupt, BfsExpandNone, BfsReturn

LEMMA ExpandStep ==
  ASSUME BfsTypeOK, QueueInv, BfsExpand
  PROVE  /\ bfs.at = "loop" /\ bfs'.at = "scan"
         /\ bfs'.states = bfs.states /\ bfs'.visited = bfs.visited
         /\ bfs'.solution = bfs.solution /\ problem' = problem
         /\ bfs'.frontier = Tail(bfs.frontier)
         /\ Opened' = Opened + 1 /\ Opened + 1 \in DOMAIN bfs.states
         /\ bfs'.current = Opened + 1
         /\ bfs'.todo = problem.candidates[bfs.states[Opened + 1].world]
<1> USE DEF BfsTypeOK, Session
<1>1. /\ Len(bfs.frontier) \in Nat \ {0}
      /\ Head(bfs.frontier) = Opened + 1
      /\ Len(Tail(bfs.frontier)) = Len(bfs.frontier) - 1
  BY BfsHeadTail DEF BfsExpand, QueueInv
<1>2. /\ bfs'.states = bfs.states /\ bfs'.visited = bfs.visited
      /\ bfs'.solution = bfs.solution /\ problem' = problem
      /\ bfs'.frontier = Tail(bfs.frontier)
      /\ bfs'.current = Head(bfs.frontier)
      /\ bfs'.todo = problem.candidates[bfs.states[Head(bfs.frontier)].world]
      /\ bfs.at = "loop" /\ bfs'.at = "scan"
  BY DEF BfsExpand
<1>3. Opened' = Opened + 1 /\ Opened + 1 \in DOMAIN bfs.states
  BY <1>1, <1>2 DEF QueueInv, Opened
<1> QED  BY <1>1, <1>2, <1>3

LEMMA SkipStep ==
  ASSUME BfsTypeOK, BfsSkip
  PROVE  /\ bfs.at = "scan" /\ bfs'.at = "scan" /\ bfs'.current = bfs.current
         /\ bfs'.states = bfs.states /\ bfs'.frontier = bfs.frontier
         /\ bfs'.visited = bfs.visited /\ bfs'.solution = bfs.solution
         /\ problem' = problem
         /\ bfs'.todo = Tail(bfs.todo)
  BY DEF BfsTypeOK, Session, BfsSkip, BfsScanning

LEMMA ScanEndStep ==
  ASSUME BfsTypeOK, BfsScanEnd
  PROVE  /\ bfs.at = "scan" /\ bfs'.at = "loop" /\ bfs.todo = <<>>
         /\ bfs'.states = bfs.states /\ bfs'.frontier = bfs.frontier
         /\ bfs'.visited = bfs.visited /\ bfs'.solution = bfs.solution
         /\ problem' = problem
  BY DEF BfsTypeOK, Session, BfsScanEnd

LEMMA BfsDiscoverStep ==
  ASSUME BfsTypeOK, QueueInv, BfsDiscover
  PROVE  /\ bfs.at = "scan" /\ bfs'.at = "scan" /\ bfs'.current = bfs.current
         /\ bfs'.solution = bfs.solution /\ problem' = problem
         /\ bfs'.visited = bfs.visited \cup {BfsNextWorld}
         /\ bfs'.todo = Tail(bfs.todo)
         /\ Len(bfs'.states) = Len(bfs.states) + 1
         /\ DOMAIN bfs'.states = DOMAIN bfs.states \cup {Len(bfs.states) + 1}
         /\ \A i \in DOMAIN bfs.states : bfs'.states[i] = bfs.states[i]
         /\ bfs'.states[Len(bfs.states) + 1] = BfsChild
         /\ Len(bfs'.frontier) = Len(bfs.frontier) + 1
         /\ DOMAIN bfs'.frontier = DOMAIN bfs.frontier \cup {Len(bfs.frontier) + 1}
         /\ \A i \in DOMAIN bfs.frontier : bfs'.frontier[i] = bfs.frontier[i]
         /\ bfs'.frontier[Len(bfs.frontier) + 1] = Len(bfs.states) + 1
         /\ Opened' = Opened
         /\ BfsChild \in State /\ BfsNextWorld \in Worlds
         /\ bfs.current \in DOMAIN bfs.states
<1> USE DEF BfsTypeOK, Session
<1>1. bfs.current \in DOMAIN bfs.states
  BY DEF BfsDiscover, BfsScanning, QueueInv, Opened
<1>2. BfsChild \in State /\ BfsNextWorld \in Worlds
  BY <1>1, ChildType DEF BfsDiscover
<1>3. /\ bfs.at = "scan" /\ bfs'.at = "scan" /\ bfs'.current = bfs.current
      /\ bfs'.solution = bfs.solution /\ problem' = problem
      /\ bfs'.visited = bfs.visited \cup {BfsNextWorld}
      /\ bfs'.todo = Tail(bfs.todo)
      /\ bfs'.states = Append(bfs.states, BfsChild)
      /\ bfs'.frontier = Append(bfs.frontier, Len(bfs.states) + 1)
  BY DEF BfsDiscover, BfsScanning
<1>4. Len(bfs.states) + 1 \in Nat
  OBVIOUS
<1>5. /\ Len(bfs'.states) = Len(bfs.states) + 1
      /\ DOMAIN bfs'.states = DOMAIN bfs.states \cup {Len(bfs.states) + 1}
      /\ \A i \in DOMAIN bfs.states : bfs'.states[i] = bfs.states[i]
      /\ bfs'.states[Len(bfs.states) + 1] = BfsChild
  BY <1>2, <1>3, BfsAppended
<1>6. /\ Len(bfs'.frontier) = Len(bfs.frontier) + 1
      /\ DOMAIN bfs'.frontier = DOMAIN bfs.frontier \cup {Len(bfs.frontier) + 1}
      /\ \A i \in DOMAIN bfs.frontier : bfs'.frontier[i] = bfs.frontier[i]
      /\ bfs'.frontier[Len(bfs.frontier) + 1] = Len(bfs.states) + 1
  BY <1>3, <1>4, BfsAppended
<1>7. Opened' = Opened
  BY <1>5, <1>6 DEF Opened
<1> QED  BY <1>1, <1>2, <1>3, <1>5, <1>6, <1>7

-----------------------------------------------------------------------------
(* The steps that leave the retained states as they are. *)

LEMMA TracesKept ==
  ASSUME TracesInv, bfs'.states = bfs.states, problem' = problem
  PROVE  TracesInv'
<1> SUFFICES ASSUME NEW i \in DOMAIN bfs.states
             PROVE  Replays(bfs.states[i].trace, bfs.states[i].world)'
  BY DEF TracesInv
<1>1. Replays(bfs.states[i].trace, bfs.states[i].world)
  BY DEF TracesInv
<1> QED  BY SMTT(20), <1>1 DEF Replays, Outcome

LEMMA SuccessorsKept ==
  ASSUME bfs'.states = bfs.states, problem' = problem
  PROVE  /\ \A i : Successors(bfs.states[i].world)' = Successors(bfs.states[i].world)
         /\ \A i, x : Outcome(bfs.states[i].world, x)' = Outcome(bfs.states[i].world, x)
         /\ \A w, n : Known(w, n)' = Known(w, n)
         /\ \A i : Depth(i)' = Depth(i)
  BY DEF Successors, Outcome, Known, Depth

LEMMA BfsQuietKeeps ==
  ASSUME BfsTypeOK, SearchInv, BfsQuiet
  PROVE  SearchInv'
<1> USE DEF SearchInv, BfsQuiet
<1>1. Opened' = Opened
  BY DEF Opened
<1>2. QueueInv'
  BY <1>1 DEF QueueInv
<1>3. VisitedInv'
  BY DEF VisitedInv
<1>4. TracesInv'
  BY TracesKept
<1>5. DepthInv'
  BY <1>1 DEF DepthInv, Depth
<1>6. OpenedInv'
  BY <1>1, SuccessorsKept DEF OpenedInv
<1> QED  BY <1>2, <1>3, <1>4, <1>5, <1>6

LEMMA BfsExpandKeeps ==
  ASSUME BfsTypeOK, SearchInv, BfsExpand
  PROVE  SearchInv'
<1> USE DEF SearchInv
<1> DEFINE opening == Opened + 1
<1>1. /\ bfs.at = "loop" /\ bfs'.at = "scan"
      /\ bfs'.states = bfs.states /\ bfs'.visited = bfs.visited
      /\ bfs'.solution = bfs.solution /\ problem' = problem
      /\ bfs'.frontier = Tail(bfs.frontier)
      /\ Opened' = opening /\ opening \in DOMAIN bfs.states
      /\ bfs'.current = opening
      /\ bfs'.todo = problem.candidates[bfs.states[opening].world]
  BY ExpandStep
<1>2. bfs.states \in Seq(State) /\ bfs.frontier \in Seq(Nat) /\ bfs.frontier # <<>>
  BY DEF BfsTypeOK, Session, BfsExpand
<1>3. Opened \in Nat
  BY <1>2 DEF QueueInv, Opened
<1>4. QueueInv'
  <2>1. \A i \in DOMAIN bfs'.frontier : bfs'.frontier[i] = Opened' + i
    <3> SUFFICES ASSUME NEW i \in DOMAIN Tail(bfs.frontier)
                 PROVE  Tail(bfs.frontier)[i] = opening + i
      BY <1>1
    <3>1. i + 1 \in DOMAIN bfs.frontier /\ Tail(bfs.frontier)[i] = bfs.frontier[i + 1] /\ i \in Nat
      BY <1>2, BfsHeadTail
    <3> QED  BY <1>3, <3>1 DEF QueueInv
  <2> QED  BY <1>1, <1>3, <2>1 DEF QueueInv
<1>5. VisitedInv'
  BY <1>1 DEF VisitedInv
<1>6. TracesInv'
  BY <1>1, TracesKept
<1>7. DepthInv'
  <2>1. \A i \in DOMAIN bfs.states : Depth(i) \in Nat
    BY <1>2 DEF Depth, State
  <2>2. \A i, j \in DOMAIN bfs.states : i <= j => Depth(i) <= Depth(j)
    BY DEF DepthInv
  <2>3. \A i \in DOMAIN bfs.states : Depth(i) <= Depth(opening) + 1
    <3>1. CASE Opened = 0
      BY <1>1, <1>2, <2>1, <3>1 DEF DepthInv
    <3>2. CASE Opened # 0
      <4>1. Opened \in DOMAIN bfs.states /\ Opened <= opening
        BY <1>1, <1>2, <1>3, <3>2
      <4>2. Depth(Opened) <= Depth(opening)
        BY <1>1, <2>2, <4>1
      <4>3. \A i \in DOMAIN bfs.states : Depth(i) <= Depth(Opened) + 1
        BY <3>2 DEF DepthInv
      <4> QED  BY <1>1, <2>1, <4>1, <4>2, <4>3
    <3> QED  BY <3>1, <3>2
  <2>4. opening # 0
    BY <1>3
  <2> QED  BY <1>1, <2>2, <2>3, <2>4 DEF DepthInv, Depth
<1>8. OpenedInv'
  <2> SUFFICES ASSUME NEW i \in (1 .. Opened)', NEW w \in Successors(bfs.states[i].world)',
                      ~Known(w, Depth(i) + 1)'
               PROVE  (i = bfs.current /\ \E k \in DOMAIN bfs.todo :
                           w = Outcome(bfs.states[i].world, bfs.todo[k]))'
    BY <1>1 DEF OpenedInv
  <2>1. i \in 1 .. opening /\ w \in Successors(bfs.states[i].world) /\ ~Known(w, Depth(i) + 1)
    BY <1>1, SuccessorsKept
  <2>2. i = opening
    BY <1>1, <1>3, <2>1 DEF OpenedInv
  <2>3. PICK k \in DOMAIN bfs'.todo : w = Outcome(bfs.states[i].world, bfs'.todo[k])
    BY <1>1, <2>1, <2>2 DEF Successors
  <2>4. Outcome(bfs.states[i].world, bfs.todo[k])' = Outcome(bfs.states[i].world, bfs'.todo[k])
    BY <1>1 DEF Outcome
  <2> QED  BY <1>1, <2>2, <2>3, <2>4
<1> QED  BY <1>4, <1>5, <1>6, <1>7, <1>8

(* What has been visited is retained, one step deeper than the state being  *)
(* scanned at most.                                                         *)
LEMMA VisitedIsKnown ==
  ASSUME BfsTypeOK, SearchInv, bfs.at = "scan", NEW w \in bfs.visited
  PROVE  Known(w, Depth(bfs.current) + 1)
<1>1. PICK j \in DOMAIN bfs.states : bfs.states[j].world = w
  BY DEF SearchInv, VisitedInv
<1>2. bfs.current = Opened /\ Opened # 0
  BY DEF SearchInv, QueueInv
<1>3. Depth(j) <= Depth(bfs.current) + 1
  BY <1>2 DEF SearchInv, DepthInv
<1> QED  BY <1>1, <1>3 DEF Known

LEMMA BfsSkipKeeps ==
  ASSUME BfsTypeOK, SearchInv, BfsSkip
  PROVE  SearchInv'
<1> USE DEF SearchInv
<1>1. /\ bfs.at = "scan" /\ bfs'.at = "scan" /\ bfs'.current = bfs.current
      /\ bfs'.states = bfs.states /\ bfs'.frontier = bfs.frontier
      /\ bfs'.visited = bfs.visited /\ bfs'.solution = bfs.solution
      /\ problem' = problem
      /\ bfs'.todo = Tail(bfs.todo)
  BY SkipStep
<1>2. bfs.todo \in Seq(Exchanges) /\ bfs.todo # <<>>
  BY DEF BfsTypeOK, Session, BfsSkip, BfsScanning
<1>3. Opened' = Opened
  BY <1>1 DEF Opened
<1>4. QueueInv'
  BY <1>1, <1>3 DEF QueueInv
<1>5. VisitedInv'
  BY <1>1 DEF VisitedInv
<1>6. TracesInv'
  BY <1>1, TracesKept
<1>7. DepthInv'
  BY <1>1, <1>3 DEF DepthInv, Depth
<1>8. OpenedInv'
  <2> SUFFICES ASSUME NEW i \in (1 .. Opened)', NEW w \in Successors(bfs.states[i].world)',
                      ~Known(w, Depth(i) + 1)'
               PROVE  (i = bfs.current /\ \E k \in DOMAIN bfs.todo :
                           w = Outcome(bfs.states[i].world, bfs.todo[k]))'
    BY <1>1 DEF OpenedInv
  <2>0. i \in 1 .. Opened /\ w \in Successors(bfs.states[i].world) /\ ~Known(w, Depth(i) + 1)
    BY <1>1, <1>3, SuccessorsKept
  <2>1. i = bfs.current
    BY <2>0 DEF OpenedInv
  <2>2. PICK k \in DOMAIN bfs.todo : w = Outcome(bfs.states[i].world, bfs.todo[k])
    BY <2>0 DEF OpenedInv
  <2>3. w # BfsNextWorld
    <3>1. w # Refused
      BY <2>0 DEF Successors
    <3>2. BfsNextWorld \in bfs.visited \cup {Refused}
      BY DEF BfsSkip
    <3> QED  BY <1>1, <2>0, <2>1, <3>1, <3>2, VisitedIsKnown
  <2>4. k # 1
    BY <1>2, <2>1, <2>2, <2>3, BfsHeadTail DEF BfsNextWorld, BfsParent
  <2>5. k - 1 \in DOMAIN Tail(bfs.todo) /\ Tail(bfs.todo)[k - 1] = bfs.todo[k]
    BY <1>2, <2>4
  <2>6. Outcome(bfs.states[i].world, bfs.todo[k - 1])' = Outcome(bfs.states[i].world, bfs.todo[k])
    BY <1>1, <2>5 DEF Outcome
  <2> QED  BY <1>1, <2>1, <2>2, <2>5, <2>6
<1> QED  BY <1>4, <1>5, <1>6, <1>7, <1>8

LEMMA BfsScanEndKeeps ==
  ASSUME BfsTypeOK, SearchInv, BfsScanEnd
  PROVE  SearchInv'
<1> USE DEF SearchInv
<1>1. /\ bfs.at = "scan" /\ bfs'.at = "loop" /\ bfs.todo = <<>>
      /\ bfs'.states = bfs.states /\ bfs'.frontier = bfs.frontier
      /\ bfs'.visited = bfs.visited /\ bfs'.solution = bfs.solution
      /\ problem' = problem
  BY ScanEndStep
<1>2. Opened' = Opened
  BY <1>1 DEF Opened
<1>3. QueueInv'
  BY <1>1, <1>2 DEF QueueInv
<1>4. VisitedInv'
  BY <1>1 DEF VisitedInv
<1>5. TracesInv'
  BY <1>1, TracesKept
<1>6. DepthInv'
  BY <1>1, <1>2 DEF DepthInv, Depth
<1>7. OpenedInv'
  BY <1>1, <1>2, SuccessorsKept DEF OpenedInv
<1> QED  BY <1>3, <1>4, <1>5, <1>6, <1>7

-----------------------------------------------------------------------------
(* A trace that leads to a world leads, with one more exchange that the     *)
(* kernel accepts, to the outcome.                                          *)
LEMMA BfsLongerTrace ==
  ASSUME NEW trace \in Seq(Exchanges), NEW w, NEW x \in Exchanges,
         Replays(trace, w), Outcome(w, x) \in Worlds
  PROVE  Replays(Append(trace, x), Outcome(w, x))
<1>1. PICK path \in [0 .. Len(trace) -> Worlds] :
        /\ path[0] = problem.initial
        /\ path[Len(trace)] = w
        /\ \A i \in 1 .. Len(trace) : path[i] = Outcome(path[i - 1], trace[i])
  BY DEF Replays
<1> DEFINE longer == Append(trace, x)
           further == [i \in 0 .. Len(longer) |-> IF i <= Len(trace) THEN path[i] ELSE Outcome(w, x)]
<1>2. /\ Len(longer) = Len(trace) + 1 /\ Len(trace) \in Nat
      /\ longer[Len(trace) + 1] = x
      /\ \A i \in 1 .. Len(trace) : longer[i] = trace[i]
  BY BfsAppended
<1>3. further \in [0 .. Len(longer) -> Worlds]
  BY <1>2
<1>4. further[0] = problem.initial /\ further[Len(longer)] = Outcome(w, x)
  BY <1>1, <1>2
<1>5. \A i \in 1 .. Len(longer) : further[i] = Outcome(further[i - 1], longer[i])
  <2> SUFFICES ASSUME NEW i \in 1 .. Len(longer)
               PROVE  further[i] = Outcome(further[i - 1], longer[i])
    OBVIOUS
  <2>1. CASE i \in 1 .. Len(trace)
    <3>1. further[i] = path[i] /\ further[i - 1] = path[i - 1] /\ longer[i] = trace[i]
      BY <1>2, <2>1
    <3> QED  BY <1>1, <2>1, <3>1
  <2>2. CASE i = Len(trace) + 1
    <3>1. further[i] = Outcome(w, x) /\ further[i - 1] = path[Len(trace)] /\ longer[i] = x
      BY <1>2, <2>2
    <3> QED  BY <1>1, <3>1
  <2> QED  BY <1>2, <2>1, <2>2
<1> HIDE DEF longer, further
<1>6. Replays(longer, Outcome(w, x))
  BY <1>3, <1>4, <1>5 DEF Replays
<1> QED  BY <1>6 DEF longer

LEMMA ChildReplays ==
  ASSUME BfsTypeOK, SearchInv, BfsScanning, BfsNextWorld # Refused
  PROVE  /\ Replays(BfsChild.trace, BfsNextWorld)
         /\ BfsChild.world = BfsNextWorld
         /\ Len(BfsChild.trace) = Depth(bfs.current) + 1
         /\ BfsChild.trace \in Seq(Exchanges)
<1>1. bfs.current \in DOMAIN bfs.states
  BY DEF BfsTypeOK, Session, BfsScanning, SearchInv, QueueInv, Opened
<1>2. bfs.states[bfs.current] \in State /\ Head(bfs.todo) \in Exchanges
  BY <1>1, BfsHeadTail DEF BfsTypeOK, Session, BfsScanning
<1>3. BfsChild \in State /\ BfsNextWorld \in Worlds
  BY <1>1, ChildType
<1>4. Replays(bfs.states[bfs.current].trace, bfs.states[bfs.current].world)
  BY <1>1 DEF SearchInv, TracesInv
<1>5. bfs.states[bfs.current].trace \in Seq(Exchanges)
  BY <1>2 DEF State
<1>6. Replays(Append(bfs.states[bfs.current].trace, Head(bfs.todo)),
              Outcome(bfs.states[bfs.current].world, Head(bfs.todo)))
  BY <1>2, <1>3, <1>4, <1>5, BfsLongerTrace DEF BfsNextWorld, BfsParent
<1>7. BfsChild.world = BfsNextWorld
      /\ BfsChild.trace = Append(bfs.states[bfs.current].trace, Head(bfs.todo))
  BY DEF BfsChild, BfsParent
<1>8. Len(BfsChild.trace) = Len(bfs.states[bfs.current].trace) + 1
  BY <1>2, <1>5, <1>7, BfsAppended
<1>9. BfsNextWorld = Outcome(bfs.states[bfs.current].world, Head(bfs.todo))
  BY DEF BfsNextWorld, BfsParent
<1> QED  BY <1>3, <1>6, <1>7, <1>8, <1>9 DEF Depth, State

LEMMA BfsDiscoverKeeps ==
  ASSUME BfsTypeOK, SearchInv, BfsDiscover
  PROVE  SearchInv'
<1> USE DEF SearchInv
<1>a. PICK new \in Nat : new = Len(bfs.states) + 1
  BY DEF BfsTypeOK, Session
<1>b. PICK last \in Nat : last = Len(bfs.frontier) + 1
  BY DEF BfsTypeOK, Session
<1>1. /\ bfs.at = "scan" /\ bfs'.at = "scan" /\ bfs'.current = bfs.current
      /\ bfs'.solution = bfs.solution /\ problem' = problem
      /\ bfs'.visited = bfs.visited \cup {BfsNextWorld}
      /\ bfs'.todo = Tail(bfs.todo)
      /\ Len(bfs'.states) = new
      /\ DOMAIN bfs'.states = DOMAIN bfs.states \cup {new}
      /\ \A i \in DOMAIN bfs.states : bfs'.states[i] = bfs.states[i]
      /\ bfs'.states[new] = BfsChild
      /\ Len(bfs'.frontier) = last
      /\ DOMAIN bfs'.frontier = DOMAIN bfs.frontier \cup {last}
      /\ \A i \in DOMAIN bfs.frontier : bfs'.frontier[i] = bfs.frontier[i]
      /\ bfs'.frontier[last] = new
      /\ Opened' = Opened
      /\ BfsChild \in State /\ BfsNextWorld \in Worlds
      /\ bfs.current \in DOMAIN bfs.states
  BY <1>a, <1>b, BfsDiscoverStep
<1>2. /\ bfs.states \in Seq(State) /\ bfs.frontier \in Seq(Nat)
      /\ bfs.todo \in Seq(Exchanges) /\ bfs.todo # <<>>
      /\ BfsScanning /\ BfsNextWorld # Refused
      /\ BfsNextWorld \notin bfs.visited \cup problem.goals
  BY DEF BfsTypeOK, Session, BfsDiscover, BfsScanning
<1>3. /\ Replays(BfsChild.trace, BfsNextWorld)
      /\ BfsChild.world = BfsNextWorld
      /\ Len(BfsChild.trace) = Depth(bfs.current) + 1
  BY <1>2, ChildReplays
<1>4. QueueInv'
  <2>0. Len(bfs.states) \in Nat /\ Len(bfs.frontier) \in Nat
    BY <1>2
  <2>1. new = Opened + last
    <3>1. \A many, queued \in Nat : many + 1 = (many - queued) + (queued + 1)
      OBVIOUS
    <3>2. Opened = Len(bfs.states) - Len(bfs.frontier)
      BY Zenon DEF Opened
    <3> QED  BY <1>a, <1>b, <2>0, <3>1, <3>2, Zenon
  <2>2. \A i \in DOMAIN bfs'.frontier : bfs'.frontier[i] = Opened + i
    BY <1>1, <2>1 DEF QueueInv
  <2> QED  BY <1>1, <2>2 DEF QueueInv
<1>5. VisitedInv'
  <2>1. \A i \in DOMAIN bfs.states : bfs.states[i].world # BfsNextWorld
    BY <1>2 DEF VisitedInv
  <2>2. bfs'.states[1] = bfs.states[1] /\ new >= 1
    BY <1>a, <1>1, <1>2 DEF VisitedInv
  <2>3. \A i, j \in DOMAIN bfs'.states :
          bfs'.states[i].world = bfs'.states[j].world => i = j
    BY <1>1, <1>3, <2>1 DEF VisitedInv
  <2>4. bfs'.visited = {bfs'.states[i].world : i \in DOMAIN bfs'.states}
    BY <1>1, <1>3 DEF VisitedInv
  <2>5. bfs'.visited \cap problem.goals = {}
    BY <1>1, <1>2 DEF VisitedInv
  <2> QED  BY <1>1, <2>2, <2>3, <2>4, <2>5 DEF VisitedInv
<1>6. TracesInv'
  <2> SUFFICES ASSUME NEW i \in DOMAIN bfs'.states
               PROVE  Replays(bfs.states[i].trace, bfs.states[i].world)'
    BY DEF TracesInv
  <2> PICK trace, world : trace = bfs'.states[i].trace /\ world = bfs'.states[i].world
    OBVIOUS
  <2>1. Replays(trace, world)
    BY <1>1, <1>3 DEF TracesInv
  <2>2. Replays(trace, world)'
    BY <1>1, <2>1 DEF Replays, Outcome
  <2> QED  BY <2>2 DEF Replays, Outcome
<1>7. \A i \in DOMAIN bfs.states : Depth(i)' = Depth(i) /\ Depth(i) \in Nat
  <2> SUFFICES ASSUME NEW i \in DOMAIN bfs.states
               PROVE  Depth(i)' = Depth(i) /\ Depth(i) \in Nat
    OBVIOUS
  <2>1. bfs'.states[i] = bfs.states[i]
    BY <1>1
  <2>2. bfs.states[i] \in State
    BY <1>2
  <2>3. bfs.states[i].trace \in Seq(Exchanges)
    BY <2>2 DEF State
  <2> QED  BY <2>1, <2>3 DEF Depth
<1>8. Depth(new)' = Depth(bfs.current) + 1
  BY <1>1, <1>3 DEF Depth
<1>9. bfs.current = Opened /\ Opened >= 1 /\ Opened \in DOMAIN bfs.states
  BY <1>1 DEF QueueInv
<1>10. \A i \in DOMAIN bfs.states : Depth(i) <= Depth(Opened) + 1
  BY <1>9 DEF DepthInv
<1>11. DepthInv'
  <2> PICK top : top = Opened
    OBVIOUS
  <2>1. \A i, j \in DOMAIN bfs.states : i <= j => Depth(i)' <= Depth(j)'
    BY <1>7 DEF DepthInv
  <2>2. \A i \in DOMAIN bfs.states : Depth(i)' <= Depth(new)' /\ ~(new <= i)
    BY <1>a, <1>2, <1>7, <1>8, <1>9, <1>10
  <2>3. Depth(new)' \in Nat
    BY <1>7, <1>8, <1>9
  <2>4. \A i, j \in DOMAIN bfs'.states : i <= j => Depth(i)' <= Depth(j)'
    BY <1>1, <2>1, <2>2, <2>3
  <2>5. \A i \in DOMAIN bfs'.states : Depth(i)' <= Depth(top)' + 1
    BY <1>1, <1>7, <1>8, <1>9, <1>10, <2>3
  <2>6. Opened' = top /\ top # 0
    BY <1>1, <1>9
  <2> QED  BY <1>1, <2>4, <2>5, <2>6 DEF DepthInv, Depth
<1>12. OpenedInv'
  <2> SUFFICES ASSUME NEW i \in (1 .. Opened)', NEW w \in Successors(bfs.states[i].world)',
                      ~Known(w, Depth(i) + 1)'
               PROVE  (i = bfs.current /\ \E k \in DOMAIN bfs.todo :
                           w = Outcome(bfs.states[i].world, bfs.todo[k]))'
    BY <1>1 DEF OpenedInv
  <2>1. i \in DOMAIN bfs.states /\ i \in 1 .. Opened
    BY <1>1, <1>2, <1>9
  <2>2. w \in Successors(bfs.states[i].world)
    BY SMTT(20), <1>1, <2>1 DEF Successors, Outcome
  <2>3. Depth(i)' = Depth(i)
    BY <1>7, <2>1
  <2>4. CASE Known(w, Depth(i) + 1)
    <3>1. PICK j \in DOMAIN bfs.states : bfs.states[j].world = w /\ Depth(j) <= Depth(i) + 1
      BY <2>4 DEF Known
    <3>2. j \in DOMAIN bfs'.states /\ bfs'.states[j].world = w /\ Depth(j)' <= Depth(i)' + 1
      BY <1>1, <1>7, <2>3, <3>1
    <3> QED  BY <3>2 DEF Known
  <2>5. ASSUME i = bfs.current,
               NEW k \in DOMAIN bfs.todo, w = Outcome(bfs.states[i].world, bfs.todo[k])
        PROVE  \/ Known(w, Depth(i) + 1)'
               \/ (\E m \in DOMAIN bfs.todo : w = Outcome(bfs.states[i].world, bfs.todo[m]))'
    <3>1. CASE k = 1
      <4>1. w = BfsNextWorld
        BY <1>2, <2>5, <3>1, BfsHeadTail DEF BfsNextWorld, BfsParent
      <4>2. new \in DOMAIN bfs'.states /\ bfs'.states[new].world = w
        BY <1>1, <1>3, <4>1
      <4>3. Depth(new)' <= Depth(i)' + 1
        BY <1>7, <1>8, <2>1, <2>3, <2>5
      <4> QED  BY <4>2, <4>3 DEF Known
    <3>2. CASE k # 1
      <4>1. k - 1 \in DOMAIN bfs'.todo /\ bfs'.todo[k - 1] = bfs.todo[k]
        BY SMTT(20), <1>1, <1>2, <3>2
      <4>2. bfs'.states[i] = bfs.states[i] /\ problem' = problem
        BY <1>1, <2>1
      <4>3. Outcome(bfs.states[i].world, bfs.todo[k - 1])' = Outcome(bfs.states[i].world, bfs.todo[k])
        BY <4>1, <4>2 DEF Outcome
      <4> QED  BY <2>5, <4>1, <4>3
    <3> QED  BY <3>1, <3>2
  <2> QED  BY <1>1, <2>1, <2>2, <2>4, <2>5 DEF OpenedInv
<1> QED  BY <1>4, <1>5, <1>6, <1>11, <1>12

-----------------------------------------------------------------------------
(* The step that finds a goal. *)

LEMMA SuccessorsType ==
  ASSUME BfsTypeOK, NEW w \in Worlds
  PROVE  Successors(w) \subseteq Worlds
<1> SUFFICES ASSUME NEW i \in DOMAIN problem.candidates[w],
                    Outcome(w, problem.candidates[w][i]) # Refused
             PROVE  Outcome(w, problem.candidates[w][i]) \in Worlds
  BY DEF Successors
<1>1. problem.candidates[w] \in Seq(Exchanges)
  BY BfsProblemType
<1>2. problem.candidates[w][i] \in Exchanges
  BY <1>1
<1> QED  BY <1>2, BfsProblemType DEF Outcome

(* The depth of the retained worlds, and for all others the depth of the    *)
(* goal about to be reached, measures how near a world can be.              *)
LEMMA NothingNearer ==
  ASSUME BfsTypeOK, SearchInv, bfs.at = "scan"
  PROVE  NoneNearer(problem.goals, Depth(bfs.current) + 1)
<1> USE DEF SearchInv
<1> DEFINE n == Depth(bfs.current) + 1
           index(w) == CHOOSE i \in DOMAIN bfs.states : bfs.states[i].world = w
           distance == [w \in Worlds |-> IF w \in bfs.visited THEN Depth(index(w)) ELSE n]
<1>1. /\ bfs.states \in Seq(State)
      /\ \A i \in DOMAIN bfs.states : bfs.states[i].world \in Worlds /\ Depth(i) \in Nat
  <2>1. bfs.states \in Seq(State)
    BY DEF BfsTypeOK, Session
  <2>2. \A i \in DOMAIN bfs.states : bfs.states[i] \in State
    BY <2>1
  <2> QED  BY <2>1, <2>2 DEF State, Depth
<1>2. bfs.current = Opened /\ Opened # 0 /\ Opened \in DOMAIN bfs.states /\ Opened \in Nat
  BY DEF BfsTypeOK, Session, QueueInv, Opened
<1>3. n \in Nat /\ \A i \in DOMAIN bfs.states : Depth(i) <= n
  BY <1>1, <1>2 DEF DepthInv
<1>4. \A i \in DOMAIN bfs.states :
        bfs.states[i].world \in bfs.visited /\ index(bfs.states[i].world) = i
  BY DEF VisitedInv
<1>5. \A w \in bfs.visited : \E i \in DOMAIN bfs.states : w = bfs.states[i].world
  BY DEF VisitedInv
<1>6. \A i \in DOMAIN bfs.states : distance[bfs.states[i].world] = Depth(i)
  BY <1>1, <1>4
<1>7. \A w \in Worlds : w \notin bfs.visited => distance[w] = n
  OBVIOUS
<1>8. distance \in [Worlds -> 0 .. n]
  <2> SUFFICES ASSUME NEW w \in Worlds PROVE distance[w] \in 0 .. n
    OBVIOUS
  <2>1. CASE w \in bfs.visited
    <3>1. PICK i \in DOMAIN bfs.states : w = bfs.states[i].world
      BY <1>5, <2>1
    <3>2. distance[w] = Depth(i)
      BY <1>6, <3>1
    <3> QED  BY <1>1, <1>3, <3>2
  <2>2. CASE w \notin bfs.visited
    BY <1>3, <1>7, <2>2
  <2> QED  BY <2>1, <2>2
<1> HIDE DEF n, distance, index
<1>9. distance[problem.initial] = 0
  <2>1. 1 \in DOMAIN bfs.states /\ bfs.states[1].world = problem.initial /\ Depth(1) = 0
    BY <1>1 DEF VisitedInv, Depth
  <2> QED  BY <1>6, <2>1
<1>10. \A w \in problem.goals : distance[w] = n
  BY <1>7, BfsProblemType DEF VisitedInv
<1>11. ASSUME NEW w \in Worlds, NEW next \in Successors(w)
       PROVE  distance[next] <= distance[w] + 1
  <2>1. next \in Worlds
    BY <1>11, SuccessorsType
  <2>2. distance[next] \in 0 .. n /\ distance[w] \in 0 .. n
    BY <1>8, <2>1
  <2>3. CASE w \notin bfs.visited
    BY <1>3, <1>7, <2>2, <2>3
  <2>4. CASE w \in bfs.visited
    <3>1. PICK i \in DOMAIN bfs.states : w = bfs.states[i].world
      BY <1>5, <2>4
    <3>2. distance[w] = Depth(i)
      BY <1>6, <3>1
    <3>3. CASE Opened <= i
      <4>1. Depth(Opened) <= Depth(i)
        BY <1>2, <3>3 DEF DepthInv
      <4>2. n = Depth(Opened) + 1
        BY <1>2 DEF n
      <4> QED  BY <1>1, <1>2, <1>3, <2>2, <3>2, <4>1, <4>2
    <3>4. CASE ~(Opened <= i)
      <4>1. i \in 1 .. Opened /\ i # bfs.current
        BY <1>1, <1>2, <3>4
      <4>2. Known(next, Depth(i) + 1)
        BY <3>1, <4>1 DEF OpenedInv
      <4>3. PICK j \in DOMAIN bfs.states :
              bfs.states[j].world = next /\ Depth(j) <= Depth(i) + 1
        BY <4>2 DEF Known
      <4> QED  BY <1>6, <3>2, <4>3
    <3> QED  BY <3>3, <3>4
  <2> QED  BY <2>3, <2>4
<1>12. NoneNearer(problem.goals, n)
  BY <1>8, <1>9, <1>10, <1>11 DEF NoneNearer
<1> QED  BY <1>12 DEF n

LEMMA BfsReachSolves ==
  ASSUME BfsTypeOK, SearchInv, BfsReach
  PROVE  BfsSolutionReplays' /\ BfsSolutionIsShortest'
<1>1. BfsScanning /\ bfs.at = "scan" /\ BfsNextWorld # Refused /\ BfsNextWorld \in problem.goals
  BY DEF BfsReach, BfsScanning
<1>2. problem' = problem /\ bfs'.solution.trace = BfsChild.trace
  BY DEF BfsReach, BfsTypeOK, Session
<1>3. /\ Replays(BfsChild.trace, BfsNextWorld)
      /\ Len(BfsChild.trace) = Depth(bfs.current) + 1
  BY <1>1, ChildReplays
<1> PICK trace, world : trace = BfsChild.trace /\ world = BfsNextWorld
  OBVIOUS
<1>4. Replays(trace, world) /\ world \in problem.goals /\ NoneNearer(problem.goals, Len(trace))
  BY <1>1, <1>3, NothingNearer
<1>5. Replays(trace, world)' /\ (world \in problem.goals)'
  BY <1>2, <1>4 DEF Replays, Outcome
<1>6. NoneNearer(problem.goals, Len(trace))'
  BY <1>2, <1>4 DEF NoneNearer, Successors, Outcome
<1>7. bfs'.solution.trace = trace
  BY <1>2
<1>8. BfsSolutionReplays'
  BY <1>5, <1>7 DEF BfsSolutionReplays
<1>9. BfsSolutionIsShortest'
  BY <1>6, <1>7 DEF BfsSolutionIsShortest
<1> QED  BY <1>8, <1>9

-----------------------------------------------------------------------------
LEMMA BfsOverNext ==
  ASSUME BfsTypeOK, OverInv, [BfsNext]_bfsVars
  PROVE  OverInv'
<1> USE DEF BfsTypeOK, Session, OverInv
<1>1. CASE UNCHANGED bfsVars
  BY <1>1 DEF bfsVars
<1>2. ASSUME NEW units \in Budgets, BfsAdvance(units)
      PROVE  OverInv'
  BY <1>2 DEF BfsAdvance, BfsStatus
<1>3. CASE BfsInterrupt \/ BfsExpand \/ BfsExpandNone \/ BfsReturn
  BY <1>3 DEF BfsInterrupt, BfsExpand, BfsExpandNone, BfsReturn
<1>4. CASE BfsSkip \/ BfsReach \/ BfsDiscover \/ BfsScanEnd
  BY <1>4 DEF BfsScanning, BfsSkip, BfsReach, BfsDiscover, BfsScanEnd
<1> QED  BY <1>1, <1>2, <1>3, <1>4 DEF BfsNext

LEMMA BfsInvInit == BfsInit => BfsInv
<1> SUFFICES ASSUME BfsInit PROVE BfsInv
  OBVIOUS
<1>1. BfsTypeOK
  BY BfsTypeInit
<1>2. /\ bfs.states = <<[world |-> problem.initial, trace |-> <<>>]>>
      /\ bfs.frontier = <<1>> /\ bfs.visited = {problem.initial}
      /\ bfs.at = "returned" /\ bfs.exhausted = FALSE
      /\ bfs.solution.found = (problem.initial \in problem.goals)
      /\ bfs.solution.trace = <<>>
  BY DEF BfsInit, BfsNew
<1>3. OverInv
  BY <1>2 DEF OverInv
<1>4. Replays(<<>>, problem.initial)
  <2> DEFINE path == [i \in 0 .. 0 |-> problem.initial]
  <2>1. path \in [0 .. 0 -> Worlds] /\ path[0] = problem.initial
    BY <1>1, BfsProblemType
  <2> HIDE DEF path
  <2>2. Len(<<>>) = 0 /\ 1 .. 0 = {}
    OBVIOUS
  <2> QED  BY <2>1, <2>2 DEF Replays
<1>5. ASSUME bfs.solution.found
      PROVE  BfsSolutionReplays /\ BfsSolutionIsShortest
  <2>1. problem.initial \in problem.goals
    BY <1>2, <1>5
  <2> DEFINE distance == [w \in Worlds |-> 0]
  <2>2. distance \in [Worlds -> 0 .. 0] /\ \A w \in Worlds : distance[w] = 0
    OBVIOUS
  <2> HIDE DEF distance
  <2>3. \A w \in Worlds : \A next \in Successors(w) : distance[next] <= distance[w] + 1
    BY <1>1, <2>2, SuccessorsType
  <2>4. NoneNearer(problem.goals, 0)
    BY <1>1, <2>2, <2>3, BfsProblemType DEF NoneNearer
  <2>5. Len(bfs.solution.trace) = 0
    BY <1>2
  <2> QED  BY <1>2, <1>4, <2>1, <2>4, <2>5 DEF BfsSolutionReplays, BfsSolutionIsShortest
<1>6. ASSUME ~bfs.solution.found
      PROVE  SearchInv
  <2>1. /\ DOMAIN bfs.states = {1} /\ Len(bfs.states) = 1
        /\ bfs.states[1] = [world |-> problem.initial, trace |-> <<>>]
        /\ DOMAIN bfs.frontier = {1} /\ Len(bfs.frontier) = 1 /\ bfs.frontier[1] = 1
    BY <1>2
  <2>2. Opened = 0
    BY <2>1 DEF Opened
  <2>3. QueueInv
    BY <1>2, <2>1, <2>2 DEF QueueInv
  <2>4. VisitedInv
    <3>1. bfs.visited = {bfs.states[i].world : i \in DOMAIN bfs.states}
      BY <1>2, <2>1
    <3>2. bfs.visited \cap problem.goals = {}
      BY <1>2, <1>6
    <3> QED  BY <2>1, <3>1, <3>2 DEF VisitedInv
  <2>5. TracesInv
    BY <1>4, <2>1 DEF TracesInv
  <2>6. DepthInv
    BY <2>1, <2>2 DEF DepthInv, Depth
  <2>7. OpenedInv
    BY <2>2 DEF OpenedInv
  <2> QED  BY <2>3, <2>4, <2>5, <2>6, <2>7 DEF SearchInv
<1> QED  BY <1>1, <1>3, <1>5, <1>6 DEF BfsInv

LEMMA BfsSameInv ==
  ASSUME BfsInv, UNCHANGED bfsVars
  PROVE  BfsInv'
<1>1. problem' = problem /\ bfs' = bfs
  BY DEF bfsVars
<1>2. BfsTypeOK' = BfsTypeOK /\ OverInv' = OverInv
  BY <1>1 DEF BfsTypeOK, OverInv
<1>3. /\ BfsSolutionReplays' = BfsSolutionReplays
      /\ BfsSolutionIsShortest' = BfsSolutionIsShortest
  BY <1>1 DEF BfsSolutionReplays, BfsSolutionIsShortest, Replays, NoneNearer, Successors, Outcome
<1>4. /\ QueueInv' = QueueInv /\ VisitedInv' = VisitedInv /\ DepthInv' = DepthInv
  BY <1>1 DEF QueueInv, VisitedInv, DepthInv, Opened, Depth
<1>5. TracesInv' = TracesInv
  BY <1>1 DEF TracesInv, Replays, Outcome
<1>6. OpenedInv' = OpenedInv
  BY <1>1 DEF OpenedInv, Opened, Depth, Known, Successors, Outcome
<1> QED  BY <1>1, <1>2, <1>3, <1>4, <1>5, <1>6 DEF BfsInv, SearchInv

LEMMA BfsInvNext ==
  ASSUME BfsInv, [BfsNext]_bfsVars
  PROVE  BfsInv'
<1>1. BfsTypeOK /\ OverInv
  BY DEF BfsInv
<1>2. BfsTypeOK'
  BY <1>1, BfsTypeNext DEF BfsInv, SearchInv
<1>3. OverInv'
  BY <1>1, BfsOverNext
<1>4. CASE bfs.solution.found
  BY <1>1, <1>4, BfsFrozen, BfsSameInv
<1>5. CASE UNCHANGED bfsVars
  BY <1>5, BfsSameInv
<1>6. CASE ~bfs.solution.found /\ BfsNext
  <2>1. SearchInv
    BY <1>6 DEF BfsInv
  <2>2. CASE BfsReach
    <3>1. bfs'.solution.found
      BY <1>1, <2>2 DEF BfsReach, BfsTypeOK, Session
    <3> QED  BY <1>1, <1>2, <1>3, <2>1, <2>2, <3>1, BfsReachSolves DEF BfsInv
  <2>3. CASE ~BfsReach
    <3>1. SearchInv' /\ bfs'.solution = bfs.solution
      <4>1. CASE \/ \E units \in Budgets : BfsAdvance(units)
                 \/ BfsInterrupt \/ BfsExpandNone \/ BfsReturn
        BY <1>1, <2>1, <4>1, BfsQuietSteps, BfsQuietKeeps DEF BfsQuiet
      <4>2. CASE BfsExpand
        BY <1>1, <2>1, <4>2, BfsExpandKeeps, ExpandStep DEF SearchInv
      <4>3. CASE BfsSkip
        BY <1>1, <2>1, <4>3, BfsSkipKeeps, SkipStep
      <4>4. CASE BfsDiscover
        BY <1>1, <2>1, <4>4, BfsDiscoverKeeps, BfsDiscoverStep DEF SearchInv
      <4>5. CASE BfsScanEnd
        BY <1>1, <2>1, <4>5, BfsScanEndKeeps, ScanEndStep
      <4> QED  BY <1>6, <2>3, <4>1, <4>2, <4>3, <4>4, <4>5 DEF BfsNext
    <3> QED  BY <1>2, <1>3, <1>6, <3>1 DEF BfsInv
  <2> QED  BY <2>2, <2>3
<1> QED  BY <1>4, <1>5, <1>6

(* A session that gives up has opened every state it retained: what it has  *)
(* visited is closed under the candidates.                                  *)
LEMMA BfsExhaustedIsClosed == BfsInv => BfsExhaustedIsUnreachable
<1> SUFFICES ASSUME BfsInv, bfs.exhausted PROVE Unreachable(problem.goals)
  BY DEF BfsExhaustedIsUnreachable
<1>1. SearchInv /\ bfs.frontier = <<>> /\ bfs.at # "scan" /\ BfsTypeOK
  BY DEF BfsInv, OverInv
<1>2. bfs.states \in Seq(State) /\ Opened = Len(bfs.states)
  BY <1>1 DEF BfsTypeOK, Session, Opened
<1>3. bfs.visited = {bfs.states[i].world : i \in DOMAIN bfs.states}
      /\ problem.initial \in bfs.visited /\ bfs.visited \cap problem.goals = {}
  BY <1>1, <1>2 DEF SearchInv, VisitedInv
<1>4. ASSUME NEW w \in bfs.visited, NEW next \in Successors(w)
      PROVE  next \in bfs.visited
  <2>1. PICK i \in DOMAIN bfs.states : bfs.states[i].world = w
    BY <1>3
  <2>2. Known(next, Depth(i) + 1)
    BY <1>1, <1>2, <1>4, <2>1 DEF SearchInv, OpenedInv
  <2> QED  BY <1>3, <2>2 DEF Known
<1>5. bfs.visited \in SUBSET Worlds
  BY <1>1 DEF BfsTypeOK, Session
<1> QED  BY <1>3, <1>4, <1>5 DEF Unreachable

-----------------------------------------------------------------------------
(* The invariant of every session (breadth_first.rs).                       *)
THEOREM BfsAlwaysInv == BfsSpec => []BfsInv
<1>1. BfsInit => BfsInv
  BY BfsInvInit
<1>2. BfsInv /\ [BfsNext]_bfsVars => BfsInv'
  BY BfsInvNext
<1> QED  BY <1>1, <1>2, PTL DEF BfsSpec

(* The trace of a solution, however the work was split and wherever it was  *)
(* interrupted, is accepted by the kernel and ends at the goal.             *)
THEOREM SolutionAlwaysReplays == BfsSpec => []BfsSolutionReplays
<1>1. BfsInv => BfsSolutionReplays
  BY DEF BfsInv, BfsSolutionReplays
<1> QED  BY <1>1, BfsAlwaysInv, PTL

(* No trace of fewer exchanges leads to the goal.                           *)
THEOREM SolutionAlwaysShortest == BfsSpec => []BfsSolutionIsShortest
<1>1. BfsInv => BfsSolutionIsShortest
  BY DEF BfsInv, BfsSolutionIsShortest
<1> QED  BY <1>1, BfsAlwaysInv, PTL

(* A session reports that it is exhausted only when no candidates lead to   *)
(* the goal.                                                                *)
THEOREM ExhaustedAlwaysUnreachable == BfsSpec => []BfsExhaustedIsUnreachable
  BY BfsAlwaysInv, BfsExhaustedIsClosed, PTL

(* Whatever a breadth-first session reports, it reports truly.              *)
THEOREM BfsAlwaysTellsTheTruth == BfsSpec => []BfsTellsTheTruth
<1>1. BfsSolutionReplays /\ BfsSolutionIsShortest /\ BfsExhaustedIsUnreachable => BfsTellsTheTruth
  BY DEF BfsTellsTheTruth
<1> QED
  BY <1>1, SolutionAlwaysReplays, SolutionAlwaysShortest, ExhaustedAlwaysUnreachable, PTL

-----------------------------------------------------------------------------
(* What is left of a session without the budget of the advance it is in and *)
(* without the difference between the two ends of an advance.               *)
BfsProgress(s) ==
  [states |-> s.states, frontier |-> s.frontier, visited |-> s.visited,
   expanded |-> s.expanded, generated |-> s.generated, solution |-> s.solution,
   exhausted |-> s.exhausted, scanning |-> s.at = "scan", current |-> s.current, todo |-> s.todo]

(* The one turn of the loops that follows, whoever asks for it. *)
BfsOpens(p, c) ==
  IF c.frontier = <<>> THEN [c EXCEPT !.exhausted = TRUE]
  ELSE [c EXCEPT !.scanning = TRUE, !.expanded = @ + 1,
                 !.current = Head(c.frontier), !.frontier = Tail(@),
                 !.todo = p.candidates[c.states[Head(c.frontier)].world]]

BfsScans(p, c) ==
  LET parent == c.states[c.current]
      next   == p.outcome[parent.world][Head(c.todo)]
      trace  == Append(parent.trace, Head(c.todo))
  IN  IF c.todo = <<>> THEN [c EXCEPT !.scanning = FALSE]
      ELSE IF next \in c.visited \cup {Refused} THEN [c EXCEPT !.todo = Tail(@)]
      ELSE IF next \in p.goals
           THEN [c EXCEPT !.scanning = FALSE, !.visited = @ \cup {next}, !.generated = @ + 1,
                          !.solution = [found |-> TRUE, trace |-> trace, expanded |-> c.expanded]]
      ELSE [c EXCEPT !.todo = Tail(@), !.visited = @ \cup {next}, !.generated = @ + 1,
                     !.states = Append(@, [world |-> next, trace |-> trace]),
                     !.frontier = Append(@, Len(c.states) + 1)]

BfsOn(p, c) ==
  IF c.solution.found \/ c.exhausted THEN c
  ELSE IF c.scanning THEN BfsScans(p, c) ELSE BfsOpens(p, c)

(* Turns lead from one progress to the other: whatever holds of the first   *)
(* and is kept by every turn holds of the second.                           *)
BfsLeads(p, c, d) ==
  \A S : c \in S /\ (\A e \in S : BfsOn(p, e) \in S) => d \in S

LEMMA BfsLeadsOn ==
  ASSUME NEW p, NEW c, NEW d
  PROVE  /\ BfsLeads(p, c, c)
         /\ BfsLeads(p, c, d) => BfsLeads(p, c, BfsOn(p, d))
         /\ BfsLeads(p, c, d) /\ BfsOn(p, d) = d => BfsLeads(p, BfsOn(p, c), d)
         /\ BfsLeads(p, c, d) /\ BfsOn(p, c) = c => d = c
<1>1. BfsLeads(p, c, c) /\ (BfsLeads(p, c, d) => BfsLeads(p, c, BfsOn(p, d)))
  BY DEF BfsLeads
<1>2. ASSUME BfsLeads(p, c, d), BfsOn(p, d) = d PROVE BfsLeads(p, BfsOn(p, c), d)
  <2> SUFFICES ASSUME NEW S, BfsOn(p, c) \in S, \A e \in S : BfsOn(p, e) \in S
               PROVE  d \in S
    BY DEF BfsLeads
  <2>1. c \in S \cup {c} /\ \A e \in S \cup {c} : BfsOn(p, e) \in S \cup {c}
    OBVIOUS
  <2>2. d \in S \cup {c}
    BY <1>2, <2>1 DEF BfsLeads
  <2> QED  BY <1>2, <2>2
<1>3. ASSUME BfsLeads(p, c, d), BfsOn(p, c) = c PROVE d = c
  <2>1. c \in {c} /\ \A e \in {c} : BfsOn(p, e) \in {c}
    BY <1>3
  <2> QED  BY <1>3, <2>1 DEF BfsLeads
<1> QED  BY <1>1, <1>2, <1>3

(* Every step of a session is a turn, or no progress. *)
LEMMA BfsTurns ==
  ASSUME BfsInv, BfsNext
  PROVE  /\ problem' = problem
         /\ \/ BfsProgress(bfs') = BfsProgress(bfs)
            \/ BfsProgress(bfs') = BfsOn(problem, BfsProgress(bfs))
<1> DEFINE on == BfsOn(problem, BfsProgress(bfs))
<1>1. bfs \in Session /\ OverInv
  BY DEF BfsInv, BfsTypeOK
<1>2. CASE \E units \in Budgets : BfsAdvance(units)
  BY <1>1, <1>2 DEF BfsAdvance, BfsProgress, Session
<1>3. CASE BfsInterrupt
  BY <1>1, <1>3 DEF BfsInterrupt, BfsProgress, Session
<1>4. CASE BfsExpand
  BY <1>1, <1>4 DEF BfsExpand, BfsProgress, BfsOn, BfsOpens, Session, OverInv
<1>5. CASE BfsExpandNone
  BY <1>1, <1>5 DEF BfsExpandNone, BfsProgress, BfsOn, BfsOpens, Session, OverInv
<1>6. CASE BfsSkip
  BY <1>1, <1>6 DEF BfsSkip, BfsProgress, BfsOn, BfsScans, Session, OverInv, BfsScanning,
     BfsNextWorld, BfsParent, Outcome
<1>7. CASE BfsReach
  BY <1>1, <1>7 DEF BfsReach, BfsProgress, BfsOn, BfsScans, Session, OverInv, BfsScanning,
     BfsNextWorld, BfsParent, BfsChild, Outcome
<1>8. CASE BfsDiscover
  BY ZenonT(30), <1>1, <1>8 DEF BfsDiscover, BfsProgress, BfsOn, BfsScans, Session, OverInv, BfsScanning,
     BfsNextWorld, BfsParent, BfsChild, Outcome
<1>9. CASE BfsScanEnd
  BY <1>1, <1>9 DEF BfsScanEnd, BfsProgress, BfsOn, BfsScans, Session, OverInv
<1>10. CASE BfsReturn
  BY <1>1, <1>10 DEF BfsReturn, BfsProgress, BfsOn, BfsOpens, Session, OverInv
<1> QED  BY <1>2, <1>3, <1>4, <1>5, <1>6, <1>7, <1>8, <1>9, <1>10 DEF BfsNext

-----------------------------------------------------------------------------
(* The searches whose answer depends on an order.                           *)

(* The first and the remaining elements of a sequence. *)
LEMMA HeadTail ==
  ASSUME NEW S, NEW seq \in Seq(S), seq # <<>>
  PROVE  /\ Head(seq) \in S
         /\ Head(seq) = seq[1]
         /\ Tail(seq) \in Seq(S)
         /\ Len(seq) \in Nat \ {0}
         /\ Len(Tail(seq)) = Len(seq) - 1
         /\ \A i \in DOMAIN Tail(seq) : i + 1 \in DOMAIN seq /\ Tail(seq)[i] = seq[i + 1]
         /\ \A i \in DOMAIN seq : i = 1 \/ (i - 1 \in DOMAIN Tail(seq) /\ Tail(seq)[i - 1] = seq[i])
  OBVIOUS

LEMMA Appended ==
  ASSUME NEW S, NEW seq \in Seq(S), NEW e \in S
  PROVE  /\ Append(seq, e) \in Seq(S)
         /\ Len(Append(seq, e)) = Len(seq) + 1
         /\ \A i \in DOMAIN seq : i \in DOMAIN Append(seq, e) /\ Append(seq, e)[i] = seq[i]
         /\ Append(seq, e)[Len(seq) + 1] = e
         /\ DOMAIN Append(seq, e) = DOMAIN seq \cup {Len(seq) + 1}
         /\ Len(seq) \in Nat /\ Len(seq) + 1 \notin DOMAIN seq
  OBVIOUS

-----------------------------------------------------------------------------
(* Dominance orders what can be compared. *)

Vectors == {problem.project[w] : w \in Worlds}

Comparables(left, right) == left.schema = right.schema /\ ~Unordered(left) /\ ~Unordered(right)

NoWorse(left, right) == \A d \in DOMAIN left.schema : ~Improves(right, left, d)

LEMMA VectorFacts ==
  ASSUME problem \in Problems, NEW v \in Vectors
  PROVE  /\ DOMAIN v.schema = DOMAIN v.values
         /\ ~Unordered(v) => \A d \in DOMAIN v.schema : v.values[d] \in Int
         /\ \A d \in DOMAIN v.schema : v.schema[d].direction \in {"Minimize", "Maximize"}
  BY ObjectiveAssumption DEF Vectors, Unordered

LEMMA DominanceFacts ==
  ASSUME problem \in Problems, NEW left \in Vectors, NEW right \in Vectors
  PROVE  /\ Dominance(left, right) \in {"Error", "Dominates", "Dominated", "Equal", "Incomparable"}
         /\ Dominance(left, right) = "Error" <=> ~Comparables(left, right)
         /\ Dominance(left, right) = "Incomparable" <=> Dominance(right, left) = "Incomparable"
         /\ Dominance(left, right) \in {"Dominates", "Equal"}
              <=> Comparables(left, right) /\ NoWorse(left, right)
         /\ Dominance(left, right) \in {"Dominated", "Equal"}
              <=> Dominance(right, left) \in {"Dominates", "Equal"}
<1> DEFINE improves == \E d \in DOMAIN left.schema : Improves(left, right, d)
           worsens  == \E d \in DOMAIN left.schema : Improves(right, left, d)
<1>1. CASE ~Comparables(left, right)
  <2>1. Dominance(left, right) = "Error" /\ Dominance(right, left) = "Error"
    BY <1>1 DEF Dominance, Comparables
  <2> QED  BY <1>1, <2>1
<1>2. CASE Comparables(left, right)
  <2>1. /\ Dominance(left, right) = CASE improves /\ ~worsens  -> "Dominates"
                                      [] ~improves /\ worsens  -> "Dominated"
                                      [] ~improves /\ ~worsens -> "Equal"
                                      [] improves /\ worsens   -> "Incomparable"
        /\ Dominance(right, left) = CASE worsens /\ ~improves  -> "Dominates"
                                      [] ~worsens /\ improves  -> "Dominated"
                                      [] ~worsens /\ ~improves -> "Equal"
                                      [] worsens /\ improves   -> "Incomparable"
    BY <1>2 DEF Dominance, Comparables
  <2>2. NoWorse(left, right) <=> ~worsens
    BY DEF NoWorse
  <2> HIDE DEF improves, worsens
  <2> QED  BY <1>2, <2>1, <2>2
<1> QED  BY <1>1, <1>2

LEMMA NoWorseTransitive ==
  ASSUME problem \in Problems, NEW u \in Vectors, NEW v \in Vectors, NEW w \in Vectors,
         Dominance(u, v) \in {"Dominates", "Equal"}, Dominance(v, w) \in {"Dominates", "Equal"}
  PROVE  Dominance(u, w) \in {"Dominates", "Equal"}
<1>1. Comparables(u, v) /\ NoWorse(u, v) /\ Comparables(v, w) /\ NoWorse(v, w)
  BY DominanceFacts
<1>2. Comparables(u, w)
  BY <1>1 DEF Comparables
<1>3. ASSUME NEW d \in DOMAIN u.schema PROVE ~Improves(w, u, d)
  <2>1. u.schema = v.schema /\ v.schema = w.schema
    BY <1>1 DEF Comparables
  <2>2. /\ u.values[d] \in Int /\ v.values[d] \in Int /\ w.values[d] \in Int
        /\ u.schema[d].direction \in {"Minimize", "Maximize"}
    BY <1>1, <2>1, VectorFacts DEF Comparables
  <2>3. ~Improves(v, u, d) /\ ~Improves(w, v, d)
    BY <1>1, <2>1 DEF NoWorse
  <2> QED  BY <2>1, <2>2, <2>3 DEF Improves
<1> QED  BY <1>2, <1>3, DominanceFacts DEF NoWorse

-----------------------------------------------------------------------------
(* The front after an insertion. *)

Retained == [trace : Seq(Exchanges), objectives : Vectors]

Dominated(objectives, e) == Dominance(objectives, e.objectives) = "Dominates"

(* What remains of a front is, in order, what the newcomer does not         *)
(* dominate.                                                                *)
LEMMA RemainingPrefixes ==
  ASSUME NEW entries \in Seq(Retained), NEW objectives
  PROVE  \E kept :
           /\ kept[0] = <<>>
           /\ \A k \in 1 .. Len(entries) :
                kept[k] = IF Dominated(objectives, entries[k]) THEN kept[k - 1]
                          ELSE Append(kept[k - 1], entries[k])
           /\ Remaining(entries, objectives) = kept[Len(entries)]
<1> DEFINE n == Len(entries)
           iter == CHOOSE g : g = [s \in SUBSET DOMAIN entries |->
                     IF s = {} THEN <<>>
                     ELSE IF Dominance(objectives, entries[Max(s)].objectives) = "Dominates"
                          THEN g[s \ {Max(s)}] ELSE Append(g[s \ {Max(s)}], entries[Max(s)])]
           Step == [k \in 1 .. n |-> [kept \in Seq(Retained) |->
                     IF Dominated(objectives, entries[k]) THEN kept ELSE Append(kept, entries[k])]]
<1>1. Remaining(entries, objectives) = iter[DOMAIN entries]
  BY DEF Remaining, FoldLeft, MapThenFoldSet
<1>2. DOMAIN entries = 1 .. n /\ n \in Nat
  OBVIOUS
<1>3. Step \in [1 .. n -> [Seq(Retained) -> Seq(Retained)]] /\ <<>> \in Seq(Retained)
  OBVIOUS
<1>4. PICK g \in [SUBSET (1 .. n) -> Seq(Retained)] : FoldTable(g, <<>>, Step, n)
  <2> HIDE DEF Step
  <2> QED  BY <1>2, <1>3, FoldTableExists
<1>5. ASSUME NEW s \in SUBSET (1 .. n), s # {}
      PROVE  Step[Max(s)][g[s \ {Max(s)}]]
               = IF Dominance(objectives, entries[Max(s)].objectives) = "Dominates"
                 THEN g[s \ {Max(s)}] ELSE Append(g[s \ {Max(s)}], entries[Max(s)])
  <2>1. Max(s) \in 1 .. n
    BY <1>2, <1>5, GreatestOfSome
  <2>2. g[s \ {Max(s)}] \in Seq(Retained)
    BY <1>4
  <2> QED  BY <2>1, <2>2 DEF Dominated
<1>6. g = [s \in SUBSET DOMAIN entries |->
             IF s = {} THEN <<>>
             ELSE IF Dominance(objectives, entries[Max(s)].objectives) = "Dominates"
                  THEN g[s \ {Max(s)}] ELSE Append(g[s \ {Max(s)}], entries[Max(s)])]
  <2> HIDE DEF Step
  <2> QED  BY <1>2, <1>4, <1>5 DEF FoldTable
<1>7. iter = [s \in SUBSET DOMAIN entries |->
                IF s = {} THEN <<>>
                ELSE IF Dominance(objectives, entries[Max(s)].objectives) = "Dominates"
                     THEN iter[s \ {Max(s)}] ELSE Append(iter[s \ {Max(s)}], entries[Max(s)])]
  BY <1>6
<1> HIDE DEF iter
<1> DEFINE kept == [k \in 0 .. n |-> iter[1 .. k]]
<1>8. kept[0] = <<>>
  <2>1. 1 .. 0 = {} /\ {} \in SUBSET DOMAIN entries
    OBVIOUS
  <2> QED  BY <1>2, <1>7, <2>1
<1>9. ASSUME NEW k \in 1 .. n
      PROVE  kept[k] = IF Dominated(objectives, entries[k]) THEN kept[k - 1]
                       ELSE Append(kept[k - 1], entries[k])
  <2>1. /\ 1 .. k \in SUBSET DOMAIN entries /\ 1 .. k # {} /\ Max(1 .. k) = k
        /\ (1 .. k) \ {k} = 1 .. (k - 1)
    BY <1>2, FirstNumbers
  <2>2. iter[1 .. k] = IF Dominated(objectives, entries[k]) THEN iter[1 .. (k - 1)]
                       ELSE Append(iter[1 .. (k - 1)], entries[k])
    BY <1>7, <2>1 DEF Dominated
  <2>3. kept[k] = iter[1 .. k] /\ kept[k - 1] = iter[1 .. (k - 1)]
    OBVIOUS
  <2> QED  BY <2>2, <2>3
<1>10. Remaining(entries, objectives) = kept[n]
  BY <1>1, <1>2
<1> HIDE DEF kept
<1> QED  BY <1>8, <1>9, <1>10

IsRest(rest, entries, objectives) ==
  /\ rest \in Seq(Retained)
  /\ \E from \in [DOMAIN rest -> DOMAIN entries] :
       /\ \A i \in DOMAIN rest :
            rest[i] = entries[from[i]] /\ ~Dominated(objectives, entries[from[i]])
       /\ \A i, j \in DOMAIN rest : i # j => from[i] # from[j]
  /\ \A k \in DOMAIN entries :
       Dominated(objectives, entries[k]) \/ \E i \in DOMAIN rest : rest[i] = entries[k]

LEMMA RemainingAreUndominated ==
  ASSUME NEW entries \in Seq(Retained), NEW objectives
  PROVE  IsRest(Remaining(entries, objectives), entries, objectives)
<1> DEFINE n == Len(entries)
<1>1. PICK kept :
        /\ kept[0] = <<>>
        /\ \A k \in 1 .. n :
             kept[k] = IF Dominated(objectives, entries[k]) THEN kept[k - 1]
                       ELSE Append(kept[k - 1], entries[k])
        /\ Remaining(entries, objectives) = kept[n]
  BY RemainingPrefixes
<1> DEFINE From(k) == \E from \in [DOMAIN kept[k] -> 1 .. k] :
                        /\ \A i \in DOMAIN kept[k] :
                             kept[k][i] = entries[from[i]] /\ ~Dominated(objectives, entries[from[i]])
                        /\ \A i, j \in DOMAIN kept[k] : i # j => from[i] # from[j]
           All(k) == \A h \in 1 .. k :
                       Dominated(objectives, entries[h]) \/ \E i \in DOMAIN kept[k] : kept[k][i] = entries[h]
           T == {k \in Nat : k <= n => kept[k] \in Seq(Retained) /\ From(k) /\ All(k)}
<1>2. 0 \in T
  <2>1. kept[0] \in Seq(Retained) /\ DOMAIN kept[0] = {}
    BY <1>1
  <2>2. From(0)
    <3>1. [i \in {} |-> 0] \in [DOMAIN kept[0] -> 1 .. 0]
      BY <2>1
    <3> QED  BY <2>1, <3>1
  <2>3. All(0)
    OBVIOUS
  <2> HIDE DEF From, All
  <2> QED  BY <2>1, <2>2, <2>3
<1>3. ASSUME NEW k \in Nat, k \in T PROVE k + 1 \in T
  <2> SUFFICES ASSUME k + 1 <= n
               PROVE  kept[k + 1] \in Seq(Retained) /\ From(k + 1) /\ All(k + 1)
    <3> HIDE DEF From, All
    <3> QED  OBVIOUS
  <2>1. kept[k] \in Seq(Retained) /\ From(k) /\ All(k)
    <3> HIDE DEF From, All
    <3> QED  BY <1>3
  <2>2. PICK from \in [DOMAIN kept[k] -> 1 .. k] :
          /\ \A i \in DOMAIN kept[k] :
               kept[k][i] = entries[from[i]] /\ ~Dominated(objectives, entries[from[i]])
          /\ \A i, j \in DOMAIN kept[k] : i # j => from[i] # from[j]
    BY <2>1
  <2>3. k + 1 \in 1 .. n /\ entries[k + 1] \in Retained /\ (k + 1) - 1 = k
    OBVIOUS
  <2>4. CASE Dominated(objectives, entries[k + 1])
    <3>1. kept[k + 1] = kept[k]
      BY <1>1, <2>3, <2>4
    <3>2. from \in [DOMAIN kept[k + 1] -> 1 .. (k + 1)]
      BY <3>1
    <3>3. From(k + 1)
      BY <2>2, <3>1, <3>2
    <3>4. All(k + 1)
      <4> SUFFICES ASSUME NEW h \in 1 .. (k + 1)
                   PROVE  \/ Dominated(objectives, entries[h])
                          \/ \E i \in DOMAIN kept[k + 1] : kept[k + 1][i] = entries[h]
        OBVIOUS
      <4>1. h \in 1 .. k \/ h = k + 1
        OBVIOUS
      <4> QED  BY <2>1, <2>4, <3>1, <4>1
    <3> HIDE DEF From, All
    <3> QED  BY <2>1, <3>1, <3>3, <3>4
  <2>5. CASE ~Dominated(objectives, entries[k + 1])
    <3>1. kept[k + 1] = Append(kept[k], entries[k + 1])
      BY <1>1, <2>3, <2>5
    <3> DEFINE new == Len(kept[k]) + 1
    <3>2. /\ kept[k + 1] \in Seq(Retained)
          /\ DOMAIN kept[k + 1] = DOMAIN kept[k] \cup {new} /\ new \notin DOMAIN kept[k]
          /\ kept[k + 1][new] = entries[k + 1]
          /\ \A i \in DOMAIN kept[k] : kept[k + 1][i] = kept[k][i]
      BY <2>1, <2>3, <3>1, Appended
    <3> HIDE DEF new
    <3>3. From(k + 1)
      <4> DEFINE further == [i \in DOMAIN kept[k + 1] |-> IF i = new THEN k + 1 ELSE from[i]]
      <4>1. further \in [DOMAIN kept[k + 1] -> 1 .. (k + 1)]
        <5> SUFFICES ASSUME NEW i \in DOMAIN kept[k + 1], i # new PROVE from[i] \in 1 .. (k + 1)
          OBVIOUS
        <5>1. from[i] \in 1 .. k
          BY <2>2, <3>2
        <5> QED  BY <5>1
      <4>2. \A i \in DOMAIN kept[k] : further[i] = from[i] /\ further[i] \in 1 .. k
        BY <2>2, <3>2
      <4>3. further[new] = k + 1
        BY <3>2
      <4> HIDE DEF further
      <4>4. \A i \in DOMAIN kept[k + 1] :
              kept[k + 1][i] = entries[further[i]] /\ ~Dominated(objectives, entries[further[i]])
        BY <2>2, <2>5, <3>2, <4>2, <4>3
      <4>5. \A i, j \in DOMAIN kept[k + 1] : i # j => further[i] # further[j]
        <5> SUFFICES ASSUME NEW i \in DOMAIN kept[k + 1], NEW j \in DOMAIN kept[k + 1], i # j
                     PROVE  further[i] # further[j]
          OBVIOUS
        <5>1. CASE i = new
          <6>1. j \in DOMAIN kept[k] /\ further[j] \in 1 .. k
            BY <3>2, <4>2, <5>1
          <6> QED  BY <4>3, <5>1, <6>1
        <5>2. CASE j = new
          <6>1. i \in DOMAIN kept[k] /\ further[i] \in 1 .. k
            BY <3>2, <4>2, <5>2
          <6> QED  BY <4>3, <5>2, <6>1
        <5>3. CASE i # new /\ j # new
          BY <2>2, <3>2, <4>2, <5>3
        <5> QED  BY <5>1, <5>2, <5>3
      <4> QED  BY <4>1, <4>4, <4>5
    <3>4. All(k + 1)
      <4> SUFFICES ASSUME NEW h \in 1 .. (k + 1)
                   PROVE  \/ Dominated(objectives, entries[h])
                          \/ \E i \in DOMAIN kept[k + 1] : kept[k + 1][i] = entries[h]
        OBVIOUS
      <4>1. h \in 1 .. k \/ h = k + 1
        OBVIOUS
      <4> QED  BY <2>1, <3>2, <4>1
    <3> HIDE DEF From, All
    <3> QED  BY <3>2, <3>3, <3>4
  <2> QED  BY <2>4, <2>5
<1>4. n \in T
  <2>1. Nat \subseteq T
    <3> HIDE DEF T
    <3> QED  BY <1>2, <1>3, SetOfNaturals
  <2> QED  BY <2>1
<1>5. kept[n] \in Seq(Retained) /\ From(n) /\ All(n)
  <2> HIDE DEF From, All
  <2> QED  BY <1>4
<1>6. DOMAIN entries = 1 .. n
  OBVIOUS
<1>7. Remaining(entries, objectives) = kept[n]
  BY <1>1
<1>8. IsRest(kept[n], entries, objectives)
  <2>1. From(n) /\ All(n) /\ kept[n] \in Seq(Retained)
    BY <1>5
  <2> HIDE DEF n
  <2> QED  BY <1>6, <2>1 DEF IsRest
<1> QED  BY <1>7, <1>8

LEMMA EntryVectors ==
  ASSUME NEW entries \in Seq(Retained), NEW i \in DOMAIN entries
  PROVE  entries[i] \in Retained /\ entries[i].objectives \in Vectors
<1>1. entries[i] \in Retained
  OBVIOUS
<1> QED  BY <1>1 DEF Retained

(* An insertion either changes nothing or makes the newcomer the last of    *)
(* the front, together with what it does not dominate.                      *)
LEMMA InsertionFacts ==
  ASSUME problem \in Problems, NEW entries \in Seq(Retained), NEW trace \in Seq(Exchanges),
         NEW objectives \in Vectors
  PROVE  LET after == FrontWith(entries, trace, objectives) IN
         \/ /\ after = entries
            /\ Insertion(objectives, entries) # "Inserted"
            /\ \/ Unordered(objectives)
               \/ \E i \in DOMAIN entries :
                    Dominance(objectives, entries[i].objectives) \in {"Error", "Dominated", "Equal"}
                    /\ Insertion(objectives, entries) = Dominance(objectives, entries[i].objectives)
         \/ /\ after = Append(Remaining(entries, objectives), [trace |-> trace, objectives |-> objectives])
            /\ Insertion(objectives, entries) = "Inserted"
            /\ ~Unordered(objectives)
            /\ \A i \in DOMAIN entries :
                 Dominance(objectives, entries[i].objectives) \in {"Dominates", "Incomparable"}
<1>1. CASE Unordered(objectives)
  BY <1>1 DEF Insertion, FrontWith
<1>2. CASE ~Unordered(objectives) /\ Settling(objectives, entries) = {}
  <2>1. Insertion(objectives, entries) = "Inserted"
    BY <1>2 DEF Insertion
  <2>2. ASSUME NEW i \in DOMAIN entries
        PROVE  Dominance(objectives, entries[i].objectives) \in {"Dominates", "Incomparable"}
    <3>1. Dominance(objectives, entries[i].objectives) \notin {"Error", "Dominated", "Equal"}
      BY <1>2 DEF Settling
    <3>2. entries[i].objectives \in Vectors
      BY EntryVectors
    <3> QED  BY <3>1, <3>2, DominanceFacts
  <2> QED  BY <1>2, <2>1, <2>2 DEF FrontWith
<1>3. CASE ~Unordered(objectives) /\ Settling(objectives, entries) # {}
  <2>1. Min(Settling(objectives, entries)) \in Settling(objectives, entries)
    <3>1. Settling(objectives, entries) \in SUBSET Nat
      BY DEF Settling
    <3> QED  BY <1>3, <3>1, LeastOfNaturals
  <2>2. PICK i \in DOMAIN entries :
          /\ Dominance(objectives, entries[i].objectives) \in {"Error", "Dominated", "Equal"}
          /\ Insertion(objectives, entries) = Dominance(objectives, entries[i].objectives)
    BY <1>3, <2>1 DEF Settling, Insertion
  <2> QED  BY <2>2 DEF FrontWith
<1> QED  BY <1>1, <1>2, <1>3

Incomparables(entries) ==
  \A i, j \in DOMAIN entries :
    i # j => Dominance(entries[i].objectives, entries[j].objectives) = "Incomparable"

LEMMA FrontStaysIncomparable ==
  ASSUME problem \in Problems, NEW entries \in Seq(Retained), NEW trace \in Seq(Exchanges),
         NEW objectives \in Vectors, Incomparables(entries)
  PROVE  LET after == FrontWith(entries, trace, objectives) IN
         after \in Seq(Retained) /\ Incomparables(after)
<1> DEFINE rest  == Remaining(entries, objectives)
           new   == [trace |-> trace, objectives |-> objectives]
           after == FrontWith(entries, trace, objectives)
<1>1. CASE after = entries
  BY <1>1
<1>2. CASE /\ after = Append(rest, new)
           /\ \A i \in DOMAIN entries :
                Dominance(objectives, entries[i].objectives) \in {"Dominates", "Incomparable"}
  <2>0. IsRest(rest, entries, objectives)
    BY RemainingAreUndominated
  <2>1. PICK from \in [DOMAIN rest -> DOMAIN entries] :
          /\ \A i \in DOMAIN rest :
               rest[i] = entries[from[i]] /\ ~Dominated(objectives, entries[from[i]])
          /\ \A i, j \in DOMAIN rest : i # j => from[i] # from[j]
    <3> HIDE DEF rest
    <3> QED  BY <2>0 DEF IsRest
  <2>2. rest \in Seq(Retained) /\ new \in Retained
    BY RemainingAreUndominated DEF IsRest, Retained
  <2> HIDE DEF rest, new, after
  <2> DEFINE last == Len(rest) + 1
  <2>3. /\ after \in Seq(Retained) /\ DOMAIN after = DOMAIN rest \cup {last} /\ last \notin DOMAIN rest
        /\ \A i \in DOMAIN rest : after[i] = rest[i]
        /\ after[last] = new
    BY <1>2, <2>2, Appended
  <2> HIDE DEF last
  <2>4. ASSUME NEW i \in DOMAIN rest
        PROVE  /\ Dominance(objectives, rest[i].objectives) = "Incomparable"
               /\ Dominance(rest[i].objectives, objectives) = "Incomparable"
    <3>1. from[i] \in DOMAIN entries /\ rest[i] = entries[from[i]] /\ rest[i] \in Retained
      BY <2>1, <2>2
    <3>2. Dominance(objectives, rest[i].objectives) = "Incomparable"
      BY <1>2, <2>1, <3>1 DEF Dominated
    <3>3. rest[i].objectives \in Vectors
      BY <3>1 DEF Retained
    <3> QED  BY <3>2, <3>3, DominanceFacts
  <2>5. ASSUME NEW i \in DOMAIN rest, NEW j \in DOMAIN rest, i # j
        PROVE  Dominance(rest[i].objectives, rest[j].objectives) = "Incomparable"
    BY <2>1, <2>5 DEF Incomparables
  <2>6. new.objectives = objectives
    BY DEF new
  <2>7. Incomparables(after)
    BY <2>3, <2>4, <2>5, <2>6 DEF Incomparables
  <2> QED  BY <2>3, <2>7 DEF after
<1> QED  BY <1>1, <1>2, InsertionFacts

(* Where the entries of the new front come from. *)
LEMMA FrontOrigins ==
  ASSUME problem \in Problems, NEW entries \in Seq(Retained), NEW trace \in Seq(Exchanges),
         NEW objectives \in Vectors, NEW i \in DOMAIN FrontWith(entries, trace, objectives)
  PROVE  LET after == FrontWith(entries, trace, objectives) IN
         \/ \E j \in DOMAIN entries : after[i] = entries[j]
         \/ after[i] = [trace |-> trace, objectives |-> objectives]
<1> DEFINE rest  == Remaining(entries, objectives)
           new   == [trace |-> trace, objectives |-> objectives]
           after == FrontWith(entries, trace, objectives)
<1>1. CASE after = entries
  BY <1>1
<1>2. CASE after = Append(rest, new)
  <2>1. IsRest(rest, entries, objectives) /\ new \in Retained
    BY RemainingAreUndominated DEF Retained
  <2>2. i \in DOMAIN after
    OBVIOUS
  <2> HIDE DEF rest, new, after
  <2>3. /\ DOMAIN after = DOMAIN rest \cup {Len(rest) + 1}
        /\ \A j \in DOMAIN rest : after[j] = rest[j]
        /\ after[Len(rest) + 1] = new
    BY <1>2, <2>1, Appended DEF IsRest
  <2>4. \A j \in DOMAIN rest : \E h \in DOMAIN entries : rest[j] = entries[h]
    BY <2>1 DEF IsRest
  <2>5. (\E j \in DOMAIN entries : after[i] = entries[j]) \/ after[i] = new
    BY <2>2, <2>3, <2>4
  <2> QED  BY <2>5 DEF after, new
<1> QED  BY <1>1, <1>2, InsertionFacts

(* What was covered stays covered, and so does what was offered, when all   *)
(* can be compared.                                                         *)
CoveredBy(entries, v) ==
  \E i \in DOMAIN entries : Dominance(entries[i].objectives, v) \in {"Dominates", "Equal"}

LEMMA OfferedIsCovered ==
  ASSUME problem \in Problems, NEW entries \in Seq(Retained), NEW trace \in Seq(Exchanges),
         NEW objectives \in Vectors, ~Unordered(objectives),
         \A i \in DOMAIN entries : Dominance(objectives, entries[i].objectives) # "Error"
  PROVE  LET after == FrontWith(entries, trace, objectives) IN
         /\ CoveredBy(after, objectives)
         /\ \A v \in Vectors : CoveredBy(entries, v) => CoveredBy(after, v)
         /\ Insertion(objectives, entries) # "Error"
<1> DEFINE rest  == Remaining(entries, objectives)
           new   == [trace |-> trace, objectives |-> objectives]
           after == FrontWith(entries, trace, objectives)
<1>1. CASE /\ after = entries
           /\ \E i \in DOMAIN entries :
                Dominance(objectives, entries[i].objectives) \in {"Error", "Dominated", "Equal"}
                /\ Insertion(objectives, entries) = Dominance(objectives, entries[i].objectives)
  <2>1. PICK i \in DOMAIN entries :
          /\ Dominance(objectives, entries[i].objectives) \in {"Dominated", "Equal"}
          /\ Insertion(objectives, entries) = Dominance(objectives, entries[i].objectives)
    BY <1>1
  <2>2. entries[i].objectives \in Vectors
    BY EntryVectors
  <2>3. Dominance(entries[i].objectives, objectives) \in {"Dominates", "Equal"}
    BY <2>1, <2>2, DominanceFacts
  <2>4. Insertion(objectives, entries) # "Error"
    BY <2>1
  <2> HIDE DEF after
  <2>5. CoveredBy(after, objectives)
    BY <1>1, <2>3 DEF CoveredBy
  <2> QED  BY <1>1, <2>4, <2>5 DEF after
<1>2. CASE /\ after = Append(rest, new)
           /\ Insertion(objectives, entries) = "Inserted"
  <2>1. rest \in Seq(Retained) /\ new \in Retained
    BY RemainingAreUndominated DEF IsRest, Retained
  <2>2. \A k \in DOMAIN entries :
          Dominated(objectives, entries[k]) \/ \E i \in DOMAIN rest : rest[i] = entries[k]
    <3>1. IsRest(rest, entries, objectives)
      BY RemainingAreUndominated
    <3> HIDE DEF rest
    <3> QED  BY <3>1 DEF IsRest
  <2> HIDE DEF rest, new, after
  <2>3. /\ Len(rest) + 1 \in DOMAIN after
        /\ \A i \in DOMAIN rest : i \in DOMAIN after /\ after[i] = rest[i]
        /\ after[Len(rest) + 1] = new
    BY <1>2, <2>1, Appended
  <2>4. new.objectives = objectives
    BY DEF new
  <2>5. ASSUME NEW v \in Vectors, Dominance(objectives, v) \in {"Dominates", "Equal"}
        PROVE  CoveredBy(after, v)
    BY <2>3, <2>4, <2>5 DEF CoveredBy
  <2>6. CoveredBy(after, objectives)
    <3>1. Comparables(objectives, objectives) /\ NoWorse(objectives, objectives)
      <4>1. ASSUME NEW d \in DOMAIN objectives.schema PROVE ~Improves(objectives, objectives, d)
        <5>1. objectives.values[d] \in Int
          BY VectorFacts
        <5> QED  BY <5>1 DEF Improves
      <4> QED  BY <4>1 DEF Comparables, NoWorse
    <3>2. Dominance(objectives, objectives) \in {"Dominates", "Equal"}
      BY <3>1, DominanceFacts
    <3> QED  BY <2>5, <3>2
  <2>7. ASSUME NEW v \in Vectors, CoveredBy(entries, v)
        PROVE  CoveredBy(after, v)
    <3>1. PICK k \in DOMAIN entries : Dominance(entries[k].objectives, v) \in {"Dominates", "Equal"}
      BY <2>7 DEF CoveredBy
    <3>2. CASE Dominated(objectives, entries[k])
      <4>1. entries[k].objectives \in Vectors
        BY EntryVectors
      <4>2. Dominance(objectives, v) \in {"Dominates", "Equal"}
        BY <3>1, <3>2, <4>1, NoWorseTransitive DEF Dominated
      <4> QED  BY <2>5, <4>2
    <3>3. CASE \E i \in DOMAIN rest : rest[i] = entries[k]
      BY <2>3, <3>1, <3>3 DEF CoveredBy
    <3> QED  BY <2>2, <3>2, <3>3
  <2> QED  BY <1>2, <2>6, <2>7 DEF after
<1>3. \/ /\ after = entries
         /\ \E i \in DOMAIN entries :
              Dominance(objectives, entries[i].objectives) \in {"Error", "Dominated", "Equal"}
              /\ Insertion(objectives, entries) = Dominance(objectives, entries[i].objectives)
      \/ /\ after = Append(rest, new)
         /\ Insertion(objectives, entries) = "Inserted"
  BY InsertionFacts
<1> HIDE DEF rest, new, after
<1> QED  BY <1>1, <1>2, <1>3 DEF after

-----------------------------------------------------------------------------
(* The inductive invariant of a Pareto session.                             *)

PathState == [world : Worlds, trace : Seq(Exchanges)]

ParetoSession ==
  [states    : Seq(PathState),
   frontier  : Seq(Nat),
   visited   : SUBSET Worlds,
   results   : [completeness : {"Approximate", "Exact"}, entries : Seq(Retained)],
   expanded  : Nat,
   generated : Nat,
   outcomes  : Nat,
   exhausted : BOOLEAN,
   at : {"returned", "loop", "scan"}, left : Nat, current : Nat, todo : Seq(Exchanges), idle : Nat]

ParetoType == problem \in Problems /\ pareto \in ParetoSession

WorldAt(k) == pareto.states[k].world

(* Whatever waits is retained, and a goal is never scanned. *)
PointersInv ==
  /\ \A i \in DOMAIN pareto.frontier : pareto.frontier[i] \in DOMAIN pareto.states
  /\ pareto.at = "scan" =>
       pareto.current \in DOMAIN pareto.states /\ WorldAt(pareto.current) \notin problem.goals

(* Retained states are reached by their traces, and are what was visited.   *)
StatesInv ==
  /\ \A k \in DOMAIN pareto.states : Replays(pareto.states[k].trace, WorldAt(k))
  /\ \A k \in DOMAIN pareto.states : WorldAt(k) \in pareto.visited
  /\ \A w \in pareto.visited : \E k \in DOMAIN pareto.states : WorldAt(k) = w
  /\ problem.initial \in pareto.visited

(* A state still waits, or is being scanned and what is not to do of it is  *)
(* done, or is done with: a goal is covered, another state has all its      *)
(* successors visited.                                                      *)
Waits(k) == \E i \in DOMAIN pareto.frontier : pareto.frontier[i] = k

Scanned(k) ==
  /\ pareto.at = "scan" /\ k = pareto.current
  /\ \A i \in DOMAIN problem.candidates[WorldAt(k)] :
       \/ Outcome(WorldAt(k), problem.candidates[WorldAt(k)][i]) \in pareto.visited \cup {Refused}
       \/ \E j \in DOMAIN pareto.todo : pareto.todo[j] = problem.candidates[WorldAt(k)][i]

Handled(w) ==
  IF w \in problem.goals THEN CoveredBy(Entries, problem.project[w])
  ELSE Successors(w) \subseteq pareto.visited

WorkInv ==
  Comparable => \A k \in DOMAIN pareto.states : Waits(k) \/ Scanned(k) \/ Handled(WorldAt(k))

ParetoOverInv ==
  pareto.exhausted \/ pareto.results.completeness = "Exact" =>
    pareto.at = "returned" /\ pareto.exhausted /\ pareto.frontier = <<>>

EntriesInv ==
  /\ Incomparables(Entries)
  /\ \A i \in DOMAIN Entries : \E w \in problem.goals :
       problem.project[w] = Entries[i].objectives /\ Replays(Entries[i].trace, w)

ParetoInv ==
  ParetoType /\ PointersInv /\ StatesInv /\ WorkInv /\ ParetoOverInv /\ EntriesInv

LEMMA ProblemType ==
  ASSUME problem \in Problems
  PROVE  /\ problem.initial \in Worlds
         /\ problem.goals \subseteq Worlds
         /\ problem.candidates \in [Worlds -> Seq(Exchanges)]
         /\ problem.outcome \in [Worlds -> [Exchanges -> Worlds \cup {Refused}]]
         /\ \A w \in Worlds : problem.project[w] \in Vectors
  BY ProblemAssumption DEF Vectors

(* A problem is never changed, nor what is said of it alone. *)
LEMMA ProblemKept ==
  ASSUME problem' = problem
  PROVE  /\ Vectors' = Vectors /\ Retained' = Retained /\ ParetoSession' = ParetoSession
         /\ \A trace, w : Replays(trace, w)' <=> Replays(trace, w)
         /\ \A w : Successors(w)' = Successors(w)
         /\ Comparable' <=> Comparable
  BY DEF Vectors, Retained, ParetoSession, Replays, Outcome, Successors, Comparable

LEMMA ParetoInvInit == ParetoInit => ParetoInv
<1> SUFFICES ASSUME ParetoInit PROVE ParetoInv
  OBVIOUS
<1>1. problem \in Problems /\ problem.initial \in Worlds
  BY ProblemAssumption DEF ParetoInit
<1> DEFINE start == [world |-> problem.initial, trace |-> <<>>]
<1>2. start \in PathState /\ <<start>> \in Seq(PathState) /\ DOMAIN <<start>> = {1} /\ <<start>>[1] = start
  BY <1>1 DEF PathState
<1>3. /\ pareto.states = <<start>> /\ pareto.frontier = <<1>> /\ pareto.visited = {problem.initial}
      /\ Entries = <<>> /\ pareto.at = "returned" /\ ~pareto.exhausted
      /\ pareto.results.completeness = "Approximate"
  BY DEF ParetoInit, ParetoNew, Entries
<1>4. ParetoType
  <2>1. MaxIdle \in Nat /\ <<1>> \in Seq(Nat) /\ <<>> \in Seq(Exchanges) /\ <<>> \in Seq(Retained)
    BY SearchAssumption
  <2>2. {problem.initial} \in SUBSET Worlds
    BY <1>1
  <2>3. ParetoNew \in ParetoSession
    BY <1>2, <2>1, <2>2 DEF ParetoNew, ParetoSession
  <2> QED  BY <1>1, <2>3 DEF ParetoInit, ParetoType
<1>5. WorldAt(1) = problem.initial /\ pareto.states[1].trace = <<>> /\ DOMAIN pareto.states = {1}
  BY <1>2, <1>3 DEF WorldAt
<1>6. Replays(<<>>, problem.initial)
  <2> DEFINE path == [i \in 0 .. 0 |-> problem.initial]
  <2>1. path \in [0 .. Len(<<>>) -> Worlds] /\ path[0] = problem.initial /\ Len(<<>>) = 0
    BY <1>1
  <2>2. 1 .. Len(<<>>) = {}
    OBVIOUS
  <2> HIDE DEF path
  <2> QED  BY <2>1, <2>2 DEF Replays
<1>7. StatesInv
  BY <1>3, <1>5, <1>6 DEF StatesInv
<1>8. PointersInv /\ WorkInv
  <2>1. DOMAIN pareto.frontier = {1} /\ pareto.frontier[1] = 1
    BY <1>3
  <2> QED  BY <1>3, <1>5, <2>1 DEF PointersInv, WorkInv, Waits
<1>9. ParetoOverInv /\ EntriesInv
  BY <1>3 DEF ParetoOverInv, EntriesInv, Incomparables
<1> QED  BY <1>4, <1>7, <1>8, <1>9 DEF ParetoInv

(* Steps that leave alone what is retained, what waits and the front, and   *)
(* begin and end outside the scan.                                          *)
Still ==
  /\ problem' = problem
  /\ pareto'.states = pareto.states /\ pareto'.frontier = pareto.frontier
  /\ pareto'.visited = pareto.visited /\ pareto'.results.entries = pareto.results.entries
  /\ pareto.at # "scan" /\ pareto'.at # "scan"

LEMMA StillKeeps ==
  ASSUME ParetoInv, Still
  PROVE  PointersInv' /\ StatesInv' /\ WorkInv' /\ EntriesInv'
<1> USE DEF Still
<1>1. \A k : WorldAt(k)' = WorldAt(k)
  BY DEF WorldAt
<1>2. PointersInv'
  BY <1>1 DEF ParetoInv, PointersInv
<1>3. StatesInv'
  BY <1>1, ProblemKept DEF ParetoInv, StatesInv
<1>4. EntriesInv'
  BY ProblemKept DEF ParetoInv, EntriesInv, Entries, Incomparables
<1>5. WorkInv'
  <2> SUFFICES ASSUME Comparable, NEW k \in DOMAIN pareto.states
               PROVE  Waits(k)' \/ Handled(WorldAt(k))'
    BY <1>1, ProblemKept DEF WorkInv
  <2>1. Waits(k) \/ Handled(WorldAt(k))
    BY DEF ParetoInv, WorkInv, Scanned
  <2>2. CASE Waits(k)
    BY <2>2 DEF Waits
  <2>3. CASE Handled(WorldAt(k))
    BY <1>1, <2>3, ProblemKept DEF Handled, Entries, CoveredBy
  <2> QED  BY <2>1, <2>2, <2>3
<1> QED  BY <1>2, <1>3, <1>4, <1>5

LEMMA QuietKeeps ==
  ASSUME ParetoInv,
         \/ \E units \in Budgets : ParetoAdvance(units)
         \/ ParetoInterrupt \/ ParetoExpandNone \/ ParetoReturn
  PROVE  ParetoInv'
<1> USE DEF ParetoInv, ParetoType, ParetoSession
<1>1. ASSUME NEW units \in Budgets, ParetoAdvance(units)
      PROVE  ParetoType' /\ Still /\ ParetoOverInv'
  <2>1. units \in Nat /\ (units = 0 => pareto.idle - 1 \in Nat)
    <3>1. units \in Nat /\ pareto.idle \in Nat
      BY SearchAssumption
    <3>2. units = 0 => pareto.idle > 0
      BY <1>1 DEF ParetoAdvance
    <3> QED  BY <3>1, <3>2
  <2>2. ParetoType' /\ Still
    BY <1>1, <2>1, ProblemKept DEF ParetoAdvance, Still
  <2>3. ParetoOverInv'
    BY <1>1 DEF ParetoAdvance, ParetoOverInv
  <2> QED  BY <2>2, <2>3
<1>2. CASE ParetoInterrupt
  <2>1. pareto.idle - 1 \in Nat
    BY <1>2 DEF ParetoInterrupt
  <2>2. ParetoType' /\ Still
    BY <1>2, <2>1, ProblemKept DEF ParetoInterrupt, Still
  <2>3. ParetoOverInv'
    BY <1>2 DEF ParetoInterrupt, ParetoOverInv
  <2> QED  BY <2>2, <2>3, StillKeeps
<1>3. CASE ParetoExpandNone \/ (ParetoReturn /\ pareto.frontier = <<>>)
  <2>1. pareto' = Finish(pareto) /\ problem' = problem /\ pareto.at = "loop" /\ pareto.frontier = <<>>
    BY <1>3 DEF ParetoExpandNone, ParetoReturn
  <2>2. ParetoType' /\ Still
    BY <2>1, ProblemKept DEF Finish, Still
  <2>3. ParetoOverInv'
    BY <2>1 DEF Finish, ParetoOverInv
  <2> QED  BY <2>2, <2>3, StillKeeps
<1>4. CASE ParetoReturn /\ pareto.frontier # <<>>
  <2>1. ParetoType' /\ Still
    BY <1>4, ProblemKept DEF ParetoReturn, Still
  <2>2. ParetoOverInv'
    BY <1>4 DEF ParetoReturn, ParetoOverInv
  <2> QED  BY <2>1, <2>2, StillKeeps
<1> QED  BY <1>1, <1>2, <1>3, <1>4, StillKeeps

(* A turn takes the head of the frontier. *)
LEMMA TurnFacts ==
  ASSUME ParetoInv, ParetoTurn
  PROVE  LET head == Head(pareto.frontier) IN
         /\ head \in DOMAIN pareto.states /\ head = pareto.frontier[1] /\ head \in Nat
         /\ pareto.states[head] \in PathState /\ PoppedWorld = WorldAt(head) /\ PoppedWorld \in Worlds
         /\ Tail(pareto.frontier) \in Seq(Nat)
         /\ \A i \in DOMAIN Tail(pareto.frontier) :
              i + 1 \in DOMAIN pareto.frontier /\ Tail(pareto.frontier)[i] = pareto.frontier[i + 1]
         /\ \A k : k = head \/ (Waits(k) =>
              \E i \in DOMAIN Tail(pareto.frontier) : Tail(pareto.frontier)[i] = k)
         /\ pareto.left - 1 \in Nat /\ pareto.expanded + 1 \in Nat
         /\ pareto.at = "loop" /\ ~pareto.exhausted /\ pareto.results.completeness = "Approximate"
<1> DEFINE head == Head(pareto.frontier)
<1> USE DEF ParetoInv, ParetoType, ParetoSession, ParetoTurn
<1>1. /\ head = pareto.frontier[1] /\ 1 \in DOMAIN pareto.frontier /\ head \in Nat
      /\ Tail(pareto.frontier) \in Seq(Nat)
      /\ \A i \in DOMAIN Tail(pareto.frontier) :
           i + 1 \in DOMAIN pareto.frontier /\ Tail(pareto.frontier)[i] = pareto.frontier[i + 1]
      /\ \A i \in DOMAIN pareto.frontier :
           i = 1 \/ (i - 1 \in DOMAIN Tail(pareto.frontier)
                      /\ Tail(pareto.frontier)[i - 1] = pareto.frontier[i])
  BY HeadTail
<1>2. head \in DOMAIN pareto.states
  BY <1>1 DEF PointersInv
<1>3. pareto.states[head] \in PathState
  BY <1>2
<1>4. PoppedWorld = WorldAt(head) /\ PoppedWorld \in Worlds
  BY <1>3 DEF PoppedWorld, WorldAt, PathState
<1>5. pareto.left - 1 \in Nat /\ pareto.expanded + 1 \in Nat
  OBVIOUS
<1>6. ~pareto.exhausted /\ pareto.results.completeness = "Approximate"
  BY DEF ParetoOverInv
<1>7. ASSUME NEW k, k # head, Waits(k)
      PROVE  \E i \in DOMAIN Tail(pareto.frontier) : Tail(pareto.frontier)[i] = k
  <2>1. PICK i \in DOMAIN pareto.frontier : pareto.frontier[i] = k
    BY <1>7 DEF Waits
  <2>2. i # 1
    BY <1>1, <1>7, <2>1
  <2>3. i - 1 \in DOMAIN Tail(pareto.frontier) /\ Tail(pareto.frontier)[i - 1] = k
    BY <1>1, <2>1, <2>2
  <2> QED  BY <2>3
<1>8. \A k : k = head \/ (Waits(k) =>
        \E i \in DOMAIN Tail(pareto.frontier) : Tail(pareto.frontier)[i] = k)
  <2> HIDE DEF head
  <2> QED  BY <1>7
<1> QED  BY <1>1, <1>2, <1>3, <1>4, <1>5, <1>6, <1>8

LEMMA ParetoExpandKeeps ==
  ASSUME ParetoInv, ParetoExpand
  PROVE  ParetoInv'
<1> DEFINE head == Head(pareto.frontier)
<1>1. ParetoTurn /\ PoppedWorld \notin problem.goals /\ problem' = problem /\ pareto \in ParetoSession
  BY DEF ParetoExpand, ParetoInv, ParetoType
<1>2. /\ head \in DOMAIN pareto.states /\ head \in Nat /\ PoppedWorld = WorldAt(head) /\ PoppedWorld \in Worlds
      /\ pareto.left - 1 \in Nat /\ pareto.expanded + 1 \in Nat
      /\ pareto.at = "loop" /\ ~pareto.exhausted /\ pareto.results.completeness = "Approximate"
  BY <1>1, TurnFacts
<1>3. /\ Tail(pareto.frontier) \in Seq(Nat)
      /\ \A i \in DOMAIN Tail(pareto.frontier) :
           i + 1 \in DOMAIN pareto.frontier /\ Tail(pareto.frontier)[i] = pareto.frontier[i + 1]
      /\ \A k : k = head \/ (Waits(k) =>
           \E i \in DOMAIN Tail(pareto.frontier) : Tail(pareto.frontier)[i] = k)
  BY <1>1, TurnFacts
<1> HIDE DEF head
<1>4. problem.candidates[PoppedWorld] \in Seq(Exchanges)
  BY <1>2, ProblemType DEF ParetoInv, ParetoType
<1>5. /\ pareto'.states = pareto.states /\ pareto'.visited = pareto.visited
      /\ pareto'.frontier = Tail(pareto.frontier) /\ pareto'.results = pareto.results
      /\ pareto'.exhausted = pareto.exhausted
      /\ pareto'.at = "scan" /\ pareto'.current = head /\ pareto'.todo = problem.candidates[PoppedWorld]
  BY <1>1 DEF ParetoExpand, Popped, ParetoSession, head
<1>6. pareto' \in ParetoSession
  BY <1>1, <1>2, <1>3, <1>4 DEF ParetoExpand, Popped, ParetoSession, head
<1>7. \A k : WorldAt(k)' = WorldAt(k)
  BY <1>5 DEF WorldAt
<1>8. ParetoType'
  BY <1>1, <1>6, ProblemKept DEF ParetoInv, ParetoType
<1>9. PointersInv'
  BY <1>1, <1>2, <1>3, <1>5, <1>7 DEF ParetoInv, PointersInv
<1>10. StatesInv'
  BY <1>1, <1>5, <1>7, ProblemKept DEF ParetoInv, StatesInv
<1>11. EntriesInv'
  BY <1>1, <1>5, ProblemKept DEF ParetoInv, EntriesInv, Entries, Incomparables
<1>12. ParetoOverInv'
  BY <1>2, <1>5 DEF ParetoOverInv
<1>13. WorkInv'
  <2> SUFFICES ASSUME Comparable, NEW k \in DOMAIN pareto.states
               PROVE  Waits(k)' \/ Scanned(k)' \/ Handled(WorldAt(k))'
    BY <1>1, <1>5, <1>7, ProblemKept DEF WorkInv
  <2>1. CASE k = head
    BY <1>1, <1>2, <1>5, <1>7, <2>1 DEF Scanned
  <2>2. CASE k # head /\ Waits(k)
    BY <1>3, <1>5, <2>2 DEF Waits
  <2>3. CASE Handled(WorldAt(k))
    BY <1>1, <1>5, <1>7, <2>3, ProblemKept DEF Handled, Entries, CoveredBy
  <2>4. ~Scanned(k)
    BY <1>2 DEF Scanned
  <2> QED  BY <2>1, <2>2, <2>3, <2>4 DEF ParetoInv, WorkInv
<1> QED  BY <1>8, <1>9, <1>10, <1>11, <1>12, <1>13 DEF ParetoInv

(* A goal is offered to the front. *)
LEMMA GoalKeeps ==
  ASSUME ParetoInv, ParetoGoal
  PROVE  ParetoInv'
<1> DEFINE head       == Head(pareto.frontier)
           trace      == pareto.states[head].trace
           objectives == problem.project[PoppedWorld]
           refused    == Insertion(objectives, Entries) = "Error"
           after      == FrontWith(Entries, trace, objectives)
<1>1. /\ ParetoTurn /\ PoppedWorld \in problem.goals /\ problem' = problem
      /\ pareto \in ParetoSession /\ problem \in Problems
  BY DEF ParetoGoal, ParetoInv, ParetoType
<1>2. /\ head \in DOMAIN pareto.states /\ head \in Nat /\ PoppedWorld = WorldAt(head) /\ PoppedWorld \in Worlds
      /\ pareto.left - 1 \in Nat /\ pareto.expanded + 1 \in Nat /\ pareto.states[head] \in PathState
      /\ pareto.at = "loop" /\ ~pareto.exhausted /\ pareto.results.completeness = "Approximate"
  BY <1>1, TurnFacts
<1>3. /\ Tail(pareto.frontier) \in Seq(Nat)
      /\ \A i \in DOMAIN Tail(pareto.frontier) :
           i + 1 \in DOMAIN pareto.frontier /\ Tail(pareto.frontier)[i] = pareto.frontier[i + 1]
      /\ \A k : k = head \/ (Waits(k) =>
           \E i \in DOMAIN Tail(pareto.frontier) : Tail(pareto.frontier)[i] = k)
  BY <1>1, TurnFacts
<1>4. /\ Entries \in Seq(Retained) /\ trace \in Seq(Exchanges) /\ objectives \in Vectors
      /\ Replays(trace, PoppedWorld)
  <2>1. Entries \in Seq(Retained)
    BY <1>1 DEF Entries, ParetoSession
  <2>2. trace \in Seq(Exchanges)
    BY <1>2 DEF PathState
  <2>3. Replays(trace, PoppedWorld)
    BY <1>2 DEF ParetoInv, StatesInv
  <2> QED  BY <1>1, <1>2, <2>1, <2>2, <2>3, ProblemType
<1>5. after \in Seq(Retained) /\ Incomparables(after)
  BY <1>1, <1>4, FrontStaysIncomparable DEF ParetoInv, EntriesInv
<1> DEFINE popped == Popped(IF refused THEN "returned" ELSE "loop")
<1>6. pareto' = [popped EXCEPT !.outcomes = @ + 1, !.results.entries = after]
  <2>1. popped.results.entries = Entries
    BY <1>1 DEF Popped, ParetoSession, Entries
  <2> HIDE DEF head
  <2> QED  BY <2>1 DEF ParetoGoal, Entries, head
<1>7. /\ pareto'.states = pareto.states /\ pareto'.visited = pareto.visited
      /\ pareto'.frontier = Tail(pareto.frontier) /\ pareto'.results.entries = after
      /\ pareto'.results.completeness = pareto.results.completeness
      /\ pareto'.exhausted = pareto.exhausted /\ pareto'.at # "scan"
  <2> HIDE DEF after, refused
  <2> QED  BY <1>1, <1>6 DEF Popped, ParetoSession
<1>8. pareto' \in ParetoSession
  <2>1. popped \in ParetoSession
    <3> HIDE DEF after, refused
    <3>1. popped = [pareto EXCEPT !.at = IF refused THEN "returned" ELSE "loop",
                      !.left = pareto.left - 1, !.expanded = pareto.expanded + 1,
                      !.current = head, !.frontier = Tail(pareto.frontier)]
      BY <1>1 DEF Popped, ParetoSession
    <3> HIDE DEF popped, head
    <3> QED  BY <1>1, <1>2, <1>3, <3>1 DEF ParetoSession
  <2> HIDE DEF popped, after
  <2>2. popped.outcomes + 1 \in Nat
    BY <2>1 DEF ParetoSession
  <2> QED  BY <1>5, <1>6, <2>1, <2>2 DEF ParetoSession
<1>9. \A k : WorldAt(k)' = WorldAt(k)
  BY <1>7 DEF WorldAt
<1>10. ParetoType'
  BY <1>1, <1>8, ProblemKept DEF ParetoInv, ParetoType
<1>11. PointersInv'
  BY <1>1, <1>2, <1>3, <1>7, <1>9 DEF ParetoInv, PointersInv
<1>12. StatesInv'
  BY <1>1, <1>7, <1>9, ProblemKept DEF ParetoInv, StatesInv
<1>13. ParetoOverInv'
  BY <1>2, <1>7 DEF ParetoOverInv
<1>14. EntriesInv'
  <2>1. ASSUME NEW i \in DOMAIN after
        PROVE  \E w \in problem.goals : problem.project[w] = after[i].objectives /\ Replays(after[i].trace, w)
    <3>1. \/ \E j \in DOMAIN Entries : after[i] = Entries[j]
          \/ after[i] = [trace |-> trace, objectives |-> objectives]
      BY <1>1, <1>4, FrontOrigins
    <3>2. CASE \E j \in DOMAIN Entries : after[i] = Entries[j]
      BY <3>2 DEF ParetoInv, EntriesInv
    <3>3. CASE after[i] = [trace |-> trace, objectives |-> objectives]
      <4> HIDE DEF after
      <4>1. after[i].trace = trace /\ after[i].objectives = objectives
        BY <3>3
      <4> QED  BY <1>1, <1>4, <4>1
    <3> QED  BY <3>1, <3>2, <3>3
  <2> HIDE DEF after
  <2> QED  BY <1>1, <1>5, <1>7, <2>1, ProblemKept DEF EntriesInv, Entries, Incomparables
<1>15. WorkInv'
  <2> SUFFICES ASSUME Comparable, NEW k \in DOMAIN pareto.states
               PROVE  Waits(k)' \/ Handled(WorldAt(k))'
    BY <1>1, <1>7, <1>9, ProblemKept DEF WorkInv
  <2>1. /\ ~Unordered(objectives)
        /\ \A i \in DOMAIN Entries : Dominance(objectives, Entries[i].objectives) # "Error"
    <3>1. Dominance(objectives, objectives) # "Error"
      BY <1>1 DEF Comparable
    <3>2. ASSUME NEW i \in DOMAIN Entries
          PROVE  Dominance(objectives, Entries[i].objectives) # "Error"
      <4>1. PICK w \in problem.goals : problem.project[w] = Entries[i].objectives
        BY DEF ParetoInv, EntriesInv
      <4> QED  BY <1>1, <4>1 DEF Comparable
    <3>3. ~Unordered(objectives)
      BY <1>1, <1>4, <3>1, DominanceFacts DEF Comparables
    <3> QED  BY <3>2, <3>3
  <2>2. CoveredBy(after, objectives) /\ \A v \in Vectors : CoveredBy(Entries, v) => CoveredBy(after, v)
    BY <1>1, <1>4, <2>1, OfferedIsCovered
  <2> HIDE DEF after
  <2>3. \A v : CoveredBy(Entries, v)' <=> CoveredBy(after, v)
    BY <1>7 DEF CoveredBy, Entries
  <2>4. CASE k = head
    BY <1>1, <1>2, <1>9, <2>2, <2>3, <2>4 DEF Handled
  <2>5. CASE k # head /\ Waits(k)
    BY <1>3, <1>7, <2>5 DEF Waits
  <2>6. CASE Handled(WorldAt(k))
    <3>1. WorldAt(k) \in Worlds
      <4>1. pareto.states \in Seq(PathState)
        BY <1>1 DEF ParetoSession
      <4>2. pareto.states[k] \in PathState
        BY <4>1
      <4> QED  BY <4>2 DEF WorldAt, PathState
    <3>2. CASE WorldAt(k) \in problem.goals
      <4>1. problem.project[WorldAt(k)] \in Vectors
        BY <1>1, <3>1, ProblemType
      <4> QED  BY <1>1, <1>9, <2>2, <2>3, <2>6, <3>2, <4>1 DEF Handled
    <3>3. CASE WorldAt(k) \notin problem.goals
      BY <1>1, <1>7, <1>9, <2>6, <3>3, ProblemKept DEF Handled
    <3> QED  BY <3>2, <3>3
  <2>7. ~Scanned(k)
    BY <1>2 DEF Scanned
  <2> QED  BY <2>4, <2>5, <2>6, <2>7 DEF ParetoInv, WorkInv
<1> QED  BY <1>10, <1>11, <1>12, <1>13, <1>14, <1>15 DEF ParetoInv

(* A trace that leads to a world leads, with one more exchange that the     *)
(* kernel accepts, to the outcome.                                          *)
LEMMA LongerTrace ==
  ASSUME NEW trace \in Seq(Exchanges), NEW w, NEW x \in Exchanges,
         Replays(trace, w), Outcome(w, x) \in Worlds
  PROVE  Replays(Append(trace, x), Outcome(w, x))
<1>1. PICK path \in [0 .. Len(trace) -> Worlds] :
        /\ path[0] = problem.initial
        /\ path[Len(trace)] = w
        /\ \A i \in 1 .. Len(trace) : path[i] = Outcome(path[i - 1], trace[i])
  BY DEF Replays
<1> DEFINE longer == Append(trace, x)
           further == [i \in 0 .. Len(longer) |-> IF i <= Len(trace) THEN path[i] ELSE Outcome(w, x)]
<1>2. /\ Len(longer) = Len(trace) + 1 /\ Len(trace) \in Nat
      /\ longer[Len(trace) + 1] = x
      /\ \A i \in 1 .. Len(trace) : longer[i] = trace[i]
  BY Appended
<1>3. further \in [0 .. Len(longer) -> Worlds]
  BY <1>2
<1>4. further[0] = problem.initial /\ further[Len(longer)] = Outcome(w, x)
  BY <1>1, <1>2
<1>5. \A i \in 1 .. Len(longer) : further[i] = Outcome(further[i - 1], longer[i])
  <2> SUFFICES ASSUME NEW i \in 1 .. Len(longer)
               PROVE  further[i] = Outcome(further[i - 1], longer[i])
    OBVIOUS
  <2>1. CASE i \in 1 .. Len(trace)
    <3>1. further[i] = path[i] /\ further[i - 1] = path[i - 1] /\ longer[i] = trace[i]
      BY <1>2, <2>1
    <3> QED  BY <1>1, <2>1, <3>1
  <2>2. CASE i = Len(trace) + 1
    <3>1. further[i] = Outcome(w, x) /\ further[i - 1] = path[Len(trace)] /\ longer[i] = x
      BY <1>2, <2>2
    <3> QED  BY <1>1, <3>1
  <2> QED  BY <1>2, <2>1, <2>2
<1> HIDE DEF longer, further
<1>6. Replays(longer, Outcome(w, x))
  BY <1>3, <1>4, <1>5 DEF Replays
<1> QED  BY <1>6 DEF longer

-----------------------------------------------------------------------------
(* The scan of one economy's candidates. *)

LEMMA ScanFacts ==
  ASSUME ParetoInv, ParetoScanning
  PROVE  /\ pareto \in ParetoSession /\ problem \in Problems
         /\ pareto.current \in DOMAIN pareto.states /\ pareto.states[pareto.current] \in PathState
         /\ ParetoParent.world = WorldAt(pareto.current) /\ WorldAt(pareto.current) \in Worlds
         /\ WorldAt(pareto.current) \notin problem.goals
         /\ Head(pareto.todo) = pareto.todo[1] /\ Head(pareto.todo) \in Exchanges
         /\ Tail(pareto.todo) \in Seq(Exchanges)
         /\ \A i \in DOMAIN pareto.todo :
              pareto.todo[i] # Head(pareto.todo) =>
                \E j \in DOMAIN Tail(pareto.todo) : Tail(pareto.todo)[j] = pareto.todo[i]
         /\ pareto.at = "scan"
         /\ ~pareto.exhausted /\ pareto.results.completeness = "Approximate"
         /\ ParetoNextWorld = Outcome(WorldAt(pareto.current), Head(pareto.todo))
         /\ ParetoNextWorld \in Worlds \cup {Refused}
<1> USE DEF ParetoInv, ParetoType, ParetoScanning
<1>1. pareto.states \in Seq(PathState) /\ pareto.todo \in Seq(Exchanges) /\ pareto.todo # <<>>
  BY DEF ParetoSession
<1>2. /\ Head(pareto.todo) \in Exchanges /\ Head(pareto.todo) = pareto.todo[1]
      /\ Tail(pareto.todo) \in Seq(Exchanges)
      /\ \A i \in DOMAIN pareto.todo :
           i = 1 \/ (i - 1 \in DOMAIN Tail(pareto.todo) /\ Tail(pareto.todo)[i - 1] = pareto.todo[i])
  BY <1>1, HeadTail
<1>3. /\ pareto.current \in DOMAIN pareto.states
      /\ WorldAt(pareto.current) \notin problem.goals
  BY DEF PointersInv
<1>4. pareto.states[pareto.current] \in PathState
  BY <1>1, <1>3
<1>5. ParetoParent.world = WorldAt(pareto.current) /\ WorldAt(pareto.current) \in Worlds
  BY <1>4 DEF ParetoParent, WorldAt, PathState
<1>6. ASSUME NEW i \in DOMAIN pareto.todo, pareto.todo[i] # Head(pareto.todo)
      PROVE  \E j \in DOMAIN Tail(pareto.todo) : Tail(pareto.todo)[j] = pareto.todo[i]
  <2>1. i # 1
    BY <1>2, <1>6
  <2> QED  BY <1>2, <2>1
<1>7. ~pareto.exhausted /\ pareto.results.completeness = "Approximate"
  BY DEF ParetoOverInv, ParetoSession
<1>8. ParetoNextWorld = Outcome(WorldAt(pareto.current), Head(pareto.todo))
  BY <1>5 DEF ParetoNextWorld
<1>9. ParetoNextWorld \in Worlds \cup {Refused}
  BY <1>2, <1>5, <1>8, ProblemType DEF Outcome
<1> QED  BY <1>2, <1>3, <1>4, <1>5, <1>6, <1>7, <1>8, <1>9

LEMMA SkipKeeps ==
  ASSUME ParetoInv, ParetoSkip
  PROVE  ParetoInv'
<1>1. ParetoScanning /\ problem' = problem /\ pareto' = [pareto EXCEPT !.todo = Tail(@)]
      /\ ParetoNextWorld \in pareto.visited \cup {Refused}
  BY DEF ParetoSkip
<1>2. /\ pareto \in ParetoSession /\ problem \in Problems /\ pareto.at = "scan"
      /\ Tail(pareto.todo) \in Seq(Exchanges)
      /\ ~pareto.exhausted /\ pareto.results.completeness = "Approximate"
      /\ ParetoNextWorld = Outcome(WorldAt(pareto.current), Head(pareto.todo))
  BY <1>1, ScanFacts
<1>3. \A i \in DOMAIN pareto.todo : pareto.todo[i] # Head(pareto.todo) =>
        \E j \in DOMAIN Tail(pareto.todo) : Tail(pareto.todo)[j] = pareto.todo[i]
  BY <1>1, ScanFacts
<1>4. /\ pareto'.states = pareto.states /\ pareto'.visited = pareto.visited
      /\ pareto'.frontier = pareto.frontier /\ pareto'.results = pareto.results
      /\ pareto'.exhausted = pareto.exhausted /\ pareto'.at = pareto.at
      /\ pareto'.current = pareto.current /\ pareto'.todo = Tail(pareto.todo)
      /\ pareto' \in ParetoSession
  BY <1>1, <1>2 DEF ParetoSession
<1>5. \A k : WorldAt(k)' = WorldAt(k)
  BY <1>4 DEF WorldAt
<1>6. ParetoType' /\ PointersInv' /\ StatesInv' /\ EntriesInv' /\ ParetoOverInv'
  <2>1. ParetoType'
    BY <1>1, <1>2, <1>4, ProblemKept DEF ParetoType
  <2>2. PointersInv'
    BY <1>1, <1>4, <1>5 DEF ParetoInv, PointersInv
  <2>3. StatesInv'
    BY <1>1, <1>4, <1>5, ProblemKept DEF ParetoInv, StatesInv
  <2>4. EntriesInv'
    BY <1>1, <1>4, ProblemKept DEF ParetoInv, EntriesInv, Entries, Incomparables
  <2>5. ParetoOverInv'
    BY <1>2, <1>4 DEF ParetoOverInv
  <2> QED  BY <2>1, <2>2, <2>3, <2>4, <2>5
<1>7. WorkInv'
  <2> SUFFICES ASSUME Comparable, NEW k \in DOMAIN pareto.states
               PROVE  Waits(k)' \/ Scanned(k)' \/ Handled(WorldAt(k))'
    BY <1>1, <1>4, <1>5, ProblemKept DEF WorkInv
  <2>1. CASE Waits(k)
    BY <1>4, <2>1 DEF Waits
  <2>2. CASE Handled(WorldAt(k))
    BY <1>1, <1>4, <1>5, <2>2, ProblemKept DEF Handled, Entries, CoveredBy
  <2>3. CASE Scanned(k)
    <3> DEFINE settled(i) ==
          Outcome(WorldAt(k), problem.candidates[WorldAt(k)][i]) \in pareto.visited \cup {Refused}
    <3>1. ASSUME NEW i \in DOMAIN problem.candidates[WorldAt(k)]
          PROVE  \/ settled(i)
                 \/ \E j \in DOMAIN Tail(pareto.todo) :
                      Tail(pareto.todo)[j] = problem.candidates[WorldAt(k)][i]
      <4>1. CASE problem.candidates[WorldAt(k)][i] = Head(pareto.todo)
        BY <1>1, <1>2, <2>3, <4>1 DEF Scanned
      <4>2. CASE problem.candidates[WorldAt(k)][i] # Head(pareto.todo)
        BY <1>3, <2>3, <4>2 DEF Scanned
      <4> QED  BY <4>1, <4>2
    <3>2. k = pareto.current
      BY <2>3 DEF Scanned
    <3> QED  BY <1>1, <1>2, <1>4, <1>5, <3>1, <3>2 DEF Scanned, Outcome
  <2> QED  BY <2>1, <2>2, <2>3 DEF ParetoInv, WorkInv
<1> QED  BY <1>6, <1>7 DEF ParetoInv

LEMMA DiscoverKeeps ==
  ASSUME ParetoInv, ParetoDiscover
  PROVE  ParetoInv'
<1> DEFINE child == [world |-> ParetoNextWorld,
                     trace |-> Append(ParetoParent.trace, Head(pareto.todo))]
<1> PICK fresh : fresh = Len(pareto.states) + 1
  OBVIOUS
<1>1. /\ ParetoScanning /\ problem' = problem
      /\ ParetoNextWorld \notin pareto.visited \cup {Refused}
      /\ pareto' = [pareto EXCEPT
           !.todo = Tail(@), !.visited = @ \cup {ParetoNextWorld}, !.generated = @ + 1,
           !.states = Append(@, child), !.frontier = Append(@, fresh)]
  BY DEF ParetoDiscover
<1>2. /\ pareto \in ParetoSession /\ problem \in Problems /\ pareto.at = "scan"
      /\ Tail(pareto.todo) \in Seq(Exchanges) /\ Head(pareto.todo) \in Exchanges
      /\ pareto.current \in DOMAIN pareto.states /\ pareto.states[pareto.current] \in PathState
      /\ WorldAt(pareto.current) \notin problem.goals
      /\ ~pareto.exhausted /\ pareto.results.completeness = "Approximate"
      /\ ParetoNextWorld = Outcome(WorldAt(pareto.current), Head(pareto.todo))
      /\ ParetoNextWorld \in Worlds
  BY <1>1, ScanFacts
<1>3. \A i \in DOMAIN pareto.todo : pareto.todo[i] # Head(pareto.todo) =>
        \E j \in DOMAIN Tail(pareto.todo) : Tail(pareto.todo)[j] = pareto.todo[i]
  BY <1>1, ScanFacts
<1>4. child \in PathState /\ child.world = ParetoNextWorld /\ Replays(child.trace, ParetoNextWorld)
  <2>1. ParetoParent.trace \in Seq(Exchanges)
    BY <1>2 DEF ParetoParent, PathState
  <2>2. Append(ParetoParent.trace, Head(pareto.todo)) \in Seq(Exchanges)
    BY <1>2, <2>1
  <2>3. Replays(ParetoParent.trace, WorldAt(pareto.current))
    BY <1>2 DEF ParetoInv, StatesInv, ParetoParent
  <2>4. Replays(Append(ParetoParent.trace, Head(pareto.todo)), ParetoNextWorld)
    BY <1>2, <2>1, <2>3, LongerTrace
  <2> QED  BY <1>2, <2>2, <2>4 DEF PathState
<1> HIDE DEF child
<1>5. /\ fresh \in Nat /\ fresh \notin DOMAIN pareto.states
      /\ Append(pareto.states, child) \in Seq(PathState)
      /\ DOMAIN Append(pareto.states, child) = DOMAIN pareto.states \cup {fresh}
      /\ Append(pareto.states, child)[fresh] = child
      /\ \A k \in DOMAIN pareto.states : Append(pareto.states, child)[k] = pareto.states[k]
  <2>1. pareto.states \in Seq(PathState)
    BY <1>2 DEF ParetoSession
  <2> QED  BY <1>4, <2>1, Appended
<1>6. /\ Append(pareto.frontier, fresh) \in Seq(Nat)
      /\ \A i \in DOMAIN pareto.frontier :
           i \in DOMAIN Append(pareto.frontier, fresh)
           /\ Append(pareto.frontier, fresh)[i] = pareto.frontier[i]
      /\ \E i \in DOMAIN Append(pareto.frontier, fresh) : Append(pareto.frontier, fresh)[i] = fresh
      /\ \A i \in DOMAIN Append(pareto.frontier, fresh) :
           Append(pareto.frontier, fresh)[i] = fresh
           \/ (i \in DOMAIN pareto.frontier /\ Append(pareto.frontier, fresh)[i] = pareto.frontier[i])
  <2>1. pareto.frontier \in Seq(Nat)
    BY <1>2 DEF ParetoSession
  <2> QED  BY <1>5, <2>1, Appended
<1>7. /\ pareto'.states = Append(pareto.states, child)
      /\ pareto'.visited = pareto.visited \cup {ParetoNextWorld}
      /\ pareto'.frontier = Append(pareto.frontier, fresh) /\ pareto'.results = pareto.results
      /\ pareto'.exhausted = pareto.exhausted /\ pareto'.at = pareto.at
      /\ pareto'.current = pareto.current /\ pareto'.todo = Tail(pareto.todo)
  BY <1>1, <1>2 DEF ParetoSession
<1>8. pareto' \in ParetoSession
  <2>1. pareto.generated + 1 \in Nat /\ pareto.visited \cup {ParetoNextWorld} \in SUBSET Worlds
    BY <1>2 DEF ParetoSession
  <2> QED  BY <1>1, <1>2, <1>5, <1>6, <2>1 DEF ParetoSession
<1>9. /\ \A k \in DOMAIN pareto.states : WorldAt(k)' = WorldAt(k)
      /\ WorldAt(fresh)' = ParetoNextWorld
      /\ DOMAIN pareto'.states = DOMAIN pareto.states \cup {fresh}
  <2>1. child.world = ParetoNextWorld
    BY <1>4
  <2> QED  BY <1>5, <1>7, <2>1 DEF WorldAt
<1>10. ParetoType' /\ EntriesInv' /\ ParetoOverInv'
  <2>1. ParetoType'
    BY <1>1, <1>2, <1>8, ProblemKept DEF ParetoType
  <2>2. EntriesInv'
    BY <1>1, <1>7, ProblemKept DEF ParetoInv, EntriesInv, Entries, Incomparables
  <2>3. ParetoOverInv'
    BY <1>2, <1>7 DEF ParetoOverInv
  <2> QED  BY <2>1, <2>2, <2>3
<1>11. PointersInv'
  <2>1. ASSUME NEW i \in DOMAIN pareto'.frontier
        PROVE  pareto'.frontier[i] \in DOMAIN pareto'.states
    BY <1>6, <1>7, <1>9, <2>1 DEF ParetoInv, PointersInv
  <2> QED  BY <1>1, <1>2, <1>7, <1>9, <2>1 DEF PointersInv
<1>12. StatesInv'
  <2>1. ASSUME NEW k \in DOMAIN pareto'.states
        PROVE  Replays(pareto'.states[k].trace, WorldAt(k)') /\ WorldAt(k)' \in pareto'.visited
    <3>1. CASE k = fresh
      BY <1>4, <1>5, <1>7, <1>9, <3>1
    <3>2. CASE k \in DOMAIN pareto.states
      BY <1>5, <1>7, <1>9, <3>2 DEF ParetoInv, StatesInv
    <3> QED  BY <1>9, <3>1, <3>2
  <2>2. ASSUME NEW w \in pareto'.visited
        PROVE  \E k \in DOMAIN pareto'.states : WorldAt(k)' = w
    <3>1. CASE w = ParetoNextWorld
      BY <1>9, <3>1
    <3>2. CASE w \in pareto.visited
      BY <1>9, <3>2 DEF ParetoInv, StatesInv
    <3> QED  BY <1>7, <3>1, <3>2
  <2>3. problem'.initial \in pareto'.visited
    BY <1>1, <1>7 DEF ParetoInv, StatesInv
  <2> QED  BY <1>1, <2>1, <2>2, <2>3, ProblemKept DEF StatesInv
<1>13. WorkInv'
  <2> SUFFICES ASSUME Comparable, NEW k \in DOMAIN pareto'.states
               PROVE  Waits(k)' \/ Scanned(k)' \/ Handled(WorldAt(k))'
    BY <1>1, ProblemKept DEF WorkInv
  <2>1. CASE k = fresh
    BY <1>6, <1>7, <2>1 DEF Waits
  <2>2. CASE k \in DOMAIN pareto.states /\ Waits(k)
    BY <1>6, <1>7, <2>2 DEF Waits
  <2>3. CASE k \in DOMAIN pareto.states /\ Handled(WorldAt(k))
    <3>1. WorldAt(k)' = WorldAt(k)
      BY <1>9, <2>3
    <3>2. CASE WorldAt(k) \in problem.goals
      BY <1>1, <1>7, <2>3, <3>1, <3>2 DEF Handled, Entries, CoveredBy
    <3>3. CASE WorldAt(k) \notin problem.goals
      BY <1>1, <1>7, <2>3, <3>1, <3>3, ProblemKept DEF Handled
    <3> QED  BY <3>2, <3>3
  <2>4. CASE k \in DOMAIN pareto.states /\ Scanned(k)
    <3>1. k = pareto.current /\ WorldAt(k)' = WorldAt(k)
      BY <1>9, <2>4 DEF Scanned
    <3>2. ASSUME NEW i \in DOMAIN problem.candidates[WorldAt(k)]
          PROVE  \/ Outcome(WorldAt(k), problem.candidates[WorldAt(k)][i])
                      \in pareto'.visited \cup {Refused}
                 \/ \E j \in DOMAIN Tail(pareto.todo) :
                      Tail(pareto.todo)[j] = problem.candidates[WorldAt(k)][i]
      <4>1. CASE problem.candidates[WorldAt(k)][i] = Head(pareto.todo)
        BY <1>2, <1>7, <3>1, <4>1
      <4>2. CASE problem.candidates[WorldAt(k)][i] # Head(pareto.todo)
        BY <1>3, <1>7, <2>4, <4>2 DEF Scanned
      <4> QED  BY <4>1, <4>2
    <3>3. /\ pareto'.at = "scan" /\ k = pareto'.current /\ pareto'.todo = Tail(pareto.todo)
          /\ problem' = problem
      BY <1>1, <1>2, <1>7, <3>1
    <3>4. \A w, x : Outcome(w, x)' = Outcome(w, x)
      BY <3>3 DEF Outcome
    <3>5. Scanned(k)'
      BY <3>1, <3>2, <3>3, <3>4 DEF Scanned
    <3> QED  BY <3>5
  <2> QED  BY <1>9, <2>1, <2>2, <2>3, <2>4 DEF ParetoInv, WorkInv
<1> QED  BY <1>10, <1>11, <1>12, <1>13 DEF ParetoInv

(* When nothing is left to do of an economy, all its successors have been   *)
(* visited.                                                                 *)
LEMMA ScanEndKeeps ==
  ASSUME ParetoInv, ParetoScanEnd
  PROVE  ParetoInv'
<1>1. /\ problem' = problem /\ pareto.at = "scan" /\ pareto.todo = <<>>
      /\ pareto' = [pareto EXCEPT !.at = "loop"] /\ pareto \in ParetoSession /\ problem \in Problems
  BY DEF ParetoScanEnd, ParetoInv, ParetoType
<1>2. /\ pareto'.states = pareto.states /\ pareto'.visited = pareto.visited
      /\ pareto'.frontier = pareto.frontier /\ pareto'.results = pareto.results
      /\ pareto'.exhausted = pareto.exhausted /\ pareto'.at = "loop"
      /\ pareto' \in ParetoSession
  BY <1>1 DEF ParetoSession
<1>3. \A k : WorldAt(k)' = WorldAt(k)
  BY <1>2 DEF WorldAt
<1>4. ParetoType' /\ PointersInv' /\ StatesInv' /\ EntriesInv' /\ ParetoOverInv'
  <2>1. ParetoType'
    BY <1>1, <1>2, ProblemKept DEF ParetoType
  <2>2. PointersInv'
    BY <1>1, <1>2, <1>3 DEF ParetoInv, PointersInv
  <2>3. StatesInv'
    BY <1>1, <1>2, <1>3, ProblemKept DEF ParetoInv, StatesInv
  <2>4. EntriesInv'
    BY <1>1, <1>2, ProblemKept DEF ParetoInv, EntriesInv, Entries, Incomparables
  <2>5. ParetoOverInv'
    BY <1>1, <1>2 DEF ParetoInv, ParetoOverInv
  <2> QED  BY <2>1, <2>2, <2>3, <2>4, <2>5
<1>5. WorkInv'
  <2> SUFFICES ASSUME Comparable, NEW k \in DOMAIN pareto.states
               PROVE  Waits(k)' \/ Handled(WorldAt(k))'
    BY <1>1, <1>2, <1>3, ProblemKept DEF WorkInv
  <2>1. CASE Waits(k)
    BY <1>2, <2>1 DEF Waits
  <2>2. CASE Handled(WorldAt(k)) \/ Scanned(k)
    <3>1. Handled(WorldAt(k))
      <4> SUFFICES ASSUME Scanned(k) PROVE Handled(WorldAt(k))
        BY <2>2
      <4>1. \A i \in DOMAIN problem.candidates[WorldAt(k)] :
              Outcome(WorldAt(k), problem.candidates[WorldAt(k)][i]) \in pareto.visited \cup {Refused}
        BY <1>1 DEF Scanned
      <4>2. WorldAt(k) \notin problem.goals
        BY <1>1 DEF Scanned, ParetoInv, PointersInv
      <4> QED  BY <4>1, <4>2 DEF Handled, Successors
    <3> QED  BY <1>1, <1>2, <1>3, <3>1, ProblemKept DEF Handled, Entries, CoveredBy
  <2> QED  BY <2>1, <2>2 DEF ParetoInv, WorkInv
<1> QED  BY <1>4, <1>5 DEF ParetoInv

-----------------------------------------------------------------------------
LEMMA ParetoInvNext == ParetoInv /\ [ParetoNext]_paretoVars => ParetoInv'
<1> SUFFICES ASSUME ParetoInv, [ParetoNext]_paretoVars PROVE ParetoInv'
  OBVIOUS
<1>1. CASE \/ \E units \in Budgets : ParetoAdvance(units)
           \/ ParetoInterrupt \/ ParetoExpandNone \/ ParetoReturn
  BY <1>1, QuietKeeps
<1>2. CASE ParetoGoal
  BY <1>2, GoalKeeps
<1>3. CASE ParetoExpand
  BY <1>3, ParetoExpandKeeps
<1>4. CASE ParetoSkip
  BY <1>4, SkipKeeps
<1>5. CASE ParetoDiscover
  BY <1>5, DiscoverKeeps
<1>6. CASE ParetoScanEnd
  BY <1>6, ScanEndKeeps
<1>7. CASE UNCHANGED paretoVars
  <2>1. problem' = problem /\ pareto' = pareto
    BY <1>7 DEF paretoVars
  <2>2. /\ \A k : WorldAt(k)' = WorldAt(k)
        /\ \A k : (Waits(k)' <=> Waits(k)) /\ (Scanned(k)' <=> Scanned(k))
        /\ \A w : Handled(w)' <=> Handled(w)
    <3>1. \A k : WorldAt(k)' = WorldAt(k) /\ (Waits(k)' <=> Waits(k))
      BY <2>1 DEF WorldAt, Waits
    <3>2. \A k : Scanned(k)' <=> Scanned(k)
      BY <2>1 DEF Scanned, WorldAt, Outcome
    <3>3. \A w : Handled(w)' <=> Handled(w)
      BY <2>1, ProblemKept DEF Handled, Entries, CoveredBy
    <3> QED  BY <3>1, <3>2, <3>3
  <2>3. ParetoType' /\ ParetoOverInv' /\ EntriesInv'
    BY <2>1, ProblemKept
       DEF ParetoInv, ParetoType, ParetoOverInv, EntriesInv, Entries, Incomparables
  <2>4. PointersInv' /\ StatesInv' /\ WorkInv'
    BY <2>1, <2>2, ProblemKept DEF ParetoInv, PointersInv, StatesInv, WorkInv
  <2> QED  BY <2>3, <2>4 DEF ParetoInv
<1> QED  BY <1>1, <1>2, <1>3, <1>4, <1>5, <1>6, <1>7 DEF ParetoNext

THEOREM ParetoAlwaysInv == ParetoSpec => []ParetoInv
<1> QED  BY ParetoInvInit, ParetoInvNext, PTL DEF ParetoSpec

(* The front of a Pareto session holds outcomes none of which dominates or  *)
(* repeats another, each reached by the trace kept with it, after every     *)
(* step: an interruption or a goal that cannot be compared spoils neither.  *)
THEOREM FrontAlwaysIncomparable == ParetoSpec => []FrontIsIncomparable
<1>1. ParetoInv => FrontIsIncomparable
  BY DEF ParetoInv, EntriesInv, Incomparables, FrontIsIncomparable
<1> QED  BY <1>1, ParetoAlwaysInv, PTL

(* A front that calls itself exact covers every goal that can be reached    *)
(* without passing another one, provided that outcomes can be compared.     *)
THEOREM ExactAlwaysCovers == ParetoSpec => []ExactCoversFirstGoals
<1>1. ParetoInv => ExactCoversFirstGoals
  <2> SUFFICES ASSUME ParetoInv, Comparable, pareto.results.completeness = "Exact"
               PROVE  \E closed \in SUBSET Worlds :
                        /\ problem.initial \in closed
                        /\ \A w \in closed \ problem.goals : Successors(w) \subseteq closed
                        /\ \A w \in closed \cap problem.goals : Covered(w)
    BY DEF ExactCoversFirstGoals
  <2>1. pareto.visited \in SUBSET Worlds /\ problem.initial \in pareto.visited
    BY DEF ParetoInv, ParetoType, ParetoSession, StatesInv
  <2>2. pareto.frontier = <<>> /\ pareto.at = "returned"
    BY DEF ParetoInv, ParetoOverInv
  <2>3. ASSUME NEW w \in pareto.visited PROVE Handled(w)
    <3>1. PICK k \in DOMAIN pareto.states : WorldAt(k) = w
      BY DEF ParetoInv, StatesInv
    <3>2. ~Waits(k) /\ ~Scanned(k)
      BY <2>2 DEF Waits, Scanned
    <3> QED  BY <3>1, <3>2 DEF ParetoInv, WorkInv
  <2>4. \A w \in pareto.visited \ problem.goals : Successors(w) \subseteq pareto.visited
    BY <2>3 DEF Handled
  <2>5. \A w \in pareto.visited \cap problem.goals : Covered(w)
    BY <2>3 DEF Handled, CoveredBy, Covered
  <2> QED  BY <2>1, <2>4, <2>5
<1> QED  BY <1>1, ParetoAlwaysInv, PTL

-----------------------------------------------------------------------------
(* Best-first search.                                                       *)

(* What a world is ranked by. *)
High(w) == Plus(problem.price[w], problem.heuristic[w])

Heights == 0 .. MaxCost

HeapPlace == [priority : Heights, cost : Heights, sequence : Nat, index : Nat]

Found == [found : BOOLEAN, trace : Seq(Exchanges), cost : Heights, expanded : Nat]

Search ==
  [states   : Seq(PathState),
   heap     : SUBSET HeapPlace,
   best     : UNION {[known -> Heights] : known \in SUBSET Worlds},
   expanded : Nat,
   sequence : Nat,
   at       : {"loop", "returned"},
   solution : Found]

LEMMA RankFacts ==
  ASSUME problem \in Problems, NEW w \in Worlds
  PROVE  /\ problem.price[w] \in Heights /\ High(w) \in Heights
         /\ \A n, k \in Nat :
              /\ QueueEntry(w, n, k) \in HeapPlace
              /\ QueueEntry(w, n, k).priority = High(w)
              /\ QueueEntry(w, n, k).cost = problem.price[w]
              /\ QueueEntry(w, n, k).index = k
<1>1. problem.price[w] \in Heights /\ problem.heuristic[w] \in Heights /\ MaxCost \in Nat
  BY RankAssumption, SearchAssumption DEF Heights
<1>2. High(w) \in Heights
  BY <1>1 DEF High, Plus, Heights
<1> QED  BY <1>1, <1>2 DEF QueueEntry, HeapPlace, High

LEMMA BestFacts ==
  ASSUME problem \in Problems, NEW s \in Search
  PROVE  /\ DOMAIN s.best \subseteq Worlds
         /\ \A w \in DOMAIN s.best : s.best[w] \in Heights
<1>1. PICK known \in SUBSET Worlds : s.best \in [known -> Heights]
  BY DEF Search
<1> QED  BY <1>1

(* A candidate changes nothing, or its outcome is pushed.                   *)
LEMMA Considered ==
  ASSUME problem \in Problems, NEW s \in Search, NEW parent \in PathState, NEW x \in Exchanges
  PROVE  LET next == Outcome(parent.world, x)
             t    == Consider(s, parent, x)
         IN  /\ t \in Search
             /\ \/ t = s /\ next \in DOMAIN s.best \cup {Refused}
                \/ /\ next \in Worlds
                   /\ next \in DOMAIN s.best => s.best[next] # problem.price[next]
                   /\ DOMAIN t.best = DOMAIN s.best \cup {next}
                   /\ \A w \in DOMAIN t.best :
                        t.best[w] = IF w = next THEN problem.price[next] ELSE s.best[w]
                   /\ t.states = Append(s.states, [world |-> next, trace |-> Append(parent.trace, x)])
                   /\ t.heap = s.heap \cup {QueueEntry(next, s.sequence, Len(s.states) + 1)}
                   /\ t.sequence = s.sequence + 1
                   /\ t.expanded = s.expanded /\ t.at = s.at /\ t.solution = s.solution
<1> DEFINE next  == Outcome(parent.world, x)
           child == [world |-> next, trace |-> Append(parent.trace, x)]
           entry == QueueEntry(next, s.sequence, Len(s.states) + 1)
           cost  == [w \in DOMAIN s.best \cup {next} |->
                       IF w = next THEN problem.price[next] ELSE s.best[w]]
<1>1. parent.world \in Worlds /\ parent.trace \in Seq(Exchanges)
  BY DEF PathState
<1>2. next \in Worlds \cup {Refused}
  BY <1>1, ProblemType DEF Outcome
<1>3. CASE \/ next = Refused
           \/ next \in DOMAIN s.best /\ s.best[next] <= problem.price[next]
  <2>1. Consider(s, parent, x) = s
    BY <1>3 DEF Consider
  <2> QED  BY <1>3, <2>1
<1>4. CASE ~(\/ next = Refused
             \/ next \in DOMAIN s.best /\ s.best[next] <= problem.price[next])
  <2>1. next \in Worlds /\ problem.price[next] \in Heights
    BY <1>2, <1>4, RankFacts
  <2>2. next \in DOMAIN s.best => s.best[next] # problem.price[next]
    <3>1. problem.price[next] <= problem.price[next]
      BY <2>1 DEF Heights
    <3> QED  BY <1>4, <3>1
  <2>3. child \in PathState
    BY <1>1, <2>1 DEF PathState
  <2>4. s.states \in Seq(PathState) /\ s.sequence \in Nat /\ s.heap \in SUBSET HeapPlace
    BY DEF Search
  <2>5. entry \in HeapPlace
    <3>1. Len(s.states) + 1 \in Nat
      BY <2>4
    <3> QED  BY <2>1, <2>4, <3>1, RankFacts
  <2>6. cost \in UNION {[known -> Heights] : known \in SUBSET Worlds}
    <3>1. DOMAIN s.best \cup {next} \in SUBSET Worlds
      BY <2>1, BestFacts
    <3>2. cost \in [DOMAIN s.best \cup {next} -> Heights]
      BY <2>1, BestFacts
    <3> QED  BY <3>1, <3>2
  <2>7. /\ DOMAIN cost = DOMAIN s.best \cup {next}
        /\ \A w \in DOMAIN cost : cost[w] = IF w = next THEN problem.price[next] ELSE s.best[w]
    OBVIOUS
  <2>8. Append(s.states, child) \in Seq(PathState) /\ s.heap \cup {entry} \in SUBSET HeapPlace
        /\ s.sequence + 1 \in Nat
    BY <2>3, <2>4, <2>5
  <2>9. Consider(s, parent, x) =
          [s EXCEPT !.best = cost, !.states = Append(s.states, child),
                    !.heap = s.heap \cup {entry}, !.sequence = s.sequence + 1]
    BY <1>4 DEF Consider, Search
  <2> HIDE DEF cost, child, entry, next
  <2>10. /\ Consider(s, parent, x) \in Search
         /\ Consider(s, parent, x).best = cost
         /\ Consider(s, parent, x).states = Append(s.states, child)
         /\ Consider(s, parent, x).heap = s.heap \cup {entry}
         /\ Consider(s, parent, x).sequence = s.sequence + 1
         /\ Consider(s, parent, x).expanded = s.expanded
         /\ Consider(s, parent, x).at = s.at /\ Consider(s, parent, x).solution = s.solution
    BY <2>6, <2>8, <2>9 DEF Search
  <2> QED  BY <2>1, <2>2, <2>7, <2>10 DEF next, child, entry
<1> QED  BY <1>3, <1>4

(* A trace that stays below a height still does so with one more exchange   *)
(* that leads no higher.                                                    *)
LEMMA LongerBelow ==
  ASSUME NEW trace \in Seq(Exchanges), NEW w, NEW x \in Exchanges, NEW height,
         StaysBelow(trace, w, height), Outcome(w, x) \in Worlds, High(Outcome(w, x)) <= height
  PROVE  StaysBelow(Append(trace, x), Outcome(w, x), height)
<1>1. PICK path \in [0 .. Len(trace) -> Worlds] :
        /\ path[0] = problem.initial
        /\ path[Len(trace)] = w
        /\ \A i \in 1 .. Len(trace) : path[i] = Outcome(path[i - 1], trace[i])
        /\ \A i \in 0 .. Len(trace) : High(path[i]) <= height
  BY DEF StaysBelow, High
<1> DEFINE longer == Append(trace, x)
           further == [i \in 0 .. Len(longer) |-> IF i <= Len(trace) THEN path[i] ELSE Outcome(w, x)]
<1>2. /\ Len(longer) = Len(trace) + 1 /\ Len(trace) \in Nat
      /\ longer[Len(trace) + 1] = x
      /\ \A i \in 1 .. Len(trace) : longer[i] = trace[i]
  BY Appended
<1>3. further \in [0 .. Len(longer) -> Worlds]
  BY <1>2
<1>4. further[0] = problem.initial /\ further[Len(longer)] = Outcome(w, x)
  BY <1>1, <1>2
<1>5. \A i \in 1 .. Len(longer) : further[i] = Outcome(further[i - 1], longer[i])
  <2> SUFFICES ASSUME NEW i \in 1 .. Len(longer)
               PROVE  further[i] = Outcome(further[i - 1], longer[i])
    OBVIOUS
  <2>1. CASE i \in 1 .. Len(trace)
    <3>1. further[i] = path[i] /\ further[i - 1] = path[i - 1] /\ longer[i] = trace[i]
      BY <1>2, <2>1
    <3> QED  BY <1>1, <2>1, <3>1
  <2>2. CASE i = Len(trace) + 1
    <3>1. further[i] = Outcome(w, x) /\ further[i - 1] = path[Len(trace)] /\ longer[i] = x
      BY <1>2, <2>2
    <3> QED  BY <1>1, <3>1
  <2> QED  BY <1>2, <2>1, <2>2
<1>6. \A i \in 0 .. Len(longer) : High(further[i]) <= height
  <2> SUFFICES ASSUME NEW i \in 0 .. Len(longer) PROVE High(further[i]) <= height
    OBVIOUS
  <2>1. CASE i \in 0 .. Len(trace)
    <3>1. further[i] = path[i]
      BY <1>2, <2>1
    <3> QED  BY <1>1, <2>1, <3>1
  <2>2. CASE i = Len(trace) + 1
    <3>1. further[i] = Outcome(w, x)
      BY <1>2, <2>2
    <3> QED  BY <3>1
  <2> QED  BY <1>2, <2>1, <2>2
<1> HIDE DEF longer, further
<1>7. StaysBelow(longer, Outcome(w, x), height)
  BY <1>3, <1>4, <1>5, <1>6 DEF StaysBelow, High
<1> QED  BY <1>7 DEF longer

-----------------------------------------------------------------------------
(* The inductive invariant of best-first search.                            *)

World(s, k) == s.states[k].world

Queued(s, k) == \E e \in s.heap : e.index = k

(* The costs are those of the states, the heap holds entries of states, and *)
(* a state that was expanded is known and no longer in the heap.            *)
Recorded(s) ==
  /\ s \in Search
  /\ s.sequence = Len(s.states)
  /\ \A k \in DOMAIN s.states : World(s, k) \in DOMAIN s.best
  /\ \A w \in DOMAIN s.best :
       s.best[w] = problem.price[w] /\ \E k \in DOMAIN s.states : World(s, k) = w
  /\ problem.initial \in DOMAIN s.best
  /\ \A e \in s.heap :
       e.index \in DOMAIN s.states /\ e = QueueEntry(World(s, e.index), e.index - 1, e.index)
  /\ IsFiniteSet(s.heap) /\ IsFiniteSet(DOMAIN s.best)
  /\ s.expanded + Cardinality(s.heap) <= Cardinality(DOMAIN s.best)

(* No way to a goal is lower than what the search has climbed to, and the   *)
(* way to a state climbs no higher than that or than the state itself.      *)
Climbed(s, height) ==
  /\ NoneLower(problem.goals, height)
  /\ High(problem.initial) <= height
  /\ \A k \in DOMAIN s.states : \A limit \in Heights :
       height <= limit /\ High(World(s, k)) <= limit
         => StaysBelow(s.states[k].trace, World(s, k), limit)

(* An expanded state is no goal, and what it leads to is known.             *)
Expanded(s, k) ==
  World(s, k) \notin problem.goals /\ Successors(World(s, k)) \subseteq DOMAIN s.best

Answered(solution) ==
  IF solution.found THEN
    \E w \in problem.goals, height \in Heights :
      /\ problem.price[w] = solution.cost
      /\ StaysBelow(solution.trace, w, height)
      /\ NoneLower(problem.goals, height)
  ELSE Unreachable(problem.goals)

RankedInv ==
  /\ problem \in Problems
  /\ Recorded(ranked)
  /\ \E height \in Heights : Climbed(ranked, height)
  /\ ranked.at = "loop" =>
       /\ ~ranked.solution.found
       /\ \A k \in DOMAIN ranked.states : Queued(ranked, k) \/ Expanded(ranked, k)
  /\ ranked.at = "returned" => Answered(ranked.solution)

(* What holds while the candidates of state p are considered.               *)
Expanding(s, p, parent, height) ==
  /\ Recorded(s)
  /\ Climbed(s, height)
  /\ p \in DOMAIN s.states /\ s.states[p] = parent /\ ~Queued(s, p)
  /\ \A k \in DOMAIN s.states : k = p \/ Queued(s, k) \/ Expanded(s, k)
  /\ s.at = "loop" /\ ~s.solution.found

LEMMA ConsiderKeeps ==
  ASSUME problem \in Problems, NEW s, NEW p, NEW parent \in PathState, NEW height \in Heights,
         NEW x \in Exchanges,
         Expanding(s, p, parent, height), High(parent.world) <= height
  PROVE  LET t == Consider(s, parent, x)
         IN  /\ Expanding(t, p, parent, height)
             /\ DOMAIN s.best \subseteq DOMAIN t.best
             /\ Outcome(parent.world, x) \in DOMAIN t.best \cup {Refused}
<1> DEFINE next  == Outcome(parent.world, x)
           child == [world |-> next, trace |-> Append(parent.trace, x)]
           entry == QueueEntry(next, s.sequence, Len(s.states) + 1)
           fresh == Len(s.states) + 1
           t     == Consider(s, parent, x)
<1>1. s \in Search /\ Recorded(s) /\ Climbed(s, height)
  BY DEF Expanding, Recorded
<1>2. CASE t = s /\ next \in DOMAIN s.best \cup {Refused}
  BY <1>2
<1>3. CASE /\ next \in Worlds
           /\ next \in DOMAIN s.best => s.best[next] # problem.price[next]
           /\ DOMAIN t.best = DOMAIN s.best \cup {next}
           /\ \A w \in DOMAIN t.best :
                t.best[w] = IF w = next THEN problem.price[next] ELSE s.best[w]
           /\ t.states = Append(s.states, child)
           /\ t.heap = s.heap \cup {entry}
           /\ t.sequence = s.sequence + 1
           /\ t.expanded = s.expanded /\ t.at = s.at /\ t.solution = s.solution
  <2>1. next \notin DOMAIN s.best
    BY <1>1, <1>3 DEF Recorded
  <2>2. t \in Search
    BY <1>1, Considered
  <2>3. child \in PathState /\ child.world = next /\ child.trace = Append(parent.trace, x)
    BY <1>3 DEF PathState
  <2> HIDE DEF t, child, next
  <2>4. /\ fresh \in Nat /\ fresh \notin DOMAIN s.states
        /\ DOMAIN t.states = DOMAIN s.states \cup {fresh}
        /\ t.states[fresh] = child
        /\ \A k \in DOMAIN s.states : t.states[k] = s.states[k]
        /\ Len(t.states) = Len(s.states) + 1 /\ Len(s.states) \in Nat
    <3>1. s.states \in Seq(PathState)
      BY <1>1 DEF Search
    <3> QED  BY <1>3, <2>3, <3>1, Appended
  <2>5. entry.index = fresh /\ entry = QueueEntry(next, fresh - 1, fresh) /\ entry \notin s.heap
    <3>1. s.sequence = fresh - 1 /\ s.sequence \in Nat
      BY <1>1, <2>4 DEF Recorded
    <3>2. entry.index = fresh
      BY <1>3, <2>4, <3>1, RankFacts
    <3>3. entry \notin s.heap
      BY <1>1, <2>4, <3>2 DEF Recorded
    <3> QED  BY <3>1, <3>2, <3>3
  <2> HIDE DEF entry, fresh
  <2>6. /\ World(t, fresh) = next
        /\ \A k \in DOMAIN s.states : World(t, k) = World(s, k)
    BY <2>3, <2>4 DEF World
  <2>7. Recorded(t)
    <3>1. t.sequence = Len(t.states)
      BY <1>1, <1>3, <2>4 DEF Recorded
    <3>2. ASSUME NEW k \in DOMAIN t.states PROVE World(t, k) \in DOMAIN t.best
      BY <1>1, <1>3, <2>4, <2>6 DEF Recorded
    <3>3. ASSUME NEW w \in DOMAIN t.best
          PROVE  t.best[w] = problem.price[w] /\ \E k \in DOMAIN t.states : World(t, k) = w
      <4>1. CASE w = next
        BY <1>3, <2>4, <2>6, <4>1
      <4>2. CASE w # next
        <5>1. w \in DOMAIN s.best /\ t.best[w] = s.best[w]
          BY <1>3, <4>2
        <5>2. PICK k \in DOMAIN s.states : World(s, k) = w
          BY <1>1, <5>1 DEF Recorded
        <5>3. k \in DOMAIN t.states /\ World(t, k) = w
          BY <2>4, <2>6, <5>2
        <5>4. t.best[w] = problem.price[w]
          BY <1>1, <5>1 DEF Recorded
        <5> QED  BY <5>3, <5>4
      <4> QED  BY <4>1, <4>2
    <3>4. problem.initial \in DOMAIN t.best
      BY <1>1, <1>3 DEF Recorded
    <3>5. ASSUME NEW e \in t.heap
          PROVE  e.index \in DOMAIN t.states /\ e = QueueEntry(World(t, e.index), e.index - 1, e.index)
      <4>1. CASE e = entry
        BY <2>4, <2>5, <2>6, <4>1
      <4>2. CASE e \in s.heap
        <5>1. e.index \in DOMAIN s.states /\ e = QueueEntry(World(s, e.index), e.index - 1, e.index)
          BY <1>1, <4>2 DEF Recorded
        <5>2. e.index \in DOMAIN t.states /\ World(t, e.index) = World(s, e.index)
          BY <2>4, <2>6, <5>1
        <5> QED  BY <5>1, <5>2
      <4> QED  BY <1>3, <4>1, <4>2
    <3>6. /\ IsFiniteSet(t.heap) /\ IsFiniteSet(DOMAIN t.best)
          /\ t.expanded + Cardinality(t.heap) <= Cardinality(DOMAIN t.best)
      <4>1. /\ IsFiniteSet(s.heap) /\ IsFiniteSet(DOMAIN s.best)
            /\ s.expanded + Cardinality(s.heap) <= Cardinality(DOMAIN s.best)
        BY <1>1 DEF Recorded
      <4>2. IsFiniteSet(t.heap) /\ Cardinality(t.heap) = Cardinality(s.heap) + 1
        BY <1>3, <2>5, <4>1, FS_AddElement
      <4>3. IsFiniteSet(DOMAIN t.best) /\ Cardinality(DOMAIN t.best) = Cardinality(DOMAIN s.best) + 1
        BY <1>3, <2>1, <4>1, FS_AddElement
      <4>4. /\ Cardinality(s.heap) \in Nat /\ Cardinality(DOMAIN s.best) \in Nat
            /\ s.expanded \in Nat /\ t.expanded = s.expanded
        BY <1>1, <1>3, <4>1, FS_CardinalityType DEF Search
      <4> QED  BY <4>1, <4>2, <4>3, <4>4
    <3> QED  BY <2>2, <3>1, <3>2, <3>3, <3>4, <3>5, <3>6 DEF Recorded
  <2>8. Climbed(t, height)
    <3>1. ASSUME NEW k \in DOMAIN t.states, NEW limit \in Heights,
                 height <= limit, High(World(t, k)) <= limit
          PROVE  StaysBelow(t.states[k].trace, World(t, k), limit)
      <4>1. CASE k \in DOMAIN s.states
        BY <1>1, <2>4, <2>6, <3>1, <4>1 DEF Climbed
      <4>2. CASE k = fresh
        <5>1. parent.world \in Worlds /\ parent.trace \in Seq(Exchanges)
          BY DEF PathState
        <5>2. High(parent.world) \in Heights
          BY <5>1, RankFacts
        <5>3. High(parent.world) <= limit
          BY <3>1, <5>2 DEF Heights
        <5>4. World(s, p) = parent.world /\ s.states[p] = parent /\ p \in DOMAIN s.states
          BY DEF Expanding, World
        <5>5. StaysBelow(parent.trace, parent.world, limit)
          BY <1>1, <3>1, <5>3, <5>4 DEF Climbed
        <5>6. next = Outcome(parent.world, x) /\ High(next) <= limit
          BY <2>6, <3>1, <4>2 DEF next
        <5>7. StaysBelow(Append(parent.trace, x), next, limit)
          BY <1>3, <5>1, <5>5, <5>6, LongerBelow
        <5> QED  BY <2>3, <2>4, <2>6, <4>2, <5>7
      <4> QED  BY <2>4, <4>1, <4>2
    <3> QED  BY <1>1, <3>1 DEF Climbed
  <2>9. /\ p \in DOMAIN t.states /\ t.states[p] = parent /\ ~Queued(t, p)
        /\ t.at = "loop" /\ ~t.solution.found
    <3>1. p \in DOMAIN s.states /\ s.states[p] = parent /\ ~Queued(s, p)
          /\ s.at = "loop" /\ ~s.solution.found
      BY DEF Expanding
    <3>2. p # fresh
      BY <2>4, <3>1
    <3> QED  BY <1>3, <2>4, <2>5, <3>1, <3>2 DEF Queued
  <2>10. ASSUME NEW k \in DOMAIN t.states
         PROVE  k = p \/ Queued(t, k) \/ Expanded(t, k)
    <3>1. CASE k = fresh
      BY <1>3, <2>5, <3>1 DEF Queued
    <3>2. CASE k \in DOMAIN s.states
      <4>1. k = p \/ Queued(s, k) \/ Expanded(s, k)
        BY <3>2 DEF Expanding
      <4>2. Queued(s, k) => Queued(t, k)
        BY <1>3 DEF Queued
      <4>3. Expanded(s, k) => Expanded(t, k)
        BY <1>3, <2>6, <3>2 DEF Expanded
      <4> QED  BY <4>1, <4>2, <4>3
    <3> QED  BY <2>4, <3>1, <3>2
  <2>11. next \in DOMAIN t.best /\ DOMAIN s.best \subseteq DOMAIN t.best
    BY <1>3
  <2>12. Expanding(t, p, parent, height)
    BY <2>7, <2>8, <2>9, <2>10 DEF Expanding
  <2> QED  BY <2>11, <2>12 DEF t, next
<1> QED  BY <1>1, <1>2, <1>3, Considered

(* All candidates are considered, in order.                                 *)
LEMMA ConsiderAll ==
  ASSUME problem \in Problems, NEW base, NEW p, NEW parent \in PathState, NEW height \in Heights,
         NEW candidates \in Seq(Exchanges),
         Expanding(base, p, parent, height), High(parent.world) <= height
  PROVE  LET t == FoldLeft(LAMBDA search, exchange : Consider(search, parent, exchange),
                           base, candidates)
         IN  /\ Expanding(t, p, parent, height)
             /\ \A i \in DOMAIN candidates :
                  Outcome(parent.world, candidates[i]) \in DOMAIN t.best \cup {Refused}
<1> DEFINE n == Len(candidates)
           iter == CHOOSE g : g = [s \in SUBSET DOMAIN candidates |->
                     IF s = {} THEN base
                     ELSE Consider(g[s \ {Max(s)}], parent, candidates[Max(s)])]
           Step == [k \in 1 .. n |-> [search \in Search |-> Consider(search, parent, candidates[k])]]
<1>1. FoldLeft(LAMBDA search, exchange : Consider(search, parent, exchange), base, candidates)
        = iter[DOMAIN candidates]
  BY DEF FoldLeft, MapThenFoldSet
<1>2. DOMAIN candidates = 1 .. n /\ n \in Nat
  OBVIOUS
<1>3. Step \in [1 .. n -> [Search -> Search]] /\ base \in Search
  <2>1. ASSUME NEW k \in 1 .. n, NEW search \in Search
        PROVE  Consider(search, parent, candidates[k]) \in Search
    <3>1. candidates[k] \in Exchanges
      BY <1>2
    <3> QED  BY <3>1, Considered
  <2>2. base \in Search
    BY DEF Expanding, Recorded
  <2> QED  BY <2>1, <2>2
<1>4. PICK g \in [SUBSET (1 .. n) -> Search] : FoldTable(g, base, Step, n)
  <2> HIDE DEF Step
  <2> QED  BY <1>2, <1>3, FoldTableExists
<1>5. ASSUME NEW s \in SUBSET (1 .. n), s # {}
      PROVE  Step[Max(s)][g[s \ {Max(s)}]] = Consider(g[s \ {Max(s)}], parent, candidates[Max(s)])
  <2>1. Max(s) \in 1 .. n
    BY <1>2, <1>5, GreatestOfSome
  <2>2. g[s \ {Max(s)}] \in Search
    BY <1>4
  <2> QED  BY <2>1, <2>2
<1>6. g = [s \in SUBSET DOMAIN candidates |->
             IF s = {} THEN base
             ELSE Consider(g[s \ {Max(s)}], parent, candidates[Max(s)])]
  <2> HIDE DEF Step
  <2> QED  BY <1>2, <1>4, <1>5 DEF FoldTable
<1>7. iter = [s \in SUBSET DOMAIN candidates |->
                IF s = {} THEN base
                ELSE Consider(iter[s \ {Max(s)}], parent, candidates[Max(s)])]
  BY <1>6
<1> HIDE DEF iter
<1> DEFINE upto(k) == iter[1 .. k]
           Good(k) == /\ Expanding(upto(k), p, parent, height)
                      /\ \A i \in 1 .. k :
                           Outcome(parent.world, candidates[i]) \in DOMAIN upto(k).best \cup {Refused}
           T == {k \in Nat : k <= n => Good(k)}
<1>8. upto(0) = base
  <2>1. 1 .. 0 = {} /\ {} \in SUBSET DOMAIN candidates
    OBVIOUS
  <2> QED  BY <1>2, <1>7, <2>1
<1>9. ASSUME NEW k \in 1 .. n
      PROVE  upto(k) = Consider(upto(k - 1), parent, candidates[k])
  <2>1. /\ 1 .. k \in SUBSET DOMAIN candidates /\ 1 .. k # {} /\ Max(1 .. k) = k
        /\ (1 .. k) \ {k} = 1 .. (k - 1)
    BY <1>2, FirstNumbers
  <2> QED  BY <1>7, <2>1
<1> HIDE DEF upto
<1>10. 0 \in T
  <2>1. 1 .. 0 = {}
    OBVIOUS
  <2>2. Good(0)
    BY <1>8, <2>1
  <2> HIDE DEF Good
  <2> QED  BY <2>2
<1>11. ASSUME NEW k \in Nat, k \in T PROVE k + 1 \in T
  <2> SUFFICES ASSUME k + 1 <= n PROVE Good(k + 1)
    <3> HIDE DEF Good
    <3> QED  OBVIOUS
  <2>1. Good(k)
    <3> HIDE DEF Good
    <3> QED  BY <1>11
  <2>2. k + 1 \in 1 .. n /\ (k + 1) - 1 = k /\ candidates[k + 1] \in Exchanges
    OBVIOUS
  <2>3. upto(k + 1) = Consider(upto(k), parent, candidates[k + 1])
    BY <1>9, <2>2
  <2>4. /\ Expanding(upto(k + 1), p, parent, height)
        /\ DOMAIN upto(k).best \subseteq DOMAIN upto(k + 1).best
        /\ Outcome(parent.world, candidates[k + 1]) \in DOMAIN upto(k + 1).best \cup {Refused}
    BY <2>1, <2>2, <2>3, ConsiderKeeps
  <2>5. ASSUME NEW i \in 1 .. (k + 1)
        PROVE  Outcome(parent.world, candidates[i]) \in DOMAIN upto(k + 1).best \cup {Refused}
    <3>1. i \in 1 .. k \/ i = k + 1
      OBVIOUS
    <3> QED  BY <2>1, <2>4, <3>1
  <2> QED  BY <2>4, <2>5
<1>12. Good(n)
  <2>1. n \in T
    <3> HIDE DEF T
    <3> QED  BY <1>2, <1>10, <1>11, SetOfNaturals
  <2> HIDE DEF Good
  <2> QED  BY <1>2, <2>1
<1>13. FoldLeft(LAMBDA search, exchange : Consider(search, parent, exchange), base, candidates) = upto(n)
  BY <1>1, <1>2 DEF upto
<1> QED  BY <1>2, <1>12, <1>13

-----------------------------------------------------------------------------
LEMMA RankedInvInit == BestFirstInit => RankedInv
<1> SUFFICES ASSUME BestFirstInit PROVE RankedInv
  OBVIOUS
<1> DEFINE start == [world |-> problem.initial, trace |-> <<>>]
           entry == QueueEntry(problem.initial, 0, 1)
           cost  == [w \in {problem.initial} |-> problem.price[w]]
<1>1. problem \in Problems /\ problem.initial \in Worlds
  BY ProblemAssumption DEF BestFirstInit
<1>2. /\ start \in PathState /\ <<start>> \in Seq(PathState) /\ DOMAIN <<start>> = {1}
      /\ <<start>>[1] = start /\ Len(<<start>>) = 1
  BY <1>1 DEF PathState
<1>3. /\ entry \in HeapPlace /\ entry.index = 1
      /\ problem.price[problem.initial] \in Heights /\ High(problem.initial) \in Heights
  BY <1>1, RankFacts
<1>4. /\ cost \in UNION {[known -> Heights] : known \in SUBSET Worlds}
      /\ DOMAIN cost = {problem.initial}
      /\ cost[problem.initial] = problem.price[problem.initial]
  <2>1. {problem.initial} \in SUBSET Worlds /\ cost \in [{problem.initial} -> Heights]
    BY <1>1, <1>3
  <2> QED  BY <2>1
<1>5. start.world = problem.initial /\ start.trace = <<>>
  OBVIOUS
<1> HIDE DEF start, entry, cost
<1>6. ranked = [states |-> <<start>>, heap |-> {entry}, best |-> cost, expanded |-> 0,
                sequence |-> 1, at |-> "loop",
                solution |-> [found |-> FALSE, trace |-> <<>>, cost |-> 0, expanded |-> 0]]
  BY DEF BestFirstInit, RankedNew, start, entry, cost
<1>7. [found |-> FALSE, trace |-> <<>>, cost |-> 0, expanded |-> 0] \in Found
  <2>1. 0 \in Heights /\ <<>> \in Seq(Exchanges)
    BY SearchAssumption DEF Heights
  <2> QED  BY <2>1 DEF Found
<1>8. ranked \in Search
  <2>1. {entry} \in SUBSET HeapPlace
    BY <1>3
  <2> QED  BY <1>2, <1>4, <1>6, <1>7, <2>1 DEF Search
<1>9. /\ ranked.states = <<start>> /\ ranked.heap = {entry} /\ ranked.best = cost
      /\ ranked.expanded = 0 /\ ranked.sequence = 1 /\ ranked.at = "loop" /\ ~ranked.solution.found
  BY <1>6
<1>10. World(ranked, 1) = problem.initial /\ ranked.states[1].trace = <<>> /\ DOMAIN ranked.states = {1}
  BY <1>2, <1>5, <1>9 DEF World
<1>11. Recorded(ranked)
  <2>1. /\ IsFiniteSet(ranked.heap) /\ IsFiniteSet(DOMAIN ranked.best)
        /\ Cardinality(ranked.heap) = 1 /\ Cardinality(DOMAIN ranked.best) = 1
    BY ZenonT(30), <1>4, <1>9, FS_Singleton
  <2>2. \A e \in ranked.heap :
          e.index \in DOMAIN ranked.states /\ e = QueueEntry(World(ranked, e.index), e.index - 1, e.index)
    BY <1>3, <1>9, <1>10 DEF entry
  <2>3. \A w \in DOMAIN ranked.best :
          ranked.best[w] = problem.price[w] /\ \E k \in DOMAIN ranked.states : World(ranked, k) = w
    BY <1>4, <1>9, <1>10
  <2>4. ranked.expanded + Cardinality(ranked.heap) <= Cardinality(DOMAIN ranked.best)
    BY <1>9, <2>1
  <2> QED  BY <1>2, <1>4, <1>8, <1>9, <1>10, <2>1, <2>2, <2>3, <2>4 DEF Recorded
<1>12. Climbed(ranked, High(problem.initial))
  <2>1. High(problem.initial) \in Int
    BY <1>3 DEF Heights
  <2>2. NoneLower(problem.goals, High(problem.initial))
    BY <2>1 DEF NoneLower, High
  <2>3. ASSUME NEW limit \in Heights, High(problem.initial) <= limit
        PROVE  StaysBelow(<<>>, problem.initial, limit)
    <3> DEFINE path == [i \in 0 .. 0 |-> problem.initial]
    <3>1. path \in [0 .. Len(<<>>) -> Worlds] /\ path[0] = problem.initial /\ Len(<<>>) = 0
      BY <1>1
    <3>2. 1 .. Len(<<>>) = {} /\ \A i \in 0 .. Len(<<>>) : path[i] = problem.initial
      OBVIOUS
    <3> HIDE DEF path
    <3> QED  BY <2>3, <3>1, <3>2 DEF StaysBelow, High
  <2> QED  BY <1>10, <2>1, <2>2, <2>3 DEF Climbed
<1>13. Queued(ranked, 1)
  BY <1>3, <1>9 DEF Queued
<1> QED  BY <1>1, <1>3, <1>9, <1>10, <1>11, <1>12, <1>13 DEF RankedInv

(* A problem is never changed, nor what is said of it alone.                *)
LEMMA RankedKept ==
  ASSUME problem' = problem
  PROVE  /\ Recorded(ranked)' <=> Recorded(ranked')
         /\ \A height : Climbed(ranked, height)' <=> Climbed(ranked', height)
         /\ \A k : Queued(ranked, k)' <=> Queued(ranked', k)
         /\ \A k : Expanded(ranked, k)' <=> Expanded(ranked', k)
         /\ Answered(ranked.solution)' <=> Answered(ranked'.solution)
<1>1. /\ \A w : High(w)' = High(w)
      /\ \A w, n, k : QueueEntry(w, n, k)' = QueueEntry(w, n, k)
      /\ \A w : Successors(w)' = Successors(w)
      /\ \A w, x : Outcome(w, x)' = Outcome(w, x)
  BY DEF High, QueueEntry, Successors, Outcome
<1>2. /\ \A height : NoneLower(problem.goals, height)' <=> NoneLower(problem.goals, height)
      /\ \A trace, w, height : StaysBelow(trace, w, height)' <=> StaysBelow(trace, w, height)
      /\ Unreachable(problem.goals)' <=> Unreachable(problem.goals)
  BY <1>1 DEF NoneLower, StaysBelow, Unreachable
<1>3. Recorded(ranked)' <=> Recorded(ranked')
  BY <1>1 DEF Recorded, World
<1>4. \A height : Climbed(ranked, height)' <=> Climbed(ranked', height)
  BY <1>1, <1>2 DEF Climbed, World
<1>5. \A k : (Queued(ranked, k)' <=> Queued(ranked', k)) /\ (Expanded(ranked, k)' <=> Expanded(ranked', k))
  BY <1>1 DEF Queued, Expanded, World
<1>6. Answered(ranked.solution)' <=> Answered(ranked'.solution)
  BY <1>2 DEF Answered
<1> QED  BY <1>3, <1>4, <1>5, <1>6

LEMMA RankedInvAfter ==
  ASSUME problem' = problem, problem \in Problems, Recorded(ranked'),
         \E height \in Heights : Climbed(ranked', height),
         ranked'.at = "loop" =>
           /\ ~ranked'.solution.found
           /\ \A k \in DOMAIN ranked'.states : Queued(ranked', k) \/ Expanded(ranked', k),
         ranked'.at = "returned" => Answered(ranked'.solution)
  PROVE  RankedInv'
BY RankedKept DEF RankedInv

(* An entry that comes next settles how high every way to a goal climbs.    *)
LEMMA ClimbOn ==
  ASSUME RankedInv, NEW entry, ComesNext(entry)
  PROVE  \E height \in Heights :
           Climbed(ranked, height) /\ High(World(ranked, entry.index)) <= height
<1>1. /\ problem \in Problems /\ Recorded(ranked) /\ ranked \in Search
      /\ ranked.at = "loop" /\ entry \in ranked.heap
      /\ \A k \in DOMAIN ranked.states : Queued(ranked, k) \/ Expanded(ranked, k)
  BY DEF RankedInv, ComesNext, Recorded
<1>2. PICK height \in Heights : Climbed(ranked, height)
  BY DEF RankedInv
<1>3. \A k \in DOMAIN ranked.states : World(ranked, k) \in Worlds
  <2>1. ranked.states \in Seq(PathState)
    BY <1>1 DEF Search
  <2>2. \A k \in DOMAIN ranked.states : ranked.states[k] \in PathState
    BY <2>1
  <2> QED  BY <2>2 DEF World, PathState
<1>4. \A e \in ranked.heap :
        e.index \in DOMAIN ranked.states /\ e.priority = High(World(ranked, e.index))
        /\ e.priority \in Heights
  <2> SUFFICES ASSUME NEW e \in ranked.heap
               PROVE  e.index \in DOMAIN ranked.states /\ e.priority = High(World(ranked, e.index))
                      /\ e.priority \in Heights
    OBVIOUS
  <2>1. e.index \in DOMAIN ranked.states /\ e = QueueEntry(World(ranked, e.index), e.index - 1, e.index)
    BY <1>1 DEF Recorded
  <2>2. e.priority = High(World(ranked, e.index))
    BY <2>1 DEF QueueEntry, High
  <2> QED  BY <1>1, <1>3, <2>1, <2>2, RankFacts
<1> DEFINE peak == High(World(ranked, entry.index))
<1>5. peak \in Heights /\ entry.priority = peak
  BY <1>1, <1>4
<1>6. ASSUME NEW e \in ranked.heap PROVE peak <= e.priority
  <2>1. CASE e = entry
    BY <1>5, <2>1 DEF Heights
  <2>2. CASE e # entry
    <3>1. Greater(entry, e)
      BY <2>2 DEF ComesNext
    <3>2. entry.priority <= e.priority
      BY <1>1, <1>4, <3>1 DEF Greater, Heights
    <3> QED  BY <1>5, <3>2
  <2> QED  BY <2>1, <2>2
<1> HIDE DEF peak
<1>7. CASE peak <= height
  BY <1>2, <1>7 DEF peak
<1>8. CASE ~(peak <= height)
  <2>1. height < peak
    BY <1>5, <1>8 DEF Heights
  <2> DEFINE closed == {World(ranked, k) : k \in {j \in DOMAIN ranked.states : ~Queued(ranked, j)}}
  <2>2. closed \in SUBSET Worlds
    BY <1>3
  <2>3. ASSUME NEW w \in DOMAIN ranked.best, High(w) < peak
        PROVE  w \in closed
    <3>1. PICK k \in DOMAIN ranked.states : World(ranked, k) = w
      BY <1>1 DEF Recorded
    <3>2. ~Queued(ranked, k)
      <4> SUFFICES ASSUME NEW e \in ranked.heap, e.index = k PROVE FALSE
        BY DEF Queued
      <4>1. e.priority = High(w) /\ e.priority \in Heights /\ peak <= e.priority
        BY <1>4, <1>6, <3>1
      <4> QED  BY <1>5, <2>3, <4>1 DEF Heights
    <3> QED  BY <3>1, <3>2
  <2>4. problem.initial \in closed
    <3>1. problem.initial \in DOMAIN ranked.best /\ High(problem.initial) <= height
      BY <1>1, <1>2 DEF Recorded, Climbed
    <3>2. High(problem.initial) \in Heights
      BY <1>1, ProblemType, RankFacts
    <3>3. High(problem.initial) < peak
      BY <1>5, <2>1, <3>1, <3>2 DEF Heights
    <3> QED  BY <2>3, <3>1, <3>3
  <2>5. closed \cap problem.goals = {}
    BY <1>1 DEF Expanded
  <2>6. ASSUME NEW w \in closed, NEW next \in Successors(w), High(next) < peak
        PROVE  next \in closed
    <3>1. next \in DOMAIN ranked.best
      BY <1>1 DEF Expanded
    <3> QED  BY <2>3, <2>6, <3>1
  <2>7. NoneLower(problem.goals, peak)
    <3> HIDE DEF closed
    <3> QED  BY <2>2, <2>4, <2>5, <2>6 DEF NoneLower, High
  <2>8. High(problem.initial) <= peak
    <3>1. High(problem.initial) \in Heights /\ High(problem.initial) <= height
      BY <1>1, <1>2, ProblemType, RankFacts DEF Climbed
    <3> QED  BY <1>5, <2>1, <3>1 DEF Heights
  <2>9. ASSUME NEW k \in DOMAIN ranked.states, NEW limit \in Heights,
               peak <= limit, High(World(ranked, k)) <= limit
        PROVE  StaysBelow(ranked.states[k].trace, World(ranked, k), limit)
    <3>1. height <= limit
      BY <1>5, <2>1, <2>9 DEF Heights
    <3> QED  BY <1>2, <2>9, <3>1 DEF Climbed
  <2>10. Climbed(ranked, peak) /\ peak <= peak
    BY <1>5, <2>7, <2>8, <2>9 DEF Climbed, Heights
  <2> QED  BY <1>5, <2>10 DEF peak
<1> QED  BY <1>7, <1>8

LEMMA TurnKeeps ==
  ASSUME RankedInv, NEW entry \in ranked.heap, TakeTurn(entry)
  PROVE  RankedInv'
<1> DEFINE p      == entry.index
           parent == ranked.states[p]
           popped == [ranked EXCEPT !.heap = @ \ {entry}]
           base   == [popped EXCEPT !.expanded = @ + 1]
<1>1. ComesNext(entry) /\ problem' = problem
  BY DEF TakeTurn
<1>2. /\ problem \in Problems /\ Recorded(ranked) /\ ranked \in Search
      /\ ranked.at = "loop" /\ ~ranked.solution.found
      /\ \A k \in DOMAIN ranked.states : Queued(ranked, k) \/ Expanded(ranked, k)
  BY <1>1 DEF RankedInv, ComesNext, Recorded
<1>3. PICK height \in Heights : Climbed(ranked, height) /\ High(World(ranked, p)) <= height
  BY <1>1, ClimbOn
<1>4. p \in DOMAIN ranked.states /\ entry = QueueEntry(World(ranked, p), p - 1, p)
  BY <1>2 DEF Recorded
<1>5. /\ parent \in PathState /\ World(ranked, p) = parent.world
      /\ parent.world \in Worlds /\ parent.trace \in Seq(Exchanges)
  <2>1. ranked.states \in Seq(PathState)
    BY <1>2 DEF Search
  <2>2. parent \in PathState
    BY <1>4, <2>1
  <2> QED  BY <2>2 DEF World, PathState
<1>6. entry.cost = problem.price[parent.world] /\ problem.price[parent.world] \in Heights
  BY <1>2, <1>4, <1>5, RankFacts DEF QueueEntry
<1>7. ASSUME NEW s, s.states = ranked.states, s.best = ranked.best PROVE Climbed(s, height)
  BY <1>3, <1>7 DEF Climbed, World
<1>8. /\ popped \in Search /\ popped.states = ranked.states /\ popped.best = ranked.best
      /\ popped.heap = ranked.heap \ {entry} /\ popped.sequence = ranked.sequence
      /\ popped.expanded = ranked.expanded /\ popped.at = "loop" /\ ~popped.solution.found
  BY <1>2 DEF Search
<1>9. /\ base \in Search /\ base.states = ranked.states /\ base.best = ranked.best
      /\ base.heap = ranked.heap \ {entry} /\ base.sequence = ranked.sequence
      /\ base.expanded = ranked.expanded + 1 /\ base.at = "loop" /\ ~base.solution.found
  <2>1. popped.expanded + 1 \in Nat
    BY <1>8 DEF Search
  <2> HIDE DEF popped
  <2> QED  BY <1>8, <2>1 DEF Search
<1>10. /\ IsFiniteSet(ranked.heap \ {entry})
       /\ ranked.expanded + 1 + Cardinality(ranked.heap \ {entry}) <= Cardinality(DOMAIN ranked.best)
       /\ ranked.expanded + Cardinality(ranked.heap \ {entry}) <= Cardinality(DOMAIN ranked.best)
  <2>1. /\ IsFiniteSet(ranked.heap) /\ IsFiniteSet(DOMAIN ranked.best)
        /\ ranked.expanded + Cardinality(ranked.heap) <= Cardinality(DOMAIN ranked.best)
    BY <1>2 DEF Recorded
  <2>2. /\ IsFiniteSet(ranked.heap \ {entry})
        /\ Cardinality(ranked.heap \ {entry}) = Cardinality(ranked.heap) - 1
    BY <2>1, FS_RemoveElement
  <2>3. /\ Cardinality(ranked.heap) \in Nat /\ Cardinality(DOMAIN ranked.best) \in Nat
        /\ ranked.expanded \in Nat
    BY <1>2, <2>1, FS_CardinalityType DEF Search
  <2> QED  BY <2>1, <2>2, <2>3
<1>11. ASSUME NEW s \in Search, s.states = ranked.states, s.best = ranked.best,
              s.heap = ranked.heap \ {entry}, s.sequence = ranked.sequence,
              s.expanded \in {ranked.expanded, ranked.expanded + 1}
       PROVE  Recorded(s)
  <2>1. \A k : World(s, k) = World(ranked, k)
    BY <1>11 DEF World
  <2> QED  BY <1>2, <1>10, <1>11, <2>1 DEF Recorded
<1>12. CASE parent.world \in problem.goals
  <2> DEFINE answer == [found |-> TRUE, trace |-> parent.trace, cost |-> entry.cost,
                        expanded |-> ranked.expanded]
  <2>1. ranked' = [popped EXCEPT !.at = "returned", !.solution = answer]
    BY <1>6, <1>12 DEF TakeTurn
  <2>2. answer \in Found /\ answer.found /\ answer.trace = parent.trace /\ answer.cost = entry.cost
    <3>1. ranked.expanded \in Nat
      BY <1>2 DEF Search
    <3> QED  BY <1>5, <1>6, <3>1 DEF Found
  <2> HIDE DEF popped, answer
  <2>3. /\ ranked' \in Search /\ ranked'.states = ranked.states /\ ranked'.best = ranked.best
        /\ ranked'.heap = ranked.heap \ {entry} /\ ranked'.sequence = ranked.sequence
        /\ ranked'.expanded = ranked.expanded /\ ranked'.at = "returned"
        /\ ranked'.solution = answer
    BY <1>8, <2>1, <2>2 DEF Search
  <2>4. Recorded(ranked') /\ Climbed(ranked', height)
    BY <1>7, <1>11, <2>3
  <2>5. StaysBelow(parent.trace, parent.world, height)
    <3>1. height <= height
      BY DEF Heights
    <3> QED  BY <1>3, <1>4, <1>5, <3>1 DEF Climbed
  <2>6. Answered(answer)
    BY <1>3, <1>6, <1>12, <2>2, <2>5 DEF Answered, Climbed
  <2> QED  BY <1>1, <1>2, <2>3, <2>4, <2>6, RankedInvAfter
<1>13. CASE parent.world \notin problem.goals
  <2>1. ranked' = FoldLeft(LAMBDA search, exchange : Consider(search, parent, exchange),
                           base, problem.candidates[parent.world])
    BY <1>6, <1>13 DEF TakeTurn
  <2>2. problem.candidates[parent.world] \in Seq(Exchanges)
    BY <1>2, <1>5, ProblemType
  <2>3. Expanding(base, p, parent, height)
    <3>1. ~Queued(base, p)
      <4> SUFFICES ASSUME NEW e \in base.heap, e.index = p PROVE FALSE
        BY DEF Queued
      <4>1. e \in ranked.heap /\ e # entry
        BY <1>9
      <4>2. e = QueueEntry(World(ranked, p), p - 1, p)
        BY <1>2, <4>1 DEF Recorded
      <4> QED  BY <1>4, <4>1, <4>2
    <3>2. ASSUME NEW k \in DOMAIN ranked.states, k # p PROVE Queued(base, k) \/ Expanded(base, k)
      <4>1. CASE Queued(ranked, k)
        BY <1>9, <3>2, <4>1 DEF Queued
      <4>2. CASE Expanded(ranked, k)
        BY <1>9, <4>2 DEF Expanded, World
      <4> QED  BY <1>2, <4>1, <4>2
    <3> HIDE DEF base
    <3>3. Recorded(base) /\ Climbed(base, height)
      BY <1>7, <1>9, <1>11
    <3> HIDE DEF parent, p
    <3>4. base.states[p] = parent
      BY <1>9 DEF parent
    <3> QED  BY <1>4, <1>9, <3>1, <3>2, <3>3, <3>4 DEF Expanding
  <2>4. High(parent.world) <= height
    BY <1>3, <1>5
  <2> HIDE DEF base
  <2>5. PICK q : q = p
    OBVIOUS
  <2>6. PICK mother : mother = parent
    OBVIOUS
  <2>7. /\ Expanding(ranked', q, mother, height)
        /\ \A i \in DOMAIN problem.candidates[mother.world] :
             Outcome(mother.world, problem.candidates[mother.world][i]) \in DOMAIN ranked'.best \cup {Refused}
    BY <1>2, <1>5, <2>1, <2>2, <2>3, <2>4, <2>5, <2>6, ConsiderAll
  <2>8. Successors(mother.world) \subseteq DOMAIN ranked'.best
    BY <2>7 DEF Successors
  <2>9. Expanded(ranked', q)
    <3>1. World(ranked', q) = mother.world
      BY <2>7 DEF Expanding, World
    <3> QED  BY <1>13, <2>6, <2>8, <3>1 DEF Expanded
  <2>10. /\ Recorded(ranked') /\ Climbed(ranked', height) /\ ranked'.at = "loop"
         /\ ~ranked'.solution.found
         /\ \A k \in DOMAIN ranked'.states : Queued(ranked', k) \/ Expanded(ranked', k)
    BY <2>7, <2>9 DEF Expanding
  <2> QED  BY <1>1, <1>2, <2>10, RankedInvAfter
<1> QED  BY <1>12, <1>13

LEMMA GiveUpKeeps ==
  ASSUME RankedInv, GiveUp
  PROVE  RankedInv'
<1>1. /\ ranked.at = "loop" /\ ranked.heap = {} /\ problem' = problem
      /\ ranked' = [ranked EXCEPT !.at = "returned"]
      /\ problem \in Problems /\ Recorded(ranked) /\ ranked \in Search /\ ~ranked.solution.found
      /\ \A k \in DOMAIN ranked.states : Queued(ranked, k) \/ Expanded(ranked, k)
  BY DEF GiveUp, RankedInv, Recorded
<1>2. /\ ranked' \in Search /\ ranked'.states = ranked.states /\ ranked'.heap = ranked.heap
      /\ ranked'.best = ranked.best /\ ranked'.sequence = ranked.sequence
      /\ ranked'.expanded = ranked.expanded /\ ranked'.at = "returned"
      /\ ranked'.solution = ranked.solution
  BY <1>1 DEF Search
<1>3. \A k : World(ranked', k) = World(ranked, k)
  BY <1>2 DEF World
<1>4. Recorded(ranked')
  <2> PICK after : after = ranked'
    OBVIOUS
  <2>1. /\ after \in Search /\ after.states = ranked.states /\ after.heap = ranked.heap
        /\ after.best = ranked.best /\ after.sequence = ranked.sequence
        /\ after.expanded = ranked.expanded /\ \A k : World(after, k) = World(ranked, k)
    BY <1>2, <1>3
  <2>2. Recorded(after)
    BY ZenonT(30), <1>1, <2>1 DEF Recorded
  <2> QED  BY <2>2
<1>5. PICK height \in Heights : Climbed(ranked, height)
  BY DEF RankedInv
<1>6. Climbed(ranked', height)
  BY <1>2, <1>3, <1>5 DEF Climbed
<1>7. Unreachable(problem.goals)
  <2>1. DOMAIN ranked.best \in SUBSET Worlds /\ problem.initial \in DOMAIN ranked.best
    BY <1>1, BestFacts DEF Recorded
  <2>2. ASSUME NEW w \in DOMAIN ranked.best
        PROVE  w \notin problem.goals /\ Successors(w) \subseteq DOMAIN ranked.best
    <3>1. PICK k \in DOMAIN ranked.states : World(ranked, k) = w
      BY <1>1 DEF Recorded
    <3> QED  BY <1>1, <3>1 DEF Queued, Expanded
  <2> QED  BY <2>1, <2>2 DEF Unreachable
<1>8. Answered(ranked'.solution)
  BY <1>1, <1>2, <1>7 DEF Answered
<1> QED  BY <1>1, <1>2, <1>4, <1>6, <1>8, RankedInvAfter

THEOREM BestFirstAlwaysInv == BestFirstSpec => []RankedInv
<1>1. RankedInv /\ [BestFirstNext]_<<problem, ranked>> => RankedInv'
  <2> SUFFICES ASSUME RankedInv, [BestFirstNext]_<<problem, ranked>> PROVE RankedInv'
    OBVIOUS
  <2>1. CASE GiveUp
    BY <2>1, GiveUpKeeps
  <2>2. CASE \E entry \in ranked.heap : TakeTurn(entry)
    BY <2>2, TurnKeeps
  <2>3. CASE UNCHANGED <<problem, ranked>>
    <3>1. problem' = problem /\ ranked' = ranked
      BY <2>3
    <3> QED  BY <3>1, RankedInvAfter DEF RankedInv
  <2> QED  BY <2>1, <2>2, <2>3 DEF BestFirstNext
<1> QED  BY <1>1, RankedInvInit, PTL DEF BestFirstSpec

(* Best-first search answers truly: the trace of a solution replays to a    *)
(* goal, states its cost and takes the lowest pass, nothing is reported     *)
(* missing that can be reached, and no state is expanded twice.             *)
THEOREM BestFirstAlwaysTakesTheLowestPass == BestFirstSpec => []BestFirstTakesTheLowestPass
<1>1. RankedInv => BestFirstTakesTheLowestPass
  <2> SUFFICES ASSUME RankedInv PROVE BestFirstTakesTheLowestPass
    OBVIOUS
  <2>1. ranked.expanded <= Cardinality(DOMAIN ranked.best)
    <3>1. /\ IsFiniteSet(ranked.heap) /\ IsFiniteSet(DOMAIN ranked.best) /\ ranked.expanded \in Nat
          /\ ranked.expanded + Cardinality(ranked.heap) <= Cardinality(DOMAIN ranked.best)
      BY DEF RankedInv, Recorded, Search
    <3>2. Cardinality(ranked.heap) \in Nat /\ Cardinality(DOMAIN ranked.best) \in Nat
      BY <3>1, FS_CardinalityType
    <3> QED  BY <3>1, <3>2
  <2> QED  BY <2>1 DEF RankedInv, Answered, Heights, BestFirstTakesTheLowestPass
<1> QED  BY <1>1, BestFirstAlwaysInv, PTL

-----------------------------------------------------------------------------
(* What is left of a session without the budget of the advance it is in and *)
(* without the difference between the two ends of an advance.               *)
ParetoProgress(s) ==
  [states |-> s.states, frontier |-> s.frontier, visited |-> s.visited, results |-> s.results,
   expanded |-> s.expanded, generated |-> s.generated, outcomes |-> s.outcomes,
   exhausted |-> s.exhausted, scanning |-> s.at = "scan", current |-> s.current, todo |-> s.todo]

(* The one turn of the loops that follows, whoever asks for it. *)
ParetoOpens(p, c) ==
  LET index  == Head(c.frontier)
      state  == c.states[index]
      popped == [c EXCEPT !.expanded = @ + 1, !.current = index, !.frontier = Tail(@)]
  IN  IF c.frontier = <<>> THEN [c EXCEPT !.exhausted = TRUE, !.results.completeness = "Exact"]
      ELSE IF state.world \in p.goals
           THEN [popped EXCEPT !.outcomes = @ + 1,
                               !.results.entries = FrontWith(@, state.trace, p.project[state.world])]
      ELSE [popped EXCEPT !.scanning = TRUE, !.todo = p.candidates[state.world]]

ParetoScans(p, c) ==
  LET parent == c.states[c.current]
      next   == p.outcome[parent.world][Head(c.todo)]
      trace  == Append(parent.trace, Head(c.todo))
  IN  IF c.todo = <<>> THEN [c EXCEPT !.scanning = FALSE]
      ELSE IF next \in c.visited \cup {Refused} THEN [c EXCEPT !.todo = Tail(@)]
      ELSE [c EXCEPT !.todo = Tail(@), !.visited = @ \cup {next}, !.generated = @ + 1,
                     !.states = Append(@, [world |-> next, trace |-> trace]),
                     !.frontier = Append(@, Len(c.states) + 1)]

ParetoOn(p, c) ==
  IF c.exhausted THEN c
  ELSE IF c.scanning THEN ParetoScans(p, c) ELSE ParetoOpens(p, c)

ParetoLeads(p, c, d) ==
  \A S : c \in S /\ (\A e \in S : ParetoOn(p, e) \in S) => d \in S

LEMMA ParetoLeadsOn ==
  ASSUME NEW p, NEW c, NEW d
  PROVE  /\ ParetoLeads(p, c, c)
         /\ ParetoLeads(p, c, d) => ParetoLeads(p, c, ParetoOn(p, d))
         /\ ParetoLeads(p, c, d) /\ ParetoOn(p, d) = d => ParetoLeads(p, ParetoOn(p, c), d)
         /\ ParetoLeads(p, c, d) /\ ParetoOn(p, c) = c => d = c
<1>1. ParetoLeads(p, c, c) /\ (ParetoLeads(p, c, d) => ParetoLeads(p, c, ParetoOn(p, d)))
  BY DEF ParetoLeads
<1>2. ASSUME ParetoLeads(p, c, d), ParetoOn(p, d) = d PROVE ParetoLeads(p, ParetoOn(p, c), d)
  <2> SUFFICES ASSUME NEW S, ParetoOn(p, c) \in S, \A e \in S : ParetoOn(p, e) \in S
               PROVE  d \in S
    BY DEF ParetoLeads
  <2>1. c \in S \cup {c} /\ \A e \in S \cup {c} : ParetoOn(p, e) \in S \cup {c}
    OBVIOUS
  <2>2. d \in S \cup {c}
    BY <1>2, <2>1 DEF ParetoLeads
  <2> QED  BY <1>2, <2>2
<1>3. ASSUME ParetoLeads(p, c, d), ParetoOn(p, c) = c PROVE d = c
  <2>1. c \in {c} /\ \A e \in {c} : ParetoOn(p, e) \in {c}
    BY <1>3
  <2> QED  BY <1>3, <2>1 DEF ParetoLeads
<1> QED  BY <1>1, <1>2, <1>3

(* Every step of a session is a turn, or no progress: that an advance ends  *)
(* with an error makes no difference to what comes next.                    *)
LEMMA ParetoTurns ==
  ASSUME ParetoInv, ParetoNext
  PROVE  /\ problem' = problem
         /\ \/ ParetoProgress(pareto') = ParetoProgress(pareto)
            \/ ParetoProgress(pareto') = ParetoOn(problem, ParetoProgress(pareto))
<1>1. /\ ParetoOverInv
      /\ pareto = [states |-> pareto.states, frontier |-> pareto.frontier, visited |-> pareto.visited,
                   results |-> pareto.results, expanded |-> pareto.expanded,
                   generated |-> pareto.generated, outcomes |-> pareto.outcomes,
                   exhausted |-> pareto.exhausted, at |-> pareto.at, left |-> pareto.left,
                   current |-> pareto.current, todo |-> pareto.todo, idle |-> pareto.idle]
      /\ pareto.results = [completeness |-> pareto.results.completeness,
                           entries |-> pareto.results.entries]
      /\ pareto.exhausted \in BOOLEAN
  BY DEF ParetoInv, ParetoType, ParetoSession
<1> USE DEF ParetoProgress, ParetoOverInv
<1>2. CASE \E units \in Budgets : ParetoAdvance(units)
  BY <1>1, <1>2 DEF ParetoAdvance
<1>3. CASE ParetoInterrupt
  BY <1>1, <1>3 DEF ParetoInterrupt
<1>4. CASE ParetoGoal
  <2> DEFINE index  == Head(pareto.frontier)
             state  == pareto.states[index]
             front  == FrontWith(pareto.results.entries, state.trace, problem.project[state.world])
             on     == [states |-> pareto.states, frontier |-> Tail(pareto.frontier),
                        visited |-> pareto.visited,
                        results |-> [completeness |-> pareto.results.completeness, entries |-> front],
                        expanded |-> pareto.expanded + 1, generated |-> pareto.generated,
                        outcomes |-> pareto.outcomes + 1, exhausted |-> pareto.exhausted,
                        scanning |-> FALSE, current |-> index, todo |-> pareto.todo]
  <2>1. /\ pareto.at = "loop" /\ pareto.frontier # <<>> /\ state.world \in problem.goals
        /\ ~pareto.exhausted /\ problem' = problem
    BY <1>1, <1>4 DEF ParetoGoal, ParetoTurn, PoppedWorld
  <2>2. PICK at \in {"returned", "loop"} : pareto' =
          [pareto EXCEPT !.at = at, !.left = @ - 1, !.expanded = @ + 1, !.current = index,
                         !.frontier = Tail(@), !.outcomes = @ + 1, !.results.entries = front]
    BY <1>1, <1>4 DEF ParetoGoal, Popped, PoppedWorld
  <2> HIDE DEF front
  <2>3. ParetoProgress(pareto') = on
    BY <1>1, <2>2
  <2>4. ParetoOn(problem, ParetoProgress(pareto)) = on
    BY ZenonT(30), <1>1, <2>1 DEF ParetoOn, ParetoOpens, front
  <2> QED  BY <2>1, <2>3, <2>4
<1>5. CASE ParetoExpand
  BY <1>1, <1>5 DEF ParetoExpand, ParetoTurn, PoppedWorld, Popped, ParetoOn, ParetoOpens
<1>6. CASE ParetoExpandNone
  BY <1>1, <1>6 DEF ParetoExpandNone, Finish, ParetoOn, ParetoOpens
<1>7. CASE ParetoSkip
  BY <1>1, <1>7 DEF ParetoSkip, ParetoOn, ParetoScans, ParetoScanning, ParetoNextWorld,
     ParetoParent, Outcome
<1>8. CASE ParetoDiscover
  <2> DEFINE parent == pareto.states[pareto.current]
             next   == problem.outcome[parent.world][Head(pareto.todo)]
             state  == [world |-> next, trace |-> Append(parent.trace, Head(pareto.todo))]
             on     == [states |-> Append(pareto.states, state),
                        frontier |-> Append(pareto.frontier, Len(pareto.states) + 1),
                        visited |-> pareto.visited \cup {next}, results |-> pareto.results,
                        expanded |-> pareto.expanded, generated |-> pareto.generated + 1,
                        outcomes |-> pareto.outcomes, exhausted |-> pareto.exhausted,
                        scanning |-> TRUE, current |-> pareto.current, todo |-> Tail(pareto.todo)]
  <2>1. /\ pareto.at = "scan" /\ pareto.todo # <<>> /\ next \notin pareto.visited \cup {Refused}
        /\ problem' = problem
        /\ pareto' = [pareto EXCEPT
             !.todo = Tail(@), !.visited = @ \cup {next}, !.generated = @ + 1,
             !.states = Append(@, state), !.frontier = Append(@, Len(pareto.states) + 1)]
    BY <1>8 DEF ParetoDiscover, ParetoScanning, ParetoNextWorld, ParetoParent, Outcome
  <2>2. ParetoOn(problem, ParetoProgress(pareto)) = ParetoScans(problem, ParetoProgress(pareto))
    BY <1>1, <2>1 DEF ParetoOn
  <2>3. ParetoScans(problem, ParetoProgress(pareto)) = on
    BY <1>1, <2>1 DEF ParetoScans
  <2>4. ParetoProgress(pareto') = on
    <3> HIDE DEF state, next
    <3> QED  BY <1>1, <2>1
  <2> QED  BY <2>1, <2>2, <2>3, <2>4
<1>9. CASE ParetoScanEnd
  BY <1>1, <1>9 DEF ParetoScanEnd, ParetoOn, ParetoScans
<1>10. CASE ParetoReturn
  BY ZenonT(30), <1>1, <1>10 DEF ParetoReturn, Finish, ParetoOn, ParetoOpens
<1> QED
  BY <1>2, <1>3, <1>4, <1>5, <1>6, <1>7, <1>8, <1>9, <1>10 DEF ParetoNext

-----------------------------------------------------------------------------
Reached  == [world : Worlds, trace : Seq(Exchanges)]
HeapEntry == [priority : 0 .. MaxCost, cost : 0 .. MaxCost, sequence : Nat, index : Nat]
PlanAnswer    == [found : BOOLEAN, trace : Seq(Exchanges), cost : 0 .. MaxCost, expanded : Nat]

AStarTypeOK ==
  /\ problem \in Problems
  /\ astar \in
       [states : Seq(Reached), frontier : SUBSET HeapEntry, best : {astar.best},
        expanded : Nat, generated : Nat, sequence : Nat, solution : PlanAnswer, exhausted : BOOLEAN,
        at : {"returned", "loop", "scan"}, left : Nat, todo : Seq(Exchanges), idle : Nat,
        entry : HeapEntry]
  /\ astar.best \in [DOMAIN astar.best -> 0 .. MaxCost]
  /\ DOMAIN astar.best \subseteq Worlds

-----------------------------------------------------------------------------
(* What the properties rest on.  A known world is pending, that is, the     *)
(* heap has an entry that is not stale for it, or it is closed: it is no    *)
(* goal and every candidate from it has been taken into account, or is      *)
(* about to be.                                                             *)

Relaxed(w, x) ==
  Outcome(w, x) # Refused =>
    /\ Outcome(w, x) \in DOMAIN astar.best
    /\ astar.best[Outcome(w, x)] <= Plus(astar.best[w], problem.cost[w][x])

Due(w, x) ==
  astar.at = "scan" /\ w = WorldOf(astar.entry) /\ \E k \in DOMAIN astar.todo : astar.todo[k] = x

Pending(w) == \E e \in astar.frontier : WorldOf(e) = w /\ e.cost = astar.best[w]

Closed(w) ==
  /\ w \notin problem.goals
  /\ \A i \in DOMAIN problem.candidates[w] :
       Relaxed(w, problem.candidates[w][i]) \/ Due(w, problem.candidates[w][i])

OpenInv == \A w \in DOMAIN astar.best : Pending(w) \/ Closed(w)

PointsAt(e) ==
  /\ e.index \in DOMAIN astar.states
  /\ WorldOf(e) \in DOMAIN astar.best
  /\ e.priority = Plus(e.cost, problem.heuristic[WorldOf(e)])

HeapInv == \A e \in astar.frontier : PointsAt(e)

(* The state being expanded is not reached more cheaply meanwhile. *)
ScanInv ==
  astar.at = "scan" =>
    PointsAt(astar.entry) /\ astar.best[WorldOf(astar.entry)] = astar.entry.cost

AStarTracesInv == \A i \in DOMAIN astar.states : Replays(astar.states[i].trace, astar.states[i].world)

StartInv == problem.initial \in DOMAIN astar.best /\ astar.best[problem.initial] = 0

AStarSearchInv == OpenInv /\ HeapInv /\ ScanInv /\ AStarTracesInv /\ StartInv

(* A session that is over stays as it is. *)
AStarOverInv ==
  /\ astar.solution.found \/ astar.exhausted => astar.at = "returned"
  /\ astar.exhausted => astar.frontier = {} /\ ~astar.solution.found

AStarInv ==
  /\ AStarTypeOK
  /\ AStarOverInv
  /\ astar.solution.found => AStarSolutionReplays /\ AStarSolutionIsCheapest
  /\ ~astar.solution.found => AStarSearchInv

-----------------------------------------------------------------------------
LEMMA AStarProblemType ==
  ASSUME AStarTypeOK
  PROVE  /\ problem.initial \in Worlds
         /\ problem.goals \subseteq Worlds
         /\ problem.candidates \in [Worlds -> Seq(Exchanges)]
         /\ problem.outcome \in [Worlds -> [Exchanges -> Worlds \cup {Refused}]]
         /\ problem.cost \in [Worlds -> [Exchanges -> 0 .. MaxCost]]
         /\ problem.heuristic \in [Worlds -> 0 .. MaxCost]
  BY ProblemAssumption, CostAssumption DEF AStarTypeOK

(* Costs add up within their range, and no sum is below its parts. *)
LEMMA PlusType ==
  ASSUME NEW a \in 0 .. MaxCost, NEW b \in 0 .. MaxCost
  PROVE  /\ Plus(a, b) \in 0 .. MaxCost
         /\ a <= Plus(a, b) /\ b <= Plus(a, b) /\ Plus(a, b) <= a + b
         /\ \A c \in 0 .. MaxCost : c <= a => Plus(c, b) <= Plus(a, b)
  BY SearchAssumption DEF Plus

LEMMA HeadOrTail ==
  ASSUME NEW S, NEW seq \in Seq(S), seq # <<>>
  PROVE  /\ Head(seq) \in S /\ Tail(seq) \in Seq(S)
         /\ \A k \in DOMAIN seq : seq[k] = Head(seq) \/ \E j \in DOMAIN Tail(seq) : Tail(seq)[j] = seq[k]
<1> SUFFICES ASSUME NEW k \in DOMAIN seq, seq[k] # Head(seq)
             PROVE  \E j \in DOMAIN Tail(seq) : Tail(seq)[j] = seq[k]
  OBVIOUS
<1>1. k \in Nat /\ k # 1 /\ k >= 1 /\ k <= Len(seq)
  OBVIOUS
<1>2. k - 1 \in DOMAIN Tail(seq) /\ Tail(seq)[k - 1] = seq[k]
  BY <1>1
<1> QED  BY <1>2

LEMMA EntryType ==
  ASSUME AStarTypeOK, NEW w \in Worlds, NEW c \in 0 .. MaxCost, NEW s \in Nat, NEW i \in Nat
  PROVE  Entry(w, c, s, i) \in HeapEntry
  BY AStarProblemType, PlusType DEF Entry, HeapEntry

(* What a scan finds next. *)
LEMMA NextType ==
  ASSUME AStarTypeOK, AStarSearchInv, AStarScanning
  PROVE  /\ AStarParent \in Reached /\ AStarParent.world = WorldOf(astar.entry)
         /\ AStarParent.world \in DOMAIN astar.best
         /\ astar.best[AStarParent.world] = astar.entry.cost
         /\ astar.entry.index \in DOMAIN astar.states
         /\ Head(astar.todo) \in Exchanges
         /\ AStarNextWorld = Outcome(AStarParent.world, Head(astar.todo))
         /\ AStarNextWorld \in Worlds \cup {Refused}
         /\ AStarNextCost = Plus(astar.best[AStarParent.world], problem.cost[AStarParent.world][Head(astar.todo)])
         /\ AStarNextCost \in 0 .. MaxCost
         /\ astar.best[AStarParent.world] <= AStarNextCost
         /\ Append(AStarParent.trace, Head(astar.todo)) \in Seq(Exchanges)
<1>1. astar.at = "scan" /\ astar.todo \in Seq(Exchanges) /\ astar.todo # <<>>
  BY DEF AStarTypeOK, AStarScanning
<1>2. PointsAt(astar.entry) /\ astar.best[WorldOf(astar.entry)] = astar.entry.cost
  BY <1>1 DEF AStarSearchInv, ScanInv
<1>3. Head(astar.todo) \in Exchanges
  BY <1>1, HeadOrTail
<1>4. AStarParent \in Reached /\ astar.entry.index \in DOMAIN astar.states
  BY <1>2 DEF AStarTypeOK, PointsAt, AStarParent
<1>5. AStarParent.world = WorldOf(astar.entry) /\ AStarParent.world \in Worlds
  BY <1>4 DEF AStarParent, WorldOf, Reached
<1>6. AStarParent.world \in DOMAIN astar.best /\ astar.best[AStarParent.world] = astar.entry.cost
  BY <1>2, <1>5 DEF PointsAt
<1>7. astar.best[AStarParent.world] \in 0 .. MaxCost
  BY <1>6 DEF AStarTypeOK
<1>8. problem.cost[AStarParent.world][Head(astar.todo)] \in 0 .. MaxCost
  BY <1>3, <1>5, AStarProblemType
<1>9. AStarNextCost = Plus(astar.best[AStarParent.world], problem.cost[AStarParent.world][Head(astar.todo)])
  BY <1>6 DEF AStarNextCost
<1>10. AStarNextCost \in 0 .. MaxCost /\ astar.best[AStarParent.world] <= AStarNextCost
  BY <1>7, <1>8, <1>9, PlusType
<1>11. AStarNextWorld \in Worlds \cup {Refused}
  BY <1>3, <1>5, AStarProblemType DEF AStarNextWorld, Outcome
<1>12. Append(AStarParent.trace, Head(astar.todo)) \in Seq(Exchanges)
  BY <1>3, <1>4 DEF Reached
<1>13. AStarNextWorld = Outcome(AStarParent.world, Head(astar.todo))
  BY DEF AStarNextWorld
<1> QED  BY <1>3, <1>4, <1>5, <1>6, <1>9, <1>10, <1>11, <1>12, <1>13

-----------------------------------------------------------------------------
(* Steps that leave the retained states and the best costs alone.           *)

LEMMA WorldsKept ==
  ASSUME astar'.states = astar.states, astar'.best = astar.best, problem' = problem
  PROVE  /\ \A w, x : Relaxed(w, x)' = Relaxed(w, x)
         /\ \A e : PointsAt(e)' = PointsAt(e) /\ WorldOf(e)' = WorldOf(e)
         /\ AStarTracesInv => AStarTracesInv'
         /\ StartInv => StartInv'
<1>1. \A w, x : Relaxed(w, x)' = Relaxed(w, x)
  BY DEF Relaxed, Outcome
<1>2. \A e : PointsAt(e)' = PointsAt(e) /\ WorldOf(e)' = WorldOf(e)
  BY DEF PointsAt, WorldOf
<1>3. AStarTracesInv => AStarTracesInv'
  <2> SUFFICES ASSUME AStarTracesInv, NEW i \in DOMAIN astar.states
               PROVE  Replays(astar.states[i].trace, astar.states[i].world)'
    BY DEF AStarTracesInv
  <2>1. Replays(astar.states[i].trace, astar.states[i].world)
    BY DEF AStarTracesInv
  <2> QED  BY <2>1 DEF Replays, Outcome
<1>4. StartInv => StartInv'
  BY DEF StartInv
<1> QED  BY <1>1, <1>2, <1>3, <1>4

LEMMA Frozen ==
  ASSUME AStarTypeOK, AStarOverInv, astar.solution.found \/ astar.exhausted, [AStarNext]_astarVars
  PROVE  UNCHANGED astarVars
  BY DEF AStarOverInv, AStarNext, AStarAdvance, AStarStatus, AStarInterrupt, Popping,
     AStarDropStale,
         AStarReach, AStarExpand, AStarExpandNone, AStarScanning, AStarSkip, AStarDiscover,
         AStarScanEnd, AStarReturn

(* The turns of the outer loop that leave the heap and the scan alone. *)
AStarQuiet ==
  /\ astar.at # "scan" /\ astar'.at # "scan"
  /\ astar'.states = astar.states /\ astar'.frontier = astar.frontier
  /\ astar'.best = astar.best /\ astar'.solution = astar.solution
  /\ problem' = problem

LEMMA QuietSteps ==
  ASSUME AStarTypeOK,
         \/ \E units \in Budgets : AStarAdvance(units)
         \/ AStarInterrupt \/ AStarExpandNone \/ AStarReturn
  PROVE  AStarQuiet
  BY DEF AStarTypeOK, AStarQuiet, AStarAdvance, AStarInterrupt, AStarExpandNone, AStarReturn

LEMMA AStarQuietKeeps ==
  ASSUME AStarSearchInv, AStarQuiet
  PROVE  AStarSearchInv'
<1> USE DEF AStarSearchInv, AStarQuiet
<1>1. AStarTracesInv' /\ StartInv'
  BY WorldsKept
<1>2. HeapInv' /\ ScanInv'
  BY WorldsKept DEF HeapInv, ScanInv
<1>3. OpenInv'
  <2> SUFFICES ASSUME NEW w \in DOMAIN astar.best PROVE (Pending(w) \/ Closed(w))'
    BY DEF OpenInv
  <2>1. Pending(w) => Pending(w)'
    BY WorldsKept DEF Pending
  <2>2. Closed(w) => Closed(w)'
    BY WorldsKept DEF Closed, Due
  <2> QED  BY <2>1, <2>2 DEF OpenInv
<1> QED  BY <1>1, <1>2, <1>3

LEMMA DropStaleKeeps ==
  ASSUME AStarTypeOK, AStarSearchInv, NEW e \in astar.frontier, AStarDropStale(e)
  PROVE  AStarSearchInv' /\ astar'.solution = astar.solution
<1> USE DEF AStarSearchInv
<1>1. /\ astar.at = "loop" /\ astar'.at = "loop" /\ astar'.states = astar.states
      /\ astar'.best = astar.best /\ astar'.solution = astar.solution /\ problem' = problem
      /\ astar'.frontier = astar.frontier \ {e}
  BY DEF AStarTypeOK, AStarDropStale, Popping
<1>2. AStarTracesInv' /\ StartInv'
  BY <1>1, WorldsKept
<1>3. HeapInv' /\ ScanInv'
  BY <1>1, WorldsKept DEF HeapInv, ScanInv
<1>4. OpenInv'
  <2> SUFFICES ASSUME NEW w \in DOMAIN astar.best PROVE (Pending(w) \/ Closed(w))'
    BY <1>1 DEF OpenInv
  <2>1. ASSUME Pending(w) PROVE Pending(w)'
    <3>1. PICK other \in astar.frontier : WorldOf(other) = w /\ other.cost = astar.best[w]
      BY <2>1 DEF Pending
    <3>2. other # e
      BY <3>1 DEF AStarDropStale, Stale
    <3> QED  BY <1>1, <3>1, <3>2, WorldsKept DEF Pending
  <2>2. Closed(w) => Closed(w)'
    BY <1>1, WorldsKept DEF Closed, Due
  <2> QED  BY <2>1, <2>2 DEF OpenInv
<1> QED  BY <1>1, <1>2, <1>3, <1>4

LEMMA AStarExpandKeeps ==
  ASSUME AStarTypeOK, AStarSearchInv, NEW e \in astar.frontier, AStarExpand(e)
  PROVE  AStarSearchInv' /\ astar'.solution = astar.solution
<1> USE DEF AStarSearchInv
<1>1. /\ astar.at = "loop" /\ astar'.at = "scan" /\ astar'.states = astar.states
      /\ astar'.best = astar.best /\ astar'.solution = astar.solution /\ problem' = problem
      /\ astar'.frontier = astar.frontier \ {e} /\ astar'.entry = e
      /\ astar'.todo = problem.candidates[WorldOf(e)]
  BY DEF AStarTypeOK, AStarExpand, Popping
<1>2. PointsAt(e) /\ astar.best[WorldOf(e)] = e.cost /\ WorldOf(e) \notin problem.goals
  BY DEF HeapInv, AStarExpand, Stale
<1>3. AStarTracesInv' /\ StartInv'
  BY <1>1, WorldsKept
<1>4. HeapInv' /\ ScanInv'
  BY <1>1, <1>2, WorldsKept DEF HeapInv, ScanInv
<1>5. OpenInv'
  <2> SUFFICES ASSUME NEW w \in DOMAIN astar.best PROVE (Pending(w) \/ Closed(w))'
    BY <1>1 DEF OpenInv
  <2>1. CASE w = WorldOf(e)
    <3>1. \A i \in DOMAIN problem.candidates[w] : Due(w, problem.candidates[w][i])'
      BY <1>1, <2>1, WorldsKept DEF Due
    <3>2. (w \notin problem.goals)'
      BY <1>1, <1>2, <2>1
    <3> QED  BY <1>1, <3>1, <3>2 DEF Closed
  <2>2. ASSUME w # WorldOf(e), Pending(w) PROVE Pending(w)'
    BY <1>1, <2>2, WorldsKept DEF Pending
  <2>3. Closed(w) => Closed(w)'
    BY <1>1, WorldsKept DEF Closed, Due
  <2> QED  BY <2>1, <2>2, <2>3 DEF OpenInv
<1> QED  BY <1>1, <1>3, <1>4, <1>5

LEMMA AStarSkipKeeps ==
  ASSUME AStarTypeOK, AStarSearchInv, AStarSkip
  PROVE  AStarSearchInv' /\ astar'.solution = astar.solution
<1> USE DEF AStarSearchInv
<1>1. /\ astar.at = "scan" /\ astar'.at = "scan" /\ astar'.states = astar.states
      /\ astar'.best = astar.best /\ astar'.solution = astar.solution /\ problem' = problem
      /\ astar'.frontier = astar.frontier /\ astar'.entry = astar.entry
      /\ astar'.todo = Tail(astar.todo) /\ astar.todo \in Seq(Exchanges) /\ astar.todo # <<>>
      /\ AStarScanning
  BY DEF AStarTypeOK, AStarSkip, AStarScanning
<1>2. AStarTracesInv' /\ StartInv'
  BY <1>1, WorldsKept
<1>3. HeapInv' /\ ScanInv'
  BY <1>1, WorldsKept DEF HeapInv, ScanInv
<1>4. Relaxed(WorldOf(astar.entry), Head(astar.todo))
  <2>1. AStarNextWorld = Refused \/
          (AStarNextWorld \in DOMAIN astar.best /\ astar.best[AStarNextWorld] <= AStarNextCost)
    BY DEF AStarSkip
  <2> QED  BY <1>1, <2>1, NextType DEF Relaxed
<1>5. OpenInv'
  <2> SUFFICES ASSUME NEW w \in DOMAIN astar.best PROVE (Pending(w) \/ Closed(w))'
    BY <1>1 DEF OpenInv
  <2>1. Pending(w) => Pending(w)'
    BY <1>1, WorldsKept DEF Pending
  <2>2. ASSUME Closed(w) PROVE Closed(w)'
    <3>1. ASSUME NEW x, Due(w, x) PROVE Relaxed(w, x)' \/ Due(w, x)'
      <4>1. w = WorldOf(astar.entry) /\ \E k \in DOMAIN astar.todo : astar.todo[k] = x
        BY <3>1 DEF Due
      <4>2. x = Head(astar.todo) \/ \E j \in DOMAIN Tail(astar.todo) : Tail(astar.todo)[j] = x
        BY <1>1, <4>1, HeadOrTail
      <4>3. CASE x = Head(astar.todo)
        BY <1>1, <1>4, <4>1, <4>3, WorldsKept
      <4>4. CASE \E j \in DOMAIN Tail(astar.todo) : Tail(astar.todo)[j] = x
        BY <1>1, <4>1, <4>4, WorldsKept DEF Due
      <4> QED  BY <4>2, <4>3, <4>4
    <3> QED  BY <1>1, <2>2, <3>1, WorldsKept DEF Closed
  <2> QED  BY <2>1, <2>2 DEF OpenInv
<1> QED  BY <1>1, <1>2, <1>3, <1>5

LEMMA AStarScanEndKeeps ==
  ASSUME AStarTypeOK, AStarSearchInv, AStarScanEnd
  PROVE  AStarSearchInv' /\ astar'.solution = astar.solution
<1> USE DEF AStarSearchInv
<1>1. /\ astar.at = "scan" /\ astar'.at = "loop" /\ astar'.states = astar.states
      /\ astar'.best = astar.best /\ astar'.solution = astar.solution /\ problem' = problem
      /\ astar'.frontier = astar.frontier /\ astar.todo = <<>>
  BY DEF AStarTypeOK, AStarScanEnd
<1>2. AStarTracesInv' /\ StartInv'
  BY <1>1, WorldsKept
<1>3. HeapInv' /\ ScanInv'
  BY <1>1, WorldsKept DEF HeapInv, ScanInv
<1>4. OpenInv'
  <2> SUFFICES ASSUME NEW w \in DOMAIN astar.best PROVE (Pending(w) \/ Closed(w))'
    BY <1>1 DEF OpenInv
  <2>1. Pending(w) => Pending(w)'
    BY <1>1, WorldsKept DEF Pending
  <2>2. \A x : ~Due(w, x)
    BY <1>1 DEF Due
  <2>3. Closed(w) => Closed(w)'
    BY <1>1, <2>2, WorldsKept DEF Closed
  <2> QED  BY <2>1, <2>3 DEF OpenInv
<1> QED  BY <1>1, <1>2, <1>3, <1>4

-----------------------------------------------------------------------------
(* A cheaper way, or the first one, to a world.                             *)

LEMMA LongerReplay ==
  ASSUME NEW trace \in Seq(Exchanges), NEW x \in Exchanges, NEW world, Replays(trace, world),
         Outcome(world, x) \in Worlds
  PROVE  Replays(Append(trace, x), Outcome(world, x))
<1>1. PICK path \in [0 .. Len(trace) -> Worlds] :
        /\ path[0] = problem.initial
        /\ path[Len(trace)] = world
        /\ \A i \in 1 .. Len(trace) : path[i] = Outcome(path[i - 1], trace[i])
  BY DEF Replays
<1> DEFINE end    == Len(trace) + 1
           longer == [i \in 0 .. end |-> IF i = end THEN Outcome(world, x) ELSE path[i]]
<1>2. Len(trace) \in Nat /\ Len(Append(trace, x)) = end /\ Append(trace, x)[end] = x
      /\ \A i \in 1 .. Len(trace) : Append(trace, x)[i] = trace[i]
  OBVIOUS
<1>3. longer \in [0 .. Len(Append(trace, x)) -> Worlds]
  BY <1>2
<1>4. longer[0] = problem.initial /\ longer[Len(Append(trace, x))] = Outcome(world, x)
  BY <1>1, <1>2
<1>5. ASSUME NEW i \in 1 .. Len(Append(trace, x))
      PROVE  longer[i] = Outcome(longer[i - 1], Append(trace, x)[i])
  <2>1. CASE i = end
    <3>1. longer[i] = Outcome(world, x) /\ longer[i - 1] = path[Len(trace)]
      BY <1>2, <2>1
    <3> QED  BY <1>1, <1>2, <2>1, <3>1
  <2>2. CASE i # end
    <3>1. i \in 1 .. Len(trace) /\ i - 1 \in 0 .. Len(trace) /\ i - 1 # end
      BY <1>2, <2>2
    <3>2. longer[i] = path[i] /\ longer[i - 1] = path[i - 1]
      BY <1>2, <2>2, <3>1
    <3> QED  BY <1>1, <1>2, <3>1, <3>2
  <2> QED  BY <2>1, <2>2
<1> HIDE DEF longer
<1> QED  BY <1>3, <1>4, <1>5 DEF Replays

LEMMA DiscoverStep ==
  ASSUME AStarTypeOK, AStarSearchInv, AStarDiscover
  PROVE  LET new   == [world |-> AStarNextWorld, trace |-> Append(AStarParent.trace, Head(astar.todo))]
             index == Len(astar.states) + 1
             entry == Entry(AStarNextWorld, AStarNextCost, astar.sequence, index)
         IN  /\ astar.at = "scan" /\ astar'.at = "scan"
             /\ astar'.entry = astar.entry /\ astar'.solution = astar.solution /\ problem' = problem
             /\ astar'.todo = Tail(astar.todo) /\ astar.todo \in Seq(Exchanges) /\ astar.todo # <<>>
             /\ AStarScanning /\ AStarNextWorld \in Worlds
             /\ new \in Reached /\ astar'.states \in Seq(Reached)
             /\ DOMAIN astar'.states = DOMAIN astar.states \cup {index}
             /\ \A i \in DOMAIN astar.states : astar'.states[i] = astar.states[i]
             /\ astar'.states[index] = new
             /\ entry \in HeapEntry /\ astar'.frontier = astar.frontier \cup {entry}
             /\ entry.cost = AStarNextCost /\ entry.index = index
             /\ entry.priority = Plus(AStarNextCost, problem.heuristic[AStarNextWorld])
             /\ DOMAIN astar'.best = DOMAIN astar.best \cup {AStarNextWorld}
             /\ astar'.best[AStarNextWorld] = AStarNextCost
             /\ \A w \in DOMAIN astar.best \ {AStarNextWorld} : astar'.best[w] = astar.best[w]
             /\ AStarNextWorld \in DOMAIN astar.best => AStarNextCost < astar.best[AStarNextWorld]
<1> DEFINE new   == [world |-> AStarNextWorld, trace |-> Append(AStarParent.trace, Head(astar.todo))]
           index == Len(astar.states) + 1
           entry == Entry(AStarNextWorld, AStarNextCost, astar.sequence, index)
<1>1. /\ astar.at = "scan" /\ astar'.at = "scan"
      /\ astar'.entry = astar.entry /\ astar'.solution = astar.solution /\ problem' = problem
      /\ astar'.todo = Tail(astar.todo) /\ astar.todo \in Seq(Exchanges) /\ astar.todo # <<>>
      /\ AStarScanning /\ AStarNextWorld # Refused
      /\ astar'.states = Append(astar.states, new) /\ astar.states \in Seq(Reached)
      /\ astar'.frontier = astar.frontier \cup {entry} /\ astar.sequence \in Nat
      /\ astar'.best = [w \in DOMAIN astar.best \cup {AStarNextWorld} |->
                          IF w = AStarNextWorld THEN AStarNextCost ELSE astar.best[w]]
  BY DEF AStarTypeOK, AStarDiscover, AStarScanning
<1>2. AStarNextWorld \in Worlds /\ AStarNextCost \in 0 .. MaxCost /\ new \in Reached
  BY <1>1, NextType DEF Reached
<1>3. /\ astar'.states \in Seq(Reached)
      /\ DOMAIN astar'.states = DOMAIN astar.states \cup {index}
      /\ \A i \in DOMAIN astar.states : astar'.states[i] = astar.states[i]
      /\ astar'.states[index] = new /\ index \in Nat
  <2> HIDE DEF new
  <2>1. astar.states \in Seq(Reached) /\ new \in Reached
    BY <1>1, <1>2
  <2> QED  BY <1>1, <2>1, Appended
<1>4. entry \in HeapEntry
  BY <1>1, <1>2, <1>3, EntryType
<1>5. /\ entry.cost = AStarNextCost /\ entry.index = index
      /\ entry.priority = Plus(AStarNextCost, problem.heuristic[AStarNextWorld])
  BY DEF Entry
<1>6. AStarNextWorld \in DOMAIN astar.best => AStarNextCost < astar.best[AStarNextWorld]
  BY <1>2, SearchAssumption DEF AStarDiscover, AStarTypeOK
<1> HIDE DEF new, index, entry
<1>7. /\ DOMAIN astar'.best = DOMAIN astar.best \cup {AStarNextWorld}
      /\ astar'.best[AStarNextWorld] = AStarNextCost
      /\ \A w \in DOMAIN astar.best \ {AStarNextWorld} : astar'.best[w] = astar.best[w]
  BY <1>1
<1> QED  BY <1>1, <1>2, <1>3, <1>4, <1>5, <1>6, <1>7 DEF new, index, entry

LEMMA AStarDiscoverKeeps ==
  ASSUME AStarTypeOK, AStarSearchInv, AStarDiscover
  PROVE  AStarSearchInv' /\ astar'.solution = astar.solution
<1> USE DEF AStarSearchInv
<1> PICK next, index, entry :
      /\ next = AStarNextWorld /\ index = Len(astar.states) + 1
      /\ entry = Entry(AStarNextWorld, AStarNextCost, astar.sequence, index)
  OBVIOUS
<1>1. /\ astar.at = "scan" /\ astar'.at = "scan"
      /\ astar'.entry = astar.entry /\ astar'.solution = astar.solution /\ problem' = problem
      /\ astar'.todo = Tail(astar.todo) /\ astar.todo \in Seq(Exchanges) /\ astar.todo # <<>>
      /\ AStarScanning /\ next \in Worlds
      /\ DOMAIN astar'.states = DOMAIN astar.states \cup {index}
      /\ \A i \in DOMAIN astar.states : astar'.states[i] = astar.states[i]
      /\ astar'.states[index] =
           [world |-> next, trace |-> Append(AStarParent.trace, Head(astar.todo))]
      /\ astar'.frontier = astar.frontier \cup {entry}
      /\ entry.cost = AStarNextCost /\ entry.index = index
      /\ entry.priority = Plus(AStarNextCost, problem.heuristic[next])
  BY DiscoverStep
<1>2. /\ DOMAIN astar'.best = DOMAIN astar.best \cup {next}
      /\ astar'.best[next] = AStarNextCost
      /\ \A w \in DOMAIN astar.best \ {next} : astar'.best[w] = astar.best[w]
      /\ next \in DOMAIN astar.best => AStarNextCost < astar.best[next]
  BY DiscoverStep
<1>3. /\ AStarParent \in Reached /\ AStarParent.world = WorldOf(astar.entry)
      /\ AStarParent.world \in DOMAIN astar.best
      /\ astar.best[AStarParent.world] = astar.entry.cost
      /\ astar.entry.index \in DOMAIN astar.states
      /\ Head(astar.todo) \in Exchanges
      /\ next = Outcome(AStarParent.world, Head(astar.todo))
      /\ AStarNextCost = Plus(astar.best[AStarParent.world], problem.cost[AStarParent.world][Head(astar.todo)])
      /\ AStarNextCost \in 0 .. MaxCost
      /\ astar.best[AStarParent.world] <= AStarNextCost
  BY <1>1, NextType
<1>4. \A w \in DOMAIN astar.best : astar.best[w] \in 0 .. MaxCost
  BY DEF AStarTypeOK
<1>5. \A w \in DOMAIN astar.best : astar'.best[w] <= astar.best[w]
  BY <1>2, <1>3, <1>4, SearchAssumption
<1>6. next # AStarParent.world /\ next # problem.initial
  BY <1>2, <1>3, <1>4, SearchAssumption DEF StartInv
<1>7. \A e : PointsAt(e) => WorldOf(e)' = WorldOf(e) /\ PointsAt(e)'
  BY <1>1, <1>2 DEF PointsAt, WorldOf
<1>8. WorldOf(entry)' = next /\ PointsAt(entry)'
  BY <1>1, <1>2 DEF PointsAt, WorldOf
<1>9. HeapInv'
  BY <1>1, <1>7, <1>8 DEF HeapInv
<1>10. ScanInv'
  BY SMTT(20), <1>1, <1>2, <1>3, <1>6, <1>7 DEF ScanInv
<1>11. StartInv'
  BY <1>1, <1>2, <1>6 DEF StartInv
<1>12. AStarTracesInv'
  <2> SUFFICES ASSUME NEW i \in DOMAIN astar'.states
               PROVE  Replays(astar.states[i].trace, astar.states[i].world)'
    BY DEF AStarTracesInv
  <2> PICK trace, world : trace = astar'.states[i].trace /\ world = astar'.states[i].world
    OBVIOUS
  <2>1. CASE i = index
    <3>1. trace = Append(AStarParent.trace, Head(astar.todo)) /\ world = next
      BY <1>1, <2>1
    <3>2. Replays(AStarParent.trace, AStarParent.world) /\ AStarParent.trace \in Seq(Exchanges)
      BY <1>3 DEF AStarTracesInv, AStarParent, Reached
    <3>3. Head(astar.todo) \in Exchanges /\ Outcome(AStarParent.world, Head(astar.todo)) \in Worlds
      BY <1>1, <1>3
    <3>4. Replays(Append(AStarParent.trace, Head(astar.todo)), Outcome(AStarParent.world, Head(astar.todo)))
      BY <3>2, <3>3, LongerReplay
    <3>5. Replays(trace, world)
      BY <1>3, <3>1, <3>4
    <3> QED  BY <1>1, <3>5 DEF Replays, Outcome
  <2>2. CASE i # index
    <3>1. Replays(trace, world)
      BY <1>1, <2>2 DEF AStarTracesInv
    <3> QED  BY <1>1, <3>1 DEF Replays, Outcome
  <2> QED  BY <2>1, <2>2
<1>13. OpenInv'
  <2>1. Pending(next)'
    BY <1>1, <1>2, <1>8 DEF Pending
  <2>2. ASSUME NEW w \in DOMAIN astar.best, w # next PROVE (Pending(w) \/ Closed(w))'
    <3>1. ASSUME Pending(w) PROVE Pending(w)'
      BY <1>1, <1>2, <1>7, <2>2, <3>1 DEF Pending, HeapInv
    <3>2. ASSUME Closed(w) PROVE Closed(w)'
      <4>1. astar'.best[w] = astar.best[w]
        BY <1>2, <2>2
      <4>2. ASSUME NEW i \in DOMAIN problem.candidates[w]
            PROVE  Relaxed(w, problem.candidates[w][i])' \/ Due(w, problem.candidates[w][i])'
        <5> PICK x : x = problem.candidates[w][i]
          OBVIOUS
        <5>0. w \in Worlds /\ x \in Exchanges
          BY AStarProblemType DEF AStarTypeOK
        <5>1. CASE Relaxed(w, x)
          <6>1. ASSUME Outcome(w, x) # Refused
                PROVE  astar'.best[Outcome(w, x)] <= Plus(astar.best[w], problem.cost[w][x])
            <7>1. Outcome(w, x) \in DOMAIN astar.best
                  /\ astar.best[Outcome(w, x)] <= Plus(astar.best[w], problem.cost[w][x])
              BY <5>1, <6>1 DEF Relaxed
            <7>2. Plus(astar.best[w], problem.cost[w][x]) \in 0 .. MaxCost
              BY <1>4, <5>0, AStarProblemType, PlusType
            <7>3. astar'.best[Outcome(w, x)] <= astar.best[Outcome(w, x)]
                  /\ astar'.best[Outcome(w, x)] \in Int
              BY <1>2, <1>3, <1>4, <1>5, <7>1, SearchAssumption
            <7> QED  BY <1>4, <7>1, <7>2, <7>3, SearchAssumption
          <6> QED  BY <1>1, <1>2, <4>1, <5>1, <6>1 DEF Relaxed, Outcome
        <5>2. CASE Due(w, x)
          <6>1. w = WorldOf(astar.entry) /\ w = AStarParent.world
                /\ \E k \in DOMAIN astar.todo : astar.todo[k] = x
            BY <1>3, <5>2 DEF Due
          <6>2. x = Head(astar.todo) \/ \E j \in DOMAIN Tail(astar.todo) : Tail(astar.todo)[j] = x
            BY <1>1, <6>1, HeadOrTail
          <6>3. CASE x = Head(astar.todo)
            <7>1. Outcome(w, x) = next /\ astar'.best[next] = Plus(astar.best[w], problem.cost[w][x])
              BY <1>2, <1>3, <6>1, <6>3
            <7>2. Plus(astar.best[w], problem.cost[w][x]) <= Plus(astar.best[w], problem.cost[w][x])
              BY <1>2, <1>3, <7>1, SearchAssumption
            <7> QED  BY <1>1, <1>2, <4>1, <7>1, <7>2 DEF Relaxed, Outcome
          <6>4. CASE \E j \in DOMAIN Tail(astar.todo) : Tail(astar.todo)[j] = x
            <7>1. WorldOf(astar.entry)' = WorldOf(astar.entry)
              BY <1>1, <1>3 DEF WorldOf
            <7> QED  BY <1>1, <6>1, <6>4, <7>1 DEF Due, WorldOf
          <6> QED  BY <6>2, <6>3, <6>4
        <5> QED  BY <1>1, <3>2, <5>1, <5>2 DEF Closed
      <4> QED  BY <1>1, <3>2, <4>2 DEF Closed
    <3> QED  BY <2>2, <3>1, <3>2 DEF OpenInv
  <2> QED  BY <1>2, <2>1, <2>2 DEF OpenInv
<1> QED  BY <1>1, <1>9, <1>10, <1>11, <1>12, <1>13

-----------------------------------------------------------------------------
(* When a goal is popped.  The price of a world is what it is known to      *)
(* cost, or what the solution's cost leaves when the least that remains to  *)
(* be paid from there is taken off, whichever is lower.  For pending worlds *)
(* the second is, since the heap has no lower priority than the goal's: a   *)
(* step from them, and from unknown worlds, is paid for by what remains;    *)
(* a step from a closed world leads to a known one, no dearer than that.    *)

LEMMA NothingCheaper ==
  ASSUME AStarTypeOK, AStarSearchInv, NEW e \in astar.frontier, Popping(e), ~Stale(e),
         WorldOf(e) \in problem.goals, Admissible
  PROVE  NoneCheaper(problem.goals, e.cost)
<1> USE DEF AStarSearchInv
<1>1. PICK remaining \in [Worlds -> 0 .. MaxCost] :
        /\ \A w \in problem.goals : remaining[w] = 0
        /\ \A w \in Worlds : problem.heuristic[w] <= remaining[w]
        /\ \A w \in Worlds : \A i \in DOMAIN problem.candidates[w] :
             Outcome(w, problem.candidates[w][i]) # Refused =>
               remaining[w] <= problem.cost[w][problem.candidates[w][i]]
                                 + remaining[Outcome(w, problem.candidates[w][i])]
  BY DEF Admissible
<1> PICK c : c = e.cost
  OBVIOUS
<1>2. c \in 0 .. MaxCost /\ MaxCost \in Nat
  BY SearchAssumption DEF AStarTypeOK, HeapEntry
<1>3. /\ problem.initial \in Worlds /\ problem.goals \subseteq Worlds
      /\ problem.heuristic \in [Worlds -> 0 .. MaxCost]
      /\ DOMAIN astar.best \subseteq Worlds
      /\ \A w \in DOMAIN astar.best : astar.best[w] \in 0 .. MaxCost
  BY AStarProblemType DEF AStarTypeOK
<1>4. \A w \in Worlds : \A i \in DOMAIN problem.candidates[w] :
        LET x == problem.candidates[w][i] IN
        /\ Outcome(w, x) \in Worlds \cup {Refused}
        /\ problem.cost[w][x] \in 0 .. MaxCost
  <2> SUFFICES ASSUME NEW w \in Worlds, NEW i \in DOMAIN problem.candidates[w]
               PROVE  /\ Outcome(w, problem.candidates[w][i]) \in Worlds \cup {Refused}
                      /\ problem.cost[w][problem.candidates[w][i]] \in 0 .. MaxCost
    OBVIOUS
  <2>1. problem.candidates[w][i] \in Exchanges
    BY AStarProblemType
  <2> QED  BY SMTT(20), <2>1, AStarProblemType DEF Outcome
<1> DEFINE room  == [w \in Worlds |-> IF remaining[w] >= c THEN 0 ELSE c - remaining[w]]
           price == [w \in Worlds |->
                       IF w \in DOMAIN astar.best /\ astar.best[w] < room[w] THEN astar.best[w] ELSE room[w]]
<1>5. /\ \A w \in Worlds : remaining[w] \in 0 .. MaxCost /\ room[w] \in 0 .. c
                           /\ room[w] >= c - remaining[w]
      /\ \A w \in Worlds : room[w] = 0 \/ room[w] = c - remaining[w]
  BY <1>2
<1>6. \A w \in Worlds : price[w] = IF w \in DOMAIN astar.best /\ astar.best[w] < room[w]
                                   THEN astar.best[w] ELSE room[w]
  OBVIOUS
<1>7. price \in [Worlds -> 0 .. c]
  BY <1>2, <1>3, <1>5, <1>6
<1>8. \A w \in problem.goals : room[w] = c
  BY <1>1, <1>2, <1>3
<1> HIDE DEF room, price
<1>9. ASSUME NEW w \in DOMAIN astar.best, Pending(w)
      PROVE  astar.best[w] >= room[w]
  <2>1. PICK other \in astar.frontier : WorldOf(other) = w /\ other.cost = astar.best[w]
    BY <1>9 DEF Pending
  <2>2. e.priority = Plus(c, problem.heuristic[WorldOf(e)])
        /\ other.priority = Plus(astar.best[w], problem.heuristic[w])
    BY <2>1 DEF HeapInv, PointsAt
  <2>3. problem.heuristic[WorldOf(e)] = 0
    BY <1>1, <1>3
  <2>4. e.priority = c
    BY <1>2, <2>2, <2>3 DEF Plus
  <2>5. other = e \/ e.priority <= other.priority
    <3>1. e.priority \in 0 .. MaxCost /\ other.priority \in 0 .. MaxCost
      BY DEF AStarTypeOK, HeapEntry
    <3>2. other = e \/ Before(e, other)
      BY DEF Popping
    <3> QED  BY <1>2, <3>1, <3>2 DEF Before
  <2>6. other.priority <= astar.best[w] + problem.heuristic[w]
    BY <1>3, <2>2, PlusType
  <2>7. c <= other.priority /\ other.priority \in Int
    BY <1>2, <2>4, <2>5 DEF AStarTypeOK, HeapEntry
  <2>8. w \in Worlds /\ problem.heuristic[w] \in Int /\ problem.heuristic[w] <= remaining[w]
        /\ remaining[w] \in Int /\ astar.best[w] \in Nat
    BY <1>1, <1>3, <1>5
  <2>9. c <= astar.best[w] + remaining[w]
    BY <1>2, <2>6, <2>7, <2>8
  <2> QED  BY <1>2, <1>5, <2>8, <2>9
<1>10. price[problem.initial] = 0
  BY <1>2, <1>3, <1>5, <1>6 DEF StartInv
<1>11. \A w \in problem.goals : price[w] = c
  <2> SUFFICES ASSUME NEW w \in problem.goals, w \in DOMAIN astar.best, astar.best[w] < room[w]
               PROVE  FALSE
    BY <1>3, <1>6, <1>8
  <2>1. Pending(w)
    BY DEF OpenInv, Closed
  <2> QED  BY <1>2, <1>3, <1>5, <1>9, <2>1
<1>12. ASSUME NEW w \in Worlds, NEW i \in DOMAIN problem.candidates[w],
              Outcome(w, problem.candidates[w][i]) # Refused
       PROVE  price[Outcome(w, problem.candidates[w][i])]
                <= price[w] + problem.cost[w][problem.candidates[w][i]]
  <2> PICK x, next : x = problem.candidates[w][i] /\ next = Outcome(w, x)
    OBVIOUS
  <2>1. next \in Worlds /\ problem.cost[w][x] \in Nat
    BY <1>2, <1>4, <1>12
  <2>2. price[next] \in Int /\ price[next] <= room[next] /\ price[w] \in Nat
    BY <1>2, <1>3, <1>5, <1>6, <1>7, <2>1
  <2>3. room[next] <= room[w] + problem.cost[w][x]
    <3>1. remaining[w] <= problem.cost[w][x] + remaining[next]
      BY <1>1, <1>12
    <3>2. /\ room[next] \in Int /\ room[w] \in Nat /\ remaining[next] \in Int /\ remaining[w] \in Int
          /\ room[w] >= c - remaining[w]
          /\ room[next] = 0 \/ room[next] = c - remaining[next]
      BY <1>2, <1>5, <2>1
    <3> QED  BY <1>2, <2>1, <3>1, <3>2
  <2>4. CASE price[w] = room[w]
    BY <1>5, <2>1, <2>2, <2>3, <2>4
  <2>5. CASE price[w] # room[w]
    <3>1. w \in DOMAIN astar.best /\ price[w] = astar.best[w] /\ astar.best[w] < room[w]
      BY <1>6, <2>5
    <3>2. Closed(w) /\ astar.at = "loop"
      BY <1>2, <1>3, <1>5, <1>9, <3>1 DEF OpenInv, Popping
    <3>3. Relaxed(w, x)
      BY <3>2 DEF Closed, Due
    <3>4. next \in DOMAIN astar.best
          /\ astar.best[next] <= Plus(astar.best[w], problem.cost[w][x])
      BY <1>12, <3>3 DEF Relaxed
    <3>5. Plus(astar.best[w], problem.cost[w][x]) <= astar.best[w] + problem.cost[w][x]
          /\ Plus(astar.best[w], problem.cost[w][x]) \in Int
      <4>1. astar.best[w] \in 0 .. MaxCost /\ problem.cost[w][x] \in 0 .. MaxCost
        BY <1>3, <1>4, <3>1
      <4> PICK a, b : a = astar.best[w] /\ b = problem.cost[w][x]
        OBVIOUS
      <4>2. Plus(a, b) <= a + b /\ Plus(a, b) \in 0 .. MaxCost
        BY <4>1, PlusType
      <4> QED  BY <1>2, <4>2
    <3>6. price[next] <= astar.best[next] /\ astar.best[next] \in Int
      BY <1>2, <1>3, <1>5, <1>6, <2>1, <3>4
    <3> QED  BY <1>3, <2>1, <2>2, <3>1, <3>4, <3>5, <3>6
  <2> QED  BY <2>4, <2>5
<1> QED  BY <1>7, <1>10, <1>11, <1>12 DEF NoneCheaper

LEMMA ReachSolves ==
  ASSUME AStarTypeOK, AStarSearchInv, NEW e \in astar.frontier, AStarReach(e)
  PROVE  astar'.solution.found /\ AStarSolutionReplays' /\ AStarSolutionIsCheapest'
<1> PICK trace, cost : trace = astar.states[e.index].trace /\ cost = e.cost
  OBVIOUS
<1>1. /\ astar'.solution.found /\ problem' = problem
      /\ astar'.solution.trace = trace /\ astar'.solution.cost = cost
      /\ Popping(e) /\ ~Stale(e) /\ WorldOf(e) \in problem.goals
  BY DEF AStarTypeOK, AStarReach
<1>2. Replays(trace, WorldOf(e))
  BY DEF AStarSearchInv, HeapInv, PointsAt, AStarTracesInv, WorldOf
<1>3. AStarSolutionReplays'
  <2> PICK world : world = WorldOf(e)
    OBVIOUS
  <2>1. Replays(trace, world)'
    BY <1>1, <1>2 DEF Replays, Outcome
  <2> QED  BY SMTT(20), <1>1, <2>1 DEF AStarSolutionReplays, Replays, Outcome
<1>4. AStarSolutionIsCheapest'
  <2> SUFFICES ASSUME Admissible' PROVE NoneCheaper(problem.goals, astar.solution.cost)'
    BY DEF AStarSolutionIsCheapest
  <2>1. Admissible
    BY <1>1 DEF Admissible, Outcome
  <2>2. NoneCheaper(problem.goals, cost)
    BY <1>1, <2>1, NothingCheaper
  <2> QED  BY <1>1, <2>2 DEF NoneCheaper, Outcome
<1> QED  BY <1>1, <1>3, <1>4

-----------------------------------------------------------------------------
LEMMA TypeInit == AStarInit => AStarTypeOK
<1> SUFFICES ASSUME AStarInit PROVE AStarTypeOK
  OBVIOUS
<1>1. /\ problem \in Problems /\ problem.initial \in Worlds
      /\ problem.heuristic[problem.initial] \in 0 .. MaxCost
  BY ProblemAssumption, CostAssumption DEF AStarInit
<1>2. 0 \in 0 .. MaxCost /\ MaxIdle \in Nat
  BY SearchAssumption
<1>3. Entry(problem.initial, 0, 0, 1) \in HeapEntry
  BY <1>1, <1>2, PlusType DEF Entry, HeapEntry
<1>4. [world |-> problem.initial, trace |-> <<>>] \in Reached
  BY <1>1 DEF Reached
<1>5. <<[world |-> problem.initial, trace |-> <<>>]>> \in Seq(Reached)
  BY <1>4
<1>6. [found |-> problem.initial \in problem.goals, trace |-> <<>>, cost |-> 0, expanded |-> 0] \in PlanAnswer
  <2>1. (problem.initial \in problem.goals) \in BOOLEAN
    OBVIOUS
  <2> QED  BY <1>2, <2>1 DEF PlanAnswer
<1>7. /\ [w \in {problem.initial} |-> 0] \in [{problem.initial} -> 0 .. MaxCost]
      /\ {problem.initial} \subseteq Worlds
  BY <1>1, <1>2
<1> QED  BY <1>1, <1>2, <1>3, <1>5, <1>6, <1>7 DEF AStarInit, AStarNew, AStarTypeOK

LEMMA TypeNext ==
  ASSUME AStarTypeOK, ~astar.solution.found => AStarSearchInv, AStarOverInv, [AStarNext]_astarVars
  PROVE  AStarTypeOK'
<1>1. CASE UNCHANGED astarVars
  BY <1>1 DEF astarVars, AStarTypeOK
<1>2. ASSUME NEW units \in Budgets, AStarAdvance(units)
      PROVE  AStarTypeOK'
  <2>1. units \in Nat /\ (units = 0 => astar.idle - 1 \in Nat)
    BY <1>2, SearchAssumption DEF AStarAdvance, AStarTypeOK
  <2> QED  BY <1>2, <2>1 DEF AStarAdvance, AStarTypeOK
<1>3. CASE AStarInterrupt
  <2>1. astar.idle - 1 \in Nat
    BY <1>3 DEF AStarInterrupt, AStarTypeOK
  <2> QED  BY <1>3, <2>1 DEF AStarInterrupt, AStarTypeOK
<1>4. ASSUME NEW e \in astar.frontier, AStarDropStale(e)
      PROVE  AStarTypeOK'
  BY <1>4 DEF AStarDropStale, AStarTypeOK
<1>5. ASSUME NEW e \in astar.frontier, AStarReach(e) \/ AStarExpand(e)
      PROVE  AStarTypeOK'
  <2>1. AStarSearchInv
    BY <1>5 DEF AStarReach, AStarExpand, Popping, AStarOverInv
  <2>2. astar.states[e.index] \in Reached /\ e \in HeapEntry
    BY <2>1 DEF AStarTypeOK, AStarSearchInv, HeapInv, PointsAt
  <2>3. CASE AStarReach(e)
    <3>1. [found |-> TRUE, trace |-> astar.states[e.index].trace, cost |-> e.cost,
           expanded |-> astar.expanded] \in PlanAnswer
      BY <2>2 DEF Reached, HeapEntry, PlanAnswer, AStarTypeOK
    <3> QED  BY <2>3, <3>1 DEF AStarReach, AStarTypeOK
  <2>4. CASE AStarExpand(e)
    <3>1. astar.left - 1 \in Nat /\ astar.expanded + 1 \in Nat
      BY <2>4 DEF AStarExpand, Popping, AStarTypeOK
    <3>2. WorldOf(e) \in Worlds
      BY <2>2 DEF WorldOf, Reached
    <3>3. problem.candidates[WorldOf(e)] \in Seq(Exchanges)
      BY <3>2, AStarProblemType
    <3> QED  BY <2>2, <2>4, <3>1, <3>3 DEF AStarExpand, AStarTypeOK
  <2> QED  BY <1>5, <2>3, <2>4
<1>6. CASE AStarExpandNone
  BY <1>6 DEF AStarExpandNone, AStarTypeOK
<1>7. CASE AStarSkip
  <2>1. Tail(astar.todo) \in Seq(Exchanges)
    BY <1>7, HeadOrTail DEF AStarSkip, AStarScanning, AStarTypeOK
  <2> QED  BY <1>7, <2>1 DEF AStarSkip, AStarTypeOK
<1>8. CASE AStarDiscover
  <2> PICK entry : entry = Entry(AStarNextWorld, AStarNextCost, astar.sequence, Len(astar.states) + 1)
    OBVIOUS
  <2>1. AStarSearchInv
    BY <1>8 DEF AStarDiscover, AStarScanning, AStarOverInv
  <2>2. /\ AStarNextWorld \in Worlds /\ astar'.states \in Seq(Reached)
        /\ entry \in HeapEntry /\ astar'.frontier = astar.frontier \cup {entry}
        /\ DOMAIN astar'.best = DOMAIN astar.best \cup {AStarNextWorld}
        /\ astar.todo \in Seq(Exchanges) /\ astar.todo # <<>> /\ AStarScanning
    BY <1>8, <2>1, DiscoverStep
  <2>3. AStarNextCost \in 0 .. MaxCost
    BY <2>1, <2>2, NextType
  <2>4. Tail(astar.todo) \in Seq(Exchanges)
    BY <2>2, HeadOrTail
  <2>5. /\ astar'.best \in [DOMAIN astar'.best -> 0 .. MaxCost] /\ DOMAIN astar'.best \subseteq Worlds
        /\ astar.generated + 1 \in Nat /\ astar.sequence + 1 \in Nat
    BY <1>8, <2>2, <2>3 DEF AStarDiscover, AStarTypeOK
  <2>6. astar' = [astar EXCEPT !.todo = astar'.todo, !.best = astar'.best,
                    !.generated = astar'.generated, !.states = astar'.states,
                    !.frontier = astar'.frontier, !.sequence = astar'.sequence]
        /\ astar'.todo = Tail(astar.todo) /\ astar'.generated = astar.generated + 1
        /\ astar'.sequence = astar.sequence + 1 /\ problem' = problem
    BY <1>8 DEF AStarDiscover, AStarTypeOK
  <2>7. astar'.frontier \in SUBSET HeapEntry
    BY <2>2 DEF AStarTypeOK
  <2> QED  BY <2>2, <2>4, <2>5, <2>6, <2>7 DEF AStarTypeOK
<1>9. CASE AStarScanEnd
  BY <1>9 DEF AStarScanEnd, AStarTypeOK
<1>10. CASE AStarReturn
  BY <1>10 DEF AStarReturn, AStarTypeOK
<1> QED  BY <1>1, <1>2, <1>3, <1>4, <1>5, <1>6, <1>7, <1>8, <1>9, <1>10 DEF AStarNext

LEMMA OverNext ==
  ASSUME AStarTypeOK, AStarOverInv, [AStarNext]_astarVars
  PROVE  AStarOverInv'
<1>1. CASE astar.solution.found \/ astar.exhausted
  BY <1>1, Frozen DEF AStarOverInv, astarVars
<1>2. CASE ~astar.solution.found /\ ~astar.exhausted
  BY <1>2 DEF AStarTypeOK, AStarOverInv, AStarNext, AStarAdvance, AStarInterrupt, Popping,
     AStarDropStale,
              AStarReach, AStarExpand, AStarExpandNone, AStarScanning, AStarSkip, AStarDiscover,
              AStarScanEnd, AStarReturn, astarVars
<1> QED  BY <1>1, <1>2

LEMMA AStarInvInit == AStarInit => AStarInv
<1> SUFFICES ASSUME AStarInit PROVE AStarInv
  OBVIOUS
<1>1. AStarTypeOK
  BY TypeInit
<1> PICK initial : initial = problem.initial
  OBVIOUS
<1>2. /\ astar.states = <<[world |-> initial, trace |-> <<>>]>>
      /\ astar.frontier = {Entry(initial, 0, 0, 1)} /\ astar.entry = Entry(initial, 0, 0, 1)
      /\ astar.best = [w \in {initial} |-> 0] /\ astar.at = "returned" /\ ~astar.exhausted
      /\ astar.solution.found = (initial \in problem.goals)
      /\ astar.solution.trace = <<>> /\ astar.solution.cost = 0
  BY DEF AStarInit, AStarNew
<1>3. AStarOverInv
  BY <1>2 DEF AStarOverInv
<1>4. Replays(<<>>, initial)
  <2> DEFINE path == [n \in 0 .. 0 |-> initial]
  <2>1. Len(<<>>) = 0 /\ path \in [0 .. 0 -> Worlds] /\ path[0] = initial
    BY <1>1, AStarProblemType
  <2> HIDE DEF path
  <2>2. /\ path \in [0 .. Len(<<>>) -> Worlds] /\ path[0] = problem.initial
        /\ path[Len(<<>>)] = initial
        /\ \A i \in 1 .. Len(<<>>) : path[i] = Outcome(path[i - 1], <<>>[i])
    BY <2>1
  <2> QED  BY <2>2 DEF Replays
<1>5. NoneCheaper(problem.goals, 0)
  <2> DEFINE price == [w \in Worlds |-> 0]
  <2>1. price \in [Worlds -> 0 .. 0] /\ \A w \in Worlds : price[w] = 0
    OBVIOUS
  <2> HIDE DEF price
  <2>2. ASSUME NEW w \in Worlds, NEW i \in DOMAIN problem.candidates[w],
               Outcome(w, problem.candidates[w][i]) # Refused
        PROVE  price[Outcome(w, problem.candidates[w][i])]
                 <= price[w] + problem.cost[w][problem.candidates[w][i]]
    <3>1. problem.candidates[w][i] \in Exchanges
      BY <1>1, AStarProblemType
    <3>2. Outcome(w, problem.candidates[w][i]) \in Worlds
          /\ problem.cost[w][problem.candidates[w][i]] \in Nat
      BY <1>1, <2>2, <3>1, AStarProblemType, SearchAssumption DEF Outcome
    <3> QED  BY <2>1, <3>2
  <2> QED  BY <1>1, <2>1, <2>2, AStarProblemType DEF NoneCheaper
<1>6. ASSUME astar.solution.found PROVE AStarSolutionReplays /\ AStarSolutionIsCheapest
  <2>1. initial \in problem.goals /\ astar.solution.trace = <<>> /\ astar.solution.cost = 0
    BY <1>2, <1>6
  <2>2. Replays(astar.solution.trace, initial) /\ NoneCheaper(problem.goals, astar.solution.cost)
    BY <1>4, <1>5, <2>1
  <2> QED  BY <2>1, <2>2 DEF AStarSolutionReplays, AStarSolutionIsCheapest
<1>7. AStarSearchInv
  <2> PICK e : e = Entry(initial, 0, 0, 1)
    OBVIOUS
  <2>1. e.index = 1 /\ e.cost = 0 /\ e.priority = Plus(0, problem.heuristic[initial])
    BY DEF Entry
  <2>2. WorldOf(e) = initial /\ PointsAt(e)
    BY <1>2, <2>1 DEF WorldOf, PointsAt
  <2>3. HeapInv /\ ScanInv /\ StartInv
    BY <1>2, <2>2 DEF HeapInv, ScanInv, StartInv
  <2>4. OpenInv
    BY <1>2, <2>1, <2>2 DEF OpenInv, Pending
  <2>5. AStarTracesInv
    BY <1>2, <1>4 DEF AStarTracesInv
  <2> QED  BY <2>3, <2>4, <2>5 DEF AStarSearchInv
<1> QED  BY <1>1, <1>3, <1>6, <1>7 DEF AStarInv

LEMMA SameInv ==
  ASSUME AStarInv, UNCHANGED astarVars
  PROVE  AStarInv'
<1>1. problem' = problem /\ astar' = astar
  BY DEF astarVars
<1>2. AStarTypeOK' /\ AStarOverInv'
  BY <1>1 DEF AStarInv, AStarTypeOK, AStarOverInv
<1>3. /\ AStarSolutionReplays => AStarSolutionReplays'
      /\ AStarSolutionIsCheapest => AStarSolutionIsCheapest'
  <2>1. AStarSolutionReplays' = AStarSolutionReplays
    BY <1>1 DEF AStarSolutionReplays, Replays, Outcome
  <2>2. AStarSolutionIsCheapest' = AStarSolutionIsCheapest
    BY <1>1 DEF AStarSolutionIsCheapest, Admissible, NoneCheaper, Outcome
  <2> QED  BY <2>1, <2>2
<1>4. AStarSearchInv => AStarSearchInv'
  <2>1. AStarTracesInv => AStarTracesInv'
    BY <1>1, WorldsKept
  <2>2. OpenInv' = OpenInv
    BY <1>1 DEF OpenInv, Pending, Closed, Relaxed, Due, WorldOf, Outcome
  <2>3. HeapInv' = HeapInv /\ ScanInv' = ScanInv /\ StartInv' = StartInv
    BY <1>1 DEF HeapInv, ScanInv, StartInv, PointsAt, WorldOf
  <2> QED  BY <2>1, <2>2, <2>3 DEF AStarSearchInv
<1> QED  BY <1>1, <1>2, <1>3, <1>4 DEF AStarInv

LEMMA AStarInvNext ==
  ASSUME AStarInv, [AStarNext]_astarVars
  PROVE  AStarInv'
<1>1. AStarTypeOK /\ AStarOverInv
  BY DEF AStarInv
<1>2. AStarTypeOK' /\ AStarOverInv'
  BY <1>1, TypeNext, OverNext DEF AStarInv
<1>3. CASE astar.solution.found
  BY <1>1, <1>3, Frozen, SameInv
<1>4. CASE UNCHANGED astarVars
  BY <1>4, SameInv
<1>5. CASE ~astar.solution.found /\ AStarNext
  <2>1. AStarSearchInv
    BY <1>5 DEF AStarInv
  <2>2. ASSUME NEW e \in astar.frontier, AStarReach(e) PROVE AStarInv'
    BY <1>1, <1>2, <2>1, <2>2, ReachSolves DEF AStarInv
  <2>3. ASSUME AStarSearchInv', astar'.solution = astar.solution PROVE AStarInv'
    BY <1>2, <1>5, <2>3 DEF AStarInv
  <2>4. CASE \/ \E units \in Budgets : AStarAdvance(units)
             \/ AStarInterrupt \/ AStarExpandNone \/ AStarReturn
    BY <1>1, <2>1, <2>3, <2>4, QuietSteps, AStarQuietKeeps DEF AStarQuiet
  <2>5. CASE AStarSkip \/ AStarDiscover \/ AStarScanEnd
    BY <1>1, <2>1, <2>3, <2>5, AStarSkipKeeps, AStarDiscoverKeeps, AStarScanEndKeeps
  <2>6. ASSUME NEW e \in astar.frontier, AStarDropStale(e) \/ AStarExpand(e) PROVE AStarInv'
    BY <1>1, <2>1, <2>3, <2>6, DropStaleKeeps, AStarExpandKeeps
  <2> QED  BY <1>5, <2>2, <2>4, <2>5, <2>6 DEF AStarNext
<1> QED  BY <1>3, <1>4, <1>5

(* A session that gives up has an empty heap, so that all it knows is       *)
(* closed.                                                                  *)
LEMMA ExhaustedIsClosed == AStarInv => AStarExhaustedIsUnreachable
<1> SUFFICES ASSUME AStarInv, astar.exhausted PROVE Unreachable(problem.goals)
  BY DEF AStarExhaustedIsUnreachable
<1>1. AStarSearchInv /\ astar.frontier = {} /\ astar.at = "returned" /\ AStarTypeOK
  BY DEF AStarInv, AStarOverInv
<1>2. \A w \in DOMAIN astar.best : Closed(w)
  BY <1>1 DEF AStarSearchInv, OpenInv, Pending
<1>3. \A w \in DOMAIN astar.best : Successors(w) \subseteq DOMAIN astar.best
  BY <1>1, <1>2 DEF Closed, Due, Relaxed, Successors
<1>4. DOMAIN astar.best \cap problem.goals = {}
  BY <1>2 DEF Closed
<1>5. DOMAIN astar.best \in SUBSET Worlds /\ problem.initial \in DOMAIN astar.best
  BY <1>1 DEF AStarTypeOK, AStarSearchInv, StartInv
<1> QED  BY <1>3, <1>4, <1>5 DEF Unreachable

-----------------------------------------------------------------------------
(* The invariant of every session (AStarSession in lib.rs).                 *)
THEOREM AStarAlwaysInv == AStarSpec => []AStarInv
<1>1. AStarInit => AStarInv
  BY AStarInvInit
<1>2. AStarInv /\ [AStarNext]_astarVars => AStarInv'
  BY AStarInvNext
<1> QED  BY <1>1, <1>2, PTL DEF AStarSpec

(* However the work is split, whatever the heuristic, and although stale    *)
(* entries stay in the heap and costs saturate: a solution is accepted by   *)
(* the kernel and ends at the goal, it is a cheapest one if the heuristic   *)
(* is admissible, and a session is exhausted only when no candidates lead   *)
(* to the goal.                                                             *)
THEOREM AStarAlwaysTellsTheTruth == AStarSpec => []AStarTellsTheTruth
<1>1. AStarInv => AStarTellsTheTruth
  BY ExhaustedIsClosed
     DEF AStarInv, AStarTellsTheTruth, AStarSolutionReplays, AStarSolutionIsCheapest
<1> QED  BY <1>1, AStarAlwaysInv, PTL

-----------------------------------------------------------------------------
(* What is left of a session without the budget of the advance it is in and *)
(* without the difference between the two ends of an advance.               *)
AStarProgress(s) ==
  [states |-> s.states, frontier |-> s.frontier, best |-> s.best, expanded |-> s.expanded,
   generated |-> s.generated, sequence |-> s.sequence, solution |-> s.solution,
   exhausted |-> s.exhausted, scanning |-> s.at = "scan", todo |-> s.todo, entry |-> s.entry]

(* The entry of a heap that is popped first. *)
FirstOf(heap) == CHOOSE e \in heap : \A other \in heap \ {e} : Before(e, other)

(* The one turn of the loops that follows, whoever asks for it. *)
AStarPops(p, c, e) ==
  LET state == c.states[e.index]
  IN  IF c.best[state.world] # e.cost THEN [c EXCEPT !.frontier = @ \ {e}]
      ELSE IF state.world \in p.goals
           THEN [c EXCEPT !.frontier = @ \ {e},
                          !.solution = [found |-> TRUE, trace |-> state.trace,
                                        cost |-> e.cost, expanded |-> c.expanded]]
      ELSE [c EXCEPT !.scanning = TRUE, !.expanded = @ + 1, !.frontier = @ \ {e},
                     !.entry = e, !.todo = p.candidates[state.world]]

AStarScans(p, c) ==
  LET parent == c.states[c.entry.index]
      x      == Head(c.todo)
      next   == p.outcome[parent.world][x]
      cost   == Plus(c.entry.cost, p.cost[parent.world][x])
  IN  IF c.todo = <<>> THEN [c EXCEPT !.scanning = FALSE]
      ELSE IF next = Refused \/ (next \in DOMAIN c.best /\ c.best[next] <= cost)
           THEN [c EXCEPT !.todo = Tail(@)]
      ELSE [c EXCEPT !.todo = Tail(@), !.generated = @ + 1, !.sequence = @ + 1,
                     !.best = [w \in DOMAIN @ \cup {next} |-> IF w = next THEN cost ELSE @[w]],
                     !.states = Append(@, [world |-> next, trace |-> Append(parent.trace, x)]),
                     !.frontier = @ \cup {[priority |-> Plus(cost, p.heuristic[next]), cost |-> cost,
                                           sequence |-> c.sequence, index |-> Len(c.states) + 1]}]

AStarOn(p, c) ==
  IF c.solution.found \/ c.exhausted THEN c
  ELSE IF c.scanning THEN AStarScans(p, c)
  ELSE IF c.frontier = {} THEN [c EXCEPT !.exhausted = TRUE]
  ELSE AStarPops(p, c, FirstOf(c.frontier))

AStarLeads(p, c, d) ==
  \A S : c \in S /\ (\A e \in S : AStarOn(p, e) \in S) => d \in S

LEMMA AStarLeadsOn ==
  ASSUME NEW p, NEW c, NEW d
  PROVE  /\ AStarLeads(p, c, c)
         /\ AStarLeads(p, c, d) => AStarLeads(p, c, AStarOn(p, d))
         /\ AStarLeads(p, c, d) /\ AStarOn(p, d) = d => AStarLeads(p, AStarOn(p, c), d)
         /\ AStarLeads(p, c, d) /\ AStarOn(p, c) = c => d = c
<1>1. AStarLeads(p, c, c) /\ (AStarLeads(p, c, d) => AStarLeads(p, c, AStarOn(p, d)))
  BY DEF AStarLeads
<1>2. ASSUME AStarLeads(p, c, d), AStarOn(p, d) = d PROVE AStarLeads(p, AStarOn(p, c), d)
  <2> SUFFICES ASSUME NEW S, AStarOn(p, c) \in S, \A e \in S : AStarOn(p, e) \in S
               PROVE  d \in S
    BY DEF AStarLeads
  <2>1. c \in S \cup {c} /\ \A e \in S \cup {c} : AStarOn(p, e) \in S \cup {c}
    OBVIOUS
  <2>2. d \in S \cup {c}
    BY <1>2, <2>1 DEF AStarLeads
  <2> QED  BY <1>2, <2>2
<1>3. ASSUME AStarLeads(p, c, d), AStarOn(p, c) = c PROVE d = c
  <2>1. c \in {c} /\ \A e \in {c} : AStarOn(p, e) \in {c}
    BY <1>3
  <2> QED  BY <1>3, <2>1 DEF AStarLeads
<1> QED  BY <1>1, <1>2, <1>3

(* No two entries come first. *)
LEMMA FirstIsPopped ==
  ASSUME AStarTypeOK, NEW e, Popping(e)
  PROVE  e = FirstOf(astar.frontier)
<1> DEFINE first == FirstOf(astar.frontier)
<1>1. e \in astar.frontier /\ \A other \in astar.frontier \ {e} : Before(e, other)
  BY DEF Popping
<1>2. first \in astar.frontier /\ \A other \in astar.frontier \ {first} : Before(first, other)
  BY <1>1 DEF FirstOf
<1>3. \A f \in astar.frontier : f.priority \in Int /\ f.cost \in Int /\ f.sequence \in Int
  BY DEF AStarTypeOK, HeapEntry
<1>4. e # first => Before(e, first) /\ Before(first, e)
  BY <1>1, <1>2
<1> QED  BY <1>1, <1>2, <1>3, <1>4 DEF Before

(* Every step of a session is a turn, or no progress. *)
LEMMA AStarTurns ==
  ASSUME AStarInv, AStarNext
  PROVE  /\ problem' = problem
         /\ \/ AStarProgress(astar') = AStarProgress(astar)
            \/ AStarProgress(astar') = AStarOn(problem, AStarProgress(astar))
<1>1. /\ AStarTypeOK /\ AStarOverInv
      /\ astar = [states |-> astar.states, frontier |-> astar.frontier, best |-> astar.best,
                  expanded |-> astar.expanded, generated |-> astar.generated,
                  sequence |-> astar.sequence, solution |-> astar.solution,
                  exhausted |-> astar.exhausted, at |-> astar.at, left |-> astar.left,
                  todo |-> astar.todo, idle |-> astar.idle, entry |-> astar.entry]
      /\ astar.exhausted \in BOOLEAN
  BY DEF AStarInv, AStarTypeOK
<1> USE DEF AStarProgress, AStarOverInv
<1>2. CASE \E units \in Budgets : AStarAdvance(units)
  BY <1>1, <1>2 DEF AStarAdvance
<1>3. CASE AStarInterrupt
  BY <1>1, <1>3 DEF AStarInterrupt
<1>4. ASSUME NEW e \in astar.frontier, AStarDropStale(e) \/ AStarReach(e) \/ AStarExpand(e)
      PROVE  problem' = problem /\ AStarProgress(astar') = AStarOn(problem, AStarProgress(astar))
  <2>1. /\ e = FirstOf(astar.frontier) /\ astar.at = "loop" /\ astar.frontier # {}
        /\ ~astar.solution.found /\ ~astar.exhausted
    BY <1>1, <1>4, FirstIsPopped DEF AStarDropStale, AStarReach, AStarExpand, Popping
  <2>2. AStarOn(problem, AStarProgress(astar)) = AStarPops(problem, AStarProgress(astar), e)
    BY <2>1 DEF AStarOn
  <2>3. CASE AStarDropStale(e)
    BY <1>1, <2>1, <2>2, <2>3 DEF AStarDropStale, AStarPops, Stale, WorldOf
  <2>4. CASE AStarReach(e)
    BY <1>1, <2>1, <2>2, <2>4 DEF AStarReach, AStarPops, Stale, WorldOf
  <2>5. CASE AStarExpand(e)
    <3> DEFINE state  == astar.states[e.index]
               opened == [states |-> astar.states, frontier |-> astar.frontier \ {e},
                          best |-> astar.best, expanded |-> astar.expanded + 1,
                          generated |-> astar.generated, sequence |-> astar.sequence,
                          solution |-> astar.solution, exhausted |-> astar.exhausted,
                          scanning |-> TRUE, todo |-> problem.candidates[state.world], entry |-> e]
    <3>1. AStarProgress(astar') = opened /\ problem' = problem
      BY <1>1, <2>5 DEF AStarExpand, WorldOf
    <3>2. AStarPops(problem, AStarProgress(astar), e) = opened
      BY <1>1, <2>1, <2>5 DEF AStarExpand, AStarPops, Stale, WorldOf
    <3> QED  BY <2>2, <3>1, <3>2
  <2> QED  BY <1>4, <2>3, <2>4, <2>5
<1>5. CASE AStarExpandNone
  BY <1>1, <1>5 DEF AStarExpandNone, AStarOn
<1>6. CASE AStarSkip
  BY <1>1, <1>6 DEF AStarSkip, AStarOn, AStarScans, AStarScanning, AStarNextWorld, AStarNextCost,
                    AStarParent, Outcome
<1>7. CASE AStarDiscover
  <2> DEFINE parent == astar.states[astar.entry.index]
             x      == Head(astar.todo)
             next   == problem.outcome[parent.world][x]
             cost   == Plus(astar.entry.cost, problem.cost[parent.world][x])
             index  == Len(astar.states) + 1
             state  == [world |-> next, trace |-> Append(parent.trace, x)]
             entry  == [priority |-> Plus(cost, problem.heuristic[next]), cost |-> cost,
                        sequence |-> astar.sequence, index |-> index]
             best   == [w \in DOMAIN astar.best \cup {next} |-> IF w = next THEN cost ELSE astar.best[w]]
  <2>1. /\ astar.at = "scan" /\ astar.todo # <<>> /\ next # Refused
        /\ ~(next \in DOMAIN astar.best /\ astar.best[next] <= cost)
        /\ problem' = problem
        /\ astar' = [astar EXCEPT
             !.todo = Tail(@), !.best = best, !.generated = @ + 1, !.states = Append(@, state),
             !.frontier = @ \cup {entry}, !.sequence = @ + 1]
    BY <1>7 DEF AStarDiscover, AStarScanning, AStarNextWorld, AStarNextCost, AStarParent, Outcome,
       Entry
  <2> DEFINE discovered ==
               [states |-> Append(astar.states, state), frontier |-> astar.frontier \cup {entry},
                best |-> best, expanded |-> astar.expanded, generated |-> astar.generated + 1,
                sequence |-> astar.sequence + 1, solution |-> astar.solution,
                exhausted |-> astar.exhausted, scanning |-> TRUE, todo |-> Tail(astar.todo),
                entry |-> astar.entry]
  <2>2. AStarScans(problem, AStarProgress(astar)) = discovered
    <3> DEFINE c == AStarProgress(astar)
    <3>1. /\ c.states = astar.states /\ c.frontier = astar.frontier /\ c.best = astar.best
          /\ c.generated = astar.generated /\ c.sequence = astar.sequence
          /\ c.todo = astar.todo /\ c.entry = astar.entry
      OBVIOUS
    <3>2. AStarScans(problem, c) =
          [c EXCEPT !.todo = Tail(@), !.generated = @ + 1, !.sequence = @ + 1, !.best = best,
                    !.states = Append(@, state), !.frontier = @ \cup {entry}]
      <4> HIDE DEF c
      <4> QED  BY ZenonT(30), <2>1, <3>1 DEF AStarScans
    <3> HIDE DEF state, entry, best
    <3> QED  BY ZenonT(30), <2>1, <3>2
  <2>3. AStarOn(problem, AStarProgress(astar)) = AStarScans(problem, AStarProgress(astar))
    BY <1>1, <2>1 DEF AStarOn
  <2>4. AStarProgress(astar') = discovered
    <3> HIDE DEF state, entry, best
    <3> QED  BY <1>1, <2>1
  <2> QED  BY <2>1, <2>2, <2>3, <2>4
<1>8. CASE AStarScanEnd
  BY <1>1, <1>8 DEF AStarScanEnd, AStarOn, AStarScans
<1>9. CASE AStarReturn
  BY <1>1, <1>9 DEF AStarReturn, AStarOn
<1> QED  BY <1>2, <1>3, <1>4, <1>5, <1>6, <1>7, <1>8, <1>9 DEF AStarNext
=============================================================================

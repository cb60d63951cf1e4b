------------------------------ MODULE McpProofs ------------------------------
(***************************************************************************)
(* What the MCP server promises, for any number of clients and calls, every *)
(* hash function and every search.  Its search task runs the session of     *)
(* `BfsSession`, whose invariant `GraphSearchProofs` shows to be kept.              *)
(***************************************************************************)
EXTENDS McpServer, GraphSearchProofs

(* Parts of the state that a group of actions leaves alone. *)
StoreVars == <<snapshots, pending, answers>>

-----------------------------------------------------------------------------
(* The store: it only grows. *)

Grows ==
  \A h \in DOMAIN snapshots : h \in DOMAIN snapshots' /\ snapshots'[h] = snapshots[h]

LEMMA StoredGrows ==
  ASSUME NEW w
  PROVE  \A h \in DOMAIN snapshots :
           h \in DOMAIN Stored(w).snapshots /\ Stored(w).snapshots[h] = snapshots[h]
<1>1. CASE Collides(w)
  BY <1>1 DEF Stored
<1>2. CASE ~Collides(w)
  BY <1>2 DEF Stored, Put
<1> QED  BY <1>1, <1>2

LEMMA SettledGrows ==
  ASSUME NEW call
  PROVE  \A h \in DOMAIN snapshots :
           h \in DOMAIN Settled(call).snapshots /\ Settled(call).snapshots[h] = snapshots[h]
  BY StoredGrows DEF Settled

(* What is stored under the hash of an economy that does not collide is     *)
(* that economy, and nothing else is new.                                   *)
LEMMA StoredIsFound ==
  ASSUME NEW w, Stored(w).outcome # "collision"
  PROVE  /\ Stored(w).outcome = "stored"
         /\ Hash(w) \in DOMAIN Stored(w).snapshots /\ Stored(w).snapshots[Hash(w)] = w
<1>1. ~Collides(w)
  BY DEF Stored
<1>2. Put(w)[Hash(w)] = w /\ Hash(w) \in DOMAIN Put(w)
  BY <1>1 DEF Collides, Put
<1> QED  BY <1>1, <1>2 DEF Stored

LEMMA StoredIsAnswered ==
  ASSUME NEW w
  PROVE  \A h \in DOMAIN Stored(w).snapshots :
           h \in DOMAIN snapshots \/ (Stored(w).outcome = "stored" /\ h = Hash(w))
<1>1. CASE Collides(w)
  BY <1>1 DEF Stored
<1>2. CASE ~Collides(w)
  BY <1>2 DEF Stored, Put
<1> QED  BY <1>1, <1>2

LEMMA SearchLeavesStore ==
  ASSUME SearchTask \/ CancelSearch
  PROVE  UNCHANGED StoreVars /\ UNCHANGED <<run, worker>>
  BY DEF SearchTask, CancelSearch, SearchAnswer, SearchCancelled, SearchLimit, SearchChunk,
         SearchAdvance, SearchReport, SearchComplete, OnlySearch, StoreVars

LEMMA RunLeavesStore ==
  ASSUME WorkerStep \/ RunReceive \/ RunResult \/ RunSleep \/ CancelRun
  PROVE  UNCHANGED StoreVars /\ UNCHANGED <<problem, bfs, search>>
  BY DEF WorkerStep, WorkerCheckpoint, WorkerEmit, WorkerReturn, RunReceive, RunResult, RunSleep,
         CancelRun, OnlyRun, StoreVars

LEMMA CallsLeaveStore ==
  ASSUME NEW c \in Clients, CallSearch(c) \/ CallProblemRun(c)
  PROVE  UNCHANGED StoreVars
  BY DEF CallSearch, CallProblemRun, OnlyRun, StoreVars

LEMMA StoreGrows ==
  ASSUME [McpNext]_mcpVars
  PROVE  Grows
<1>1. CASE UNCHANGED mcpVars
  BY <1>1 DEF mcpVars, Grows
<1>2. ASSUME NEW c \in Clients, EconomyPut(c)
      PROVE  Grows
  BY <1>2, StoredGrows DEF EconomyPut, Grows
<1>3. ASSUME NEW c \in Clients, RequireEconomy(c)
      PROVE  Grows
  BY <1>3 DEF RequireEconomy, Grows
<1>4. ASSUME NEW c \in Clients, Settle(c)
      PROVE  Grows
  BY <1>4, SettledGrows DEF Settle, Grows
<1>5. ASSUME NEW c \in Clients, CallSearch(c) \/ CallProblemRun(c)
      PROVE  Grows
  BY <1>5, CallsLeaveStore DEF StoreVars, Grows
<1>6. CASE SearchTask \/ CancelSearch
  BY <1>6, SearchLeavesStore DEF StoreVars, Grows
<1>7. CASE WorkerStep \/ RunReceive \/ RunResult \/ RunSleep \/ CancelRun
  BY <1>7, RunLeavesStore DEF StoreVars, Grows
<1> QED  BY <1>1, <1>2, <1>3, <1>4, <1>5, <1>6, <1>7 DEF McpNext

(* "A handle must always resolve to the same snapshot" (axionomy-mcp        *)
(* README): whatever is called, and however hashes collide.                 *)
THEOREM HandlesAlwaysKeepTheirEconomy == McpSpec => HandlesKeepTheirEconomy
<1>1. [McpNext]_mcpVars => [Grows]_mcpVars
  BY StoreGrows
<1>2. Grows <=> \A h \in DOMAIN snapshots : h \in DOMAIN snapshots' /\ snapshots'[h] = snapshots[h]
  BY DEF Grows
<1> QED  BY <1>1, <1>2, PTL DEF McpSpec, HandlesKeepTheirEconomy

-----------------------------------------------------------------------------
(* The store: it holds what clients were told it holds. *)

LEMMA TrueWhenGrown ==
  ASSUME NEW store, NEW larger, NEW a, TrueOf(store, a),
         \A h \in DOMAIN store : h \in DOMAIN larger /\ larger[h] = store[h]
  PROVE  TrueOf(larger, a)
  BY DEF TrueOf

(* A step that answers one more thing, which is true, and stores only what  *)
(* it answers.                                                              *)
LEMMA AnswerKept ==
  ASSUME StoreMatchesAnswers, Grows, NEW a, answers' = answers \cup {a},
         TrueOf(snapshots', a),
         \A h \in DOMAIN snapshots' :
           h \in DOMAIN snapshots \/ (a.outcome = "stored" /\ a.handle = h)
  PROVE  StoreMatchesAnswers'
<1>1. \A b \in answers : TrueOf(snapshots', b)
  BY TrueWhenGrown DEF StoreMatchesAnswers, AnswersStayTrue, Grows
<1>2. AnswersStayTrue'
  BY <1>1 DEF AnswersStayTrue
<1>3. NothingIsStoredInSecret'
  BY DEF StoreMatchesAnswers, NothingIsStoredInSecret
<1> QED  BY <1>2, <1>3 DEF StoreMatchesAnswers

LEMMA PutKeepsStore ==
  ASSUME StoreMatchesAnswers, Grows, NEW c \in Clients, EconomyPut(c)
  PROVE  StoreMatchesAnswers'
<1>1. PICK w \in Worlds :
        /\ snapshots' = Stored(w).snapshots
        /\ answers' = answers \cup {Answer("put", w, <<>>, Stored(w).outcome, Hash(w))}
  BY DEF EconomyPut
<1> PICK a : a = Answer("put", w, <<>>, Stored(w).outcome, Hash(w))
  OBVIOUS
<1>2. a.call = "put" /\ a.source = w /\ a.outcome = Stored(w).outcome /\ a.handle = Hash(w)
  BY DEF Answer
<1>3. TrueOf(snapshots', a)
  BY <1>1, <1>2, StoredIsFound DEF TrueOf
<1>4. \A h \in DOMAIN snapshots' :
        h \in DOMAIN snapshots \/ (a.outcome = "stored" /\ a.handle = h)
  BY <1>1, <1>2, StoredIsAnswered
<1> QED  BY <1>1, <1>3, <1>4, AnswerKept

LEMMA RequireKeepsStore ==
  ASSUME StoreMatchesAnswers, Grows, NEW c \in Clients, RequireEconomy(c)
  PROVE  StoreMatchesAnswers'
<1>1. snapshots' = snapshots
  BY DEF RequireEconomy
<1>2. CASE answers' = answers
  BY <1>1, <1>2 DEF StoreMatchesAnswers, AnswersStayTrue, NothingIsStoredInSecret
<1>3. CASE answers' # answers
  <2>1. PICK w \in Worlds, trace \in Traces :
          answers' = answers \cup {Answer("replay", Hash(w), trace, "missing", Hash(w))}
    BY <1>3 DEF RequireEconomy
  <2> PICK a : a = Answer("replay", Hash(w), trace, "missing", Hash(w))
    OBVIOUS
  <2>2. TrueOf(snapshots', a)
    BY DEF Answer, TrueOf
  <2> QED  BY <1>1, <2>1, <2>2, AnswerKept
<1> QED  BY <1>2, <1>3

LEMMA SettleKeepsStore ==
  ASSUME StoreMatchesAnswers, PendingInv, Grows, NEW c \in Clients, Settle(c)
  PROVE  StoreMatchesAnswers'
<1> PICK call : call = pending[c]
  OBVIOUS
<1> PICK reached : reached = Replayed(call.world, call.trace)
  OBVIOUS
<1> PICK a : a = Answer("replay", call.source, call.trace, Settled(call).outcome, Hash(reached.world))
  OBVIOUS
<1>1. /\ snapshots' = Settled(call).snapshots
      /\ answers' = answers \cup {a}
      /\ pending[c] # NoCall
  BY DEF Settle
<1>2. /\ call.source \in DOMAIN snapshots'
      /\ snapshots'[call.source] = call.world
  BY <1>1 DEF PendingInv, Grows
<1>3. /\ a.call = "replay" /\ a.source = call.source /\ a.trace = call.trace
      /\ a.outcome = Settled(call).outcome /\ a.handle = Hash(reached.world)
  BY DEF Answer
<1>4. Replayed(snapshots'[a.source], a.trace) = reached
  BY <1>2, <1>3
<1>5. CASE ~reached.ok
  <2>1. Settled(call).snapshots = snapshots /\ Settled(call).outcome = "refused"
    BY <1>5 DEF Settled
  <2>2. TrueOf(snapshots', a)
    BY <1>2, <1>3, <1>4, <1>5, <2>1 DEF TrueOf
  <2> QED  BY <1>1, <2>1, <2>2, AnswerKept
<1>6. CASE reached.ok
  <2>1. Settled(call) = Stored(reached.world)
    BY <1>6 DEF Settled
  <2>2. TrueOf(snapshots', a)
    <3>1. CASE a.outcome = "collision"
      BY <3>1 DEF TrueOf
    <3>2. CASE a.outcome # "collision"
      <4>1. /\ a.outcome = "stored"
            /\ a.handle \in DOMAIN snapshots' /\ snapshots'[a.handle] = reached.world
        BY SMTT(20), <1>1, <1>3, <2>1, <3>2, StoredIsFound
      <4> QED  BY SMTT(20), <1>2, <1>3, <1>4, <1>6, <4>1 DEF TrueOf
    <3> QED  BY <3>1, <3>2
  <2>3. \A h \in DOMAIN snapshots' :
          h \in DOMAIN snapshots \/ (a.outcome = "stored" /\ a.handle = h)
    BY SMTT(20), <1>1, <1>3, <2>1, StoredIsAnswered
  <2> QED  BY <1>1, <2>2, <2>3, AnswerKept
<1> QED  BY <1>5, <1>6

LEMMA PendingKept ==
  ASSUME PendingInv, Grows, NEW c \in Clients, EconomyPut(c) \/ RequireEconomy(c) \/ Settle(c)
  PROVE  PendingInv'
<1>1. CASE EconomyPut(c)
  BY <1>1 DEF EconomyPut, PendingInv, Grows
<1>2. CASE RequireEconomy(c)
  <2>1. snapshots' = snapshots
    BY <1>2 DEF RequireEconomy
  <2>2. CASE pending' = pending
    BY <2>1, <2>2 DEF PendingInv
  <2>3. CASE pending' # pending
    <3>1. PICK call :
            /\ pending' = [pending EXCEPT ![c] = call]
            /\ call.source \in DOMAIN snapshots /\ call.world = snapshots[call.source]
      <4>1. PICK w \in Worlds, trace \in Traces :
              /\ Hash(w) \in DOMAIN snapshots
              /\ pending' = [pending EXCEPT ![c] =
                    [world |-> snapshots[Hash(w)], source |-> Hash(w), trace |-> trace]]
        BY <1>2, <2>3 DEF RequireEconomy
      <4> WITNESS [world |-> snapshots[Hash(w)], source |-> Hash(w), trace |-> trace]
      <4> QED  BY <4>1
    <3> QED  BY <2>1, <3>1 DEF PendingInv
  <2> QED  BY <2>2, <2>3
<1>3. CASE Settle(c)
  BY <1>3 DEF Settle, PendingInv, Grows
<1> QED  BY <1>1, <1>2, <1>3

LEMMA StoreInvNext ==
  ASSUME StoreMatchesAnswers, PendingInv, [McpNext]_mcpVars
  PROVE  StoreMatchesAnswers' /\ PendingInv'
<1>1. Grows
  BY StoreGrows
<1>2. CASE UNCHANGED StoreVars
  BY <1>2 DEF StoreVars, StoreMatchesAnswers, AnswersStayTrue, NothingIsStoredInSecret, PendingInv
<1>3. ASSUME NEW c \in Clients, EconomyPut(c) \/ RequireEconomy(c) \/ Settle(c)
      PROVE  StoreMatchesAnswers' /\ PendingInv'
  BY <1>1, <1>3, PutKeepsStore, RequireKeepsStore, SettleKeepsStore, PendingKept
<1>4. UNCHANGED mcpVars => UNCHANGED StoreVars
  BY DEF mcpVars, StoreVars
<1> QED  BY <1>2, <1>3, <1>4, CallsLeaveStore, SearchLeavesStore, RunLeavesStore DEF McpNext

LEMMA StoreInvInit == McpInit => StoreMatchesAnswers /\ PendingInv
  BY DEF McpInit, StoreMatchesAnswers, AnswersStayTrue, NothingIsStoredInSecret, PendingInv

(* "Failed apply or replay operations create nothing" (axionomy-mcp         *)
(* README), and what a client was told of an economy stays true, whatever   *)
(* others store between the reading of an economy and the settling.         *)
THEOREM StoreAlwaysMatchesAnswers == McpSpec => []StoreMatchesAnswers
<1>1. McpInit => StoreMatchesAnswers /\ PendingInv
  BY StoreInvInit
<1>2. StoreMatchesAnswers /\ PendingInv /\ [McpNext]_mcpVars => StoreMatchesAnswers' /\ PendingInv'
  BY StoreInvNext
<1> QED  BY <1>1, <1>2, PTL DEF McpSpec

-----------------------------------------------------------------------------
(* The problem run and its worker. *)

LEMMA OthersLeaveRun ==
  ASSUME \/ UNCHANGED mcpVars
         \/ SearchTask \/ CancelSearch
         \/ \E c \in Clients :
              EconomyPut(c) \/ RequireEconomy(c) \/ Settle(c) \/ CallSearch(c)
  PROVE  UNCHANGED <<run, worker>>
  BY SearchLeavesStore DEF mcpVars, EconomyPut, RequireEconomy, Settle, CallSearch

LEMMA RunInvNext ==
  ASSUME RunType, WorkerInv, [McpNext]_mcpVars
  PROVE  RunType' /\ WorkerInv'
<1> USE DEF RunType, WorkerInv
<1>1. CASE UNCHANGED <<run, worker>>
  BY <1>1
<1>2. ASSUME NEW c \in Clients, CallProblemRun(c)
      PROVE  RunType' /\ WorkerInv'
  BY <1>2 DEF CallProblemRun
<1>3. CASE WorkerCheckpoint
  BY <1>3 DEF WorkerCheckpoint
<1>4. CASE WorkerEmit
  <2>1. worker.late = 0
    BY <1>4 DEF WorkerEmit
  <2>2. /\ run.queue + 1 \in Nat /\ worker.reports + 1 \in Nat
        /\ run'.status = run.status /\ worker'.cancelled = worker.cancelled
        /\ worker'.at = "computing"
        /\ worker'.late = IF run.status = "cancelled" THEN 1 ELSE 0
    BY <1>4, <2>1 DEF WorkerEmit
  <2>3. RunType'
    <3> PICK queue, reports, late :
          /\ reports = worker.reports + 1
          /\ queue = IF run.status = "working" THEN run.queue + 1 ELSE run.queue
          /\ late = IF run.status = "cancelled" THEN 1 ELSE 0
      OBVIOUS
    <3>1. queue \in Nat /\ reports \in Nat /\ late \in Nat
      OBVIOUS
    <3>2. /\ run' = [run EXCEPT !.queue = queue]
          /\ worker' = [worker EXCEPT !.at = "computing", !.reports = @ + 1, !.late = late]
      BY <1>4, <2>1 DEF WorkerEmit
    <3>3. run' \in [status : {"none", "working", "completed", "failed", "cancelled"},
                    cancelRequested : BOOLEAN, queue : Nat]
      BY <3>1, <3>2
    <3>4. worker' = [worker EXCEPT !.at = "computing", !.reports = reports, !.late = late]
      BY <2>2, <3>2
    <3>5. worker' \in [at : {"none", "computing", "emitting", "ok", "error", "stopped"},
                       cancelled : BOOLEAN, reports : Nat, late : Nat]
      BY <3>1, <3>4
    <3> QED  BY <3>3, <3>5
  <2> QED  BY <1>4, <2>2, <2>3 DEF WorkerEmit
<1>5. CASE WorkerReturn
  BY <1>5 DEF WorkerReturn
<1>6. CASE RunReceive
  BY <1>6 DEF RunReceive
<1>7. CASE RunResult
  BY <1>7 DEF RunResult, WorkerIsBack
<1>8. CASE RunSleep
  BY <1>8 DEF RunSleep
<1>9. CASE CancelRun
  BY <1>9 DEF CancelRun
<1> QED  BY <1>1, <1>2, <1>3, <1>4, <1>5, <1>6, <1>7, <1>8, <1>9, OthersLeaveRun DEF McpNext,
            WorkerStep

LEMMA RunInvInit == McpInit => RunType /\ WorkerInv
  BY DEF McpInit, RunType, WorkerInv

(* The worker of a cancelled run makes at most one more report, and a run   *)
(* that was cancelled is never reported as failed, in whatever order the    *)
(* result, the request and the sleep of the select! come                    *)
(* (axionomy-mcp server.rs:376-400).                                        *)
THEOREM CancelledRunAlwaysStops == McpSpec => []CancelledRunStops
<1>1. McpInit => RunType /\ WorkerInv
  BY RunInvInit
<1>2. RunType /\ WorkerInv /\ [McpNext]_mcpVars => RunType' /\ WorkerInv'
  BY RunInvNext
<1>3. RunType /\ WorkerInv => CancelledRunStops
  BY DEF RunType, WorkerInv, CancelledRunStops, AbandonedWorkerStops, CancellationIsNotFailure
<1> QED  BY <1>1, <1>2, <1>3, PTL DEF McpSpec

-----------------------------------------------------------------------------
(* The search task: what its session does. *)

LEMMA LimitsType ==
  ASSUME BfsTypeOK
  PROVE  problem.maxExpansions \in Nat /\ problem.chunkSize \in Nat
  BY McpAssumption DEF BfsTypeOK

(* Within an advance, each expansion uses up a unit, and a session that     *)
(* returns with none left says whether there is more to do.                 *)
LEMMA NextSpends ==
  ASSUME BfsTypeOK, BfsNext, bfs.at # "returned"
  PROVE  /\ problem' = problem
         /\ bfs'.expanded + bfs'.left = bfs.expanded + bfs.left
         /\ bfs.expanded <= bfs'.expanded
         /\ ReturnInv'
<1> USE DEF BfsTypeOK, Session, ReturnInv, BfsStatus
<1>1. CASE \E units \in Budgets : BfsAdvance(units)
  BY <1>1 DEF BfsAdvance
<1>2. CASE BfsInterrupt
  BY <1>2 DEF BfsInterrupt
<1>3. CASE BfsExpand
  BY <1>3 DEF BfsExpand
<1>4. CASE BfsExpandNone
  BY <1>4 DEF BfsExpandNone
<1>5. CASE BfsSkip
  BY <1>5 DEF BfsSkip, BfsScanning
<1>6. CASE BfsReach
  BY <1>6 DEF BfsReach, BfsScanning
<1>7. CASE BfsDiscover
  BY <1>7 DEF BfsDiscover, BfsScanning
<1>8. CASE BfsScanEnd
  BY <1>8 DEF BfsScanEnd
<1>9. CASE BfsReturn
  <2>1. /\ bfs'.frontier = bfs.frontier /\ bfs'.exhausted = (bfs.frontier = <<>>)
        /\ bfs'.left = bfs.left /\ bfs'.expanded = bfs.expanded /\ problem' = problem
    BY <1>9 DEF BfsReturn
  <2>2. ReturnInv'
    BY <2>1
  <2>3. bfs.expanded \in Nat /\ bfs.left \in Nat
    OBVIOUS
  <2> QED  BY <2>1, <2>2, <2>3
<1> QED  BY <1>1, <1>2, <1>3, <1>4, <1>5, <1>6, <1>7, <1>8, <1>9 DEF BfsNext

LEMMA AdvanceKeeps ==
  ASSUME BfsInv, NEW units \in Nat, BfsAdvance(units)
  PROVE  BfsInv'
<1>1. BfsTypeOK /\ OverInv /\ ~bfs.solution.found /\ ~bfs.exhausted /\ SearchInv
  BY DEF BfsInv, BfsAdvance, BfsStatus
<1>2. BfsQuiet /\ bfs'.exhausted = bfs.exhausted
  BY <1>1 DEF BfsQuiet, BfsAdvance, BfsTypeOK, Session
<1>3. BfsTypeOK'
  <2>1. units = 0 => bfs.idle - 1 \in Nat
    BY <1>1 DEF BfsAdvance, BfsTypeOK, Session
  <2> QED  BY <1>1, <2>1 DEF BfsAdvance, BfsTypeOK, Session
<1>4. SearchInv'
  BY <1>1, <1>2, BfsQuietKeeps
<1>5. ~bfs'.solution.found /\ OverInv'
  BY <1>1, <1>2 DEF BfsQuiet, OverInv
<1> QED  BY <1>3, <1>4, <1>5 DEF BfsInv

LEMMA FreshInv == BfsInit' => BfsInv'
  BY BfsInvInit, PTL

-----------------------------------------------------------------------------
(* The invariant of the task. *)

TaskInv == SearchType /\ BfsInv /\ BudgetInv /\ StopInv /\ ReturnInv /\ OutcomeInv

(* Whatever leaves the task alone may only add to the store.                *)
LEMMA OthersKeepTask ==
  ASSUME TaskInv, Grows, UNCHANGED <<problem, bfs, search>>
  PROVE  TaskInv'
<1>1. BfsInv'
  BY BfsSameInv DEF TaskInv, bfsVars
<1>2. SearchType' /\ BudgetInv' /\ StopInv' /\ ReturnInv'
  BY DEF TaskInv, SearchType, BudgetInv, StopInv, ReturnInv, BfsStatus
<1>3. OutcomeInv'
  BY DEF TaskInv, OutcomeInv, BfsStatus, Grows
<1> QED  BY <1>1, <1>2, <1>3 DEF TaskInv

LEMMA CallKeepsTask ==
  ASSUME TaskInv, NEW c \in Clients, CallSearch(c)
  PROVE  TaskInv'
<1>1. CASE UNCHANGED <<problem, bfs, search>>
  <2>1. Grows
    BY DEF CallSearch, Grows
  <2> QED  BY <1>1, <2>1, OthersKeepTask
<1>2. CASE ~UNCHANGED <<problem, bfs, search>>
  <2>1. PICK w \in Worlds :
          /\ Hash(w) \in DOMAIN snapshots /\ problem'.initial = snapshots[Hash(w)]
          /\ problem' \in Problems /\ bfs' = BfsNew' /\ snapshots' = snapshots
          /\ search.status = "none"
          /\ search' = [search EXCEPT !.status = "working", !.remaining = problem'.maxExpansions,
                                      !.source = Hash(w)]
    BY <1>2 DEF CallSearch
  <2>2. BfsInv'
    BY <2>1, FreshInv DEF BfsInit
  <2>3. problem'.maxExpansions \in Nat
    BY <2>1, McpAssumption
  <2>4. search.at = "loop" /\ ~search.cancelRequested /\ search.outcome = "none"
    BY <2>1 DEF TaskInv, BudgetInv, StopInv, OutcomeInv, SearchType
  <2>5. /\ bfs'.at = "returned" /\ bfs'.expanded = 0 /\ bfs'.left = 0
        /\ bfs'.frontier # <<>> /\ bfs'.exhausted = FALSE
    BY <2>1 DEF BfsNew
  <2>6. SearchType'
    BY <2>1, <2>3 DEF TaskInv, SearchType
  <2>7. /\ search'.at = "loop" /\ ~search'.cancelRequested /\ search'.outcome = "none"
        /\ search'.status = "working" /\ search'.source = Hash(w)
        /\ search'.remaining = problem'.maxExpansions
    BY <2>1, <2>4 DEF TaskInv, SearchType
  <2>8. BudgetInv' /\ StopInv' /\ ReturnInv' /\ OutcomeInv'
    BY <2>1, <2>3, <2>5, <2>7 DEF BudgetInv, StopInv, ReturnInv, OutcomeInv
  <2> QED  BY <2>2, <2>6, <2>8 DEF TaskInv
<1> QED  BY <1>1, <1>2

LEMMA ChunkKeepsTask ==
  ASSUME TaskInv, SearchChunk
  PROVE  TaskInv'
<1> PICK units : units = IF search.remaining < problem.chunkSize THEN search.remaining ELSE problem.chunkSize
  OBVIOUS
<1>1. /\ search.status = "working" /\ search.at = "loop" /\ BfsAdvance(units)
      /\ ~search.cancelRequested /\ BfsStatus = "Running"
      /\ search' = [search EXCEPT !.at = "advance", !.spent = bfs.expanded]
      /\ snapshots' = snapshots
  BY DEF SearchChunk, Deciding, OnlySearch
<1>2. /\ BfsTypeOK /\ bfs.expanded \in Nat /\ search.remaining \in Nat
      /\ problem.maxExpansions \in Nat /\ problem.chunkSize \in Nat
  BY LimitsType DEF TaskInv, BfsInv, BfsTypeOK, Session, SearchType
<1>3. units \in Nat /\ units <= search.remaining /\ units <= problem.chunkSize
  BY <1>2
<1>4. BfsInv'
  BY <1>1, <1>3, AdvanceKeeps DEF TaskInv
<1>5. /\ problem' = problem /\ bfs'.at = "loop" /\ bfs'.left = units
      /\ bfs'.expanded = bfs.expanded /\ bfs'.solution = bfs.solution
      /\ bfs'.exhausted = bfs.exhausted
  BY <1>1, <1>2 DEF BfsAdvance, BfsTypeOK, Session
<1>6. SearchType'
  BY <1>1, <1>2 DEF TaskInv, SearchType
<1>7. /\ search'.status = "working" /\ search'.at = "advance" /\ search'.spent = bfs.expanded
      /\ search'.remaining = search.remaining /\ ~search'.cancelRequested
      /\ search'.source = search.source /\ search'.outcome = search.outcome
  BY <1>1 DEF TaskInv, SearchType
<1>8. bfs.expanded + search.remaining = problem.maxExpansions
  BY <1>1 DEF TaskInv, BudgetInv
<1>9. BudgetInv'
  BY <1>2, <1>3, <1>5, <1>7, <1>8 DEF BudgetInv
<1>10. StopInv' /\ ReturnInv'
  BY <1>5, <1>7 DEF StopInv, ReturnInv
<1>11. search.outcome = "none"
  BY <1>1 DEF TaskInv, OutcomeInv
<1>12. OutcomeInv'
  BY <1>1, <1>5, <1>7, <1>11 DEF TaskInv, OutcomeInv
<1> QED  BY <1>4, <1>6, <1>9, <1>10, <1>12 DEF TaskInv

LEMMA AdvanceKeepsTask ==
  ASSUME TaskInv, SearchAdvance
  PROVE  TaskInv'
<1>1. /\ search.status = "working" /\ search.at = "advance" /\ bfs.at # "returned" /\ BfsNext
      /\ search' = search /\ snapshots' = snapshots
  BY DEF SearchAdvance, OnlySearch
<1>2. BfsTypeOK
  BY DEF TaskInv, BfsInv
<1>3. BfsInv'
  BY <1>1, BfsInvNext DEF TaskInv
<1>4. /\ problem' = problem /\ bfs'.expanded + bfs'.left = bfs.expanded + bfs.left
      /\ bfs.expanded <= bfs'.expanded /\ ReturnInv'
  BY <1>1, <1>2, NextSpends
<1>5. /\ bfs.expanded \in Nat /\ bfs.left \in Nat /\ bfs'.expanded \in Nat /\ bfs'.left \in Nat
      /\ search.spent \in Nat
  BY <1>2, <1>3 DEF TaskInv, BfsInv, BfsTypeOK, Session, SearchType
<1>6. BudgetInv' /\ StopInv'
  BY <1>1, <1>4, <1>5 DEF TaskInv, BudgetInv, StopInv
<1>7. OutcomeInv'
  BY <1>1, <1>4 DEF TaskInv, OutcomeInv
<1>8. SearchType'
  BY <1>1 DEF TaskInv, SearchType
<1> QED  BY <1>3, <1>4, <1>6, <1>7, <1>8 DEF TaskInv

LEMMA ReportKeepsTask ==
  ASSUME TaskInv, SearchReport
  PROVE  TaskInv'
<1>1. /\ search.status = "working" /\ search.at = "advance" /\ bfs.at = "returned"
      /\ UNCHANGED <<problem, bfs, snapshots>>
  BY DEF SearchReport, OnlySearch
<1>2. /\ bfs.expanded \in Nat /\ bfs.left \in Nat /\ search.spent \in Nat
      /\ search.remaining \in Nat /\ search.asked \in Nat
      /\ problem.maxExpansions \in Nat /\ problem.chunkSize \in Nat
  BY LimitsType DEF TaskInv, BfsInv, BfsTypeOK, Session, SearchType
<1>3. /\ search.spent <= bfs.expanded
      /\ search.spent + search.remaining = problem.maxExpansions
      /\ bfs.expanded + bfs.left <= problem.maxExpansions
      /\ bfs.expanded + bfs.left <= search.spent + problem.chunkSize
  BY <1>1 DEF TaskInv, BudgetInv
<1> PICK remaining : remaining = problem.maxExpansions - bfs.expanded
  OBVIOUS
<1> PICK done : done = bfs.expanded - search.spent
  OBVIOUS
<1>4. remaining \in Nat /\ search' = [search EXCEPT !.at = "loop", !.remaining = remaining]
  <2>1. ~(done > search.remaining) /\ search.remaining - done = remaining /\ remaining \in Nat
    BY <1>2, <1>3
  <2>2. search' = [search EXCEPT !.at = "loop",
                      !.remaining = IF done > search.remaining THEN 0 ELSE search.remaining - done]
    BY DEF SearchReport
  <2> QED  BY <2>1, <2>2
<1>5. SearchType'
  BY <1>4 DEF TaskInv, SearchType
<1>6. /\ search'.at = "loop" /\ search'.status = search.status /\ search'.remaining = remaining
      /\ search'.cancelRequested = search.cancelRequested /\ search'.asked = search.asked
      /\ search'.source = search.source /\ search'.outcome = search.outcome
  BY <1>4 DEF TaskInv, SearchType
<1>7. BfsInv' /\ ReturnInv'
  BY <1>1, BfsSameInv DEF TaskInv, bfsVars, ReturnInv, BfsStatus
<1>8. BudgetInv'
  BY <1>1, <1>2, <1>3, <1>6 DEF BudgetInv
<1>9. StopInv'
  BY <1>1, <1>2, <1>3, <1>6 DEF TaskInv, StopInv
<1>10. search.outcome = "none"
  BY <1>1 DEF TaskInv, OutcomeInv
<1>11. OutcomeInv'
  BY <1>1, <1>6, <1>10 DEF TaskInv, OutcomeInv
<1> QED  BY <1>5, <1>7, <1>8, <1>9, <1>11 DEF TaskInv

(* The ways a task ends, and the request to end it. *)
LEMMA EndKeepsTask ==
  ASSUME TaskInv, SearchAnswer \/ SearchLimit \/ SearchCancelled \/ CancelSearch
  PROVE  TaskInv'
<1>1. UNCHANGED <<problem, bfs, snapshots>> /\ search.status = "working"
  BY DEF SearchAnswer, SearchLimit, SearchCancelled, CancelSearch, SearchComplete, Deciding,
     OnlySearch
<1>2. BfsInv' /\ ReturnInv' /\ BfsStatus' = BfsStatus
  BY <1>1, BfsSameInv DEF TaskInv, bfsVars, ReturnInv, BfsStatus
<1>3. search.outcome = "none"
  BY <1>1 DEF TaskInv, OutcomeInv
<1>4. ASSUME NEW outcome \in {"Solved", "Exhausted", "ExpansionLimit"},
             Deciding, SearchComplete(outcome),
             outcome = "Solved" => bfs.solution.found,
             outcome = "Exhausted" => bfs.exhausted,
             outcome = "ExpansionLimit" => search.remaining = 0 /\ BfsStatus = "Running"
      PROVE  TaskInv'
  <2>1. search' = [search EXCEPT !.status = "completed", !.outcome = outcome]
    BY <1>4 DEF SearchComplete
  <2>2. SearchType'
    BY <2>1 DEF TaskInv, SearchType
  <2>3. /\ search'.status = "completed" /\ search'.outcome = outcome /\ search'.at = search.at
        /\ search'.remaining = search.remaining /\ search'.cancelRequested = search.cancelRequested
        /\ search'.asked = search.asked /\ search'.source = search.source
        /\ search'.spent = search.spent /\ search.at = "loop"
    BY <1>4, <2>1 DEF TaskInv, SearchType, Deciding
  <2>4. BudgetInv' /\ StopInv'
    BY <1>1, <2>3 DEF TaskInv, BudgetInv, StopInv
  <2>5. OutcomeInv'
    BY <1>1, <1>2, <1>4, <2>3 DEF TaskInv, OutcomeInv
  <2> QED  BY <1>2, <2>2, <2>4, <2>5 DEF TaskInv
<1>5. CASE SearchAnswer
  BY <1>4, <1>5 DEF SearchAnswer, BfsStatus
<1>6. CASE SearchLimit
  BY <1>4, <1>6 DEF SearchLimit
<1>7. CASE SearchCancelled
  <2>1. search' = [search EXCEPT !.status = "cancelled"] /\ search.at = "loop"
    BY <1>7 DEF SearchCancelled, Deciding
  <2>2. SearchType'
    BY <2>1 DEF TaskInv, SearchType
  <2>3. /\ search'.status = "cancelled" /\ search'.outcome = search.outcome /\ search'.at = search.at
        /\ search'.remaining = search.remaining /\ search'.cancelRequested = search.cancelRequested
        /\ search'.asked = search.asked /\ search'.source = search.source
    BY <2>1 DEF TaskInv, SearchType
  <2>4. BudgetInv' /\ StopInv'
    BY <1>1, <2>1, <2>3 DEF TaskInv, BudgetInv, StopInv
  <2>5. OutcomeInv'
    BY <1>1, <1>3, <2>3 DEF TaskInv, OutcomeInv
  <2> QED  BY <1>2, <2>2, <2>4, <2>5 DEF TaskInv
<1>8. CASE CancelSearch
  <2>1. search' = [search EXCEPT !.cancelRequested = TRUE, !.asked = bfs.expanded]
    BY <1>8 DEF CancelSearch
  <2>2. bfs.expanded \in Nat /\ problem.chunkSize \in Nat
    BY LimitsType DEF TaskInv, BfsInv, BfsTypeOK, Session
  <2>3. SearchType'
    BY <2>1, <2>2 DEF TaskInv, SearchType
  <2>4. /\ search'.status = search.status /\ search'.outcome = search.outcome /\ search'.at = search.at
        /\ search'.remaining = search.remaining /\ search'.spent = search.spent
        /\ search'.asked = bfs.expanded /\ search'.source = search.source
    BY <2>1 DEF TaskInv, SearchType
  <2>5. BudgetInv'
    BY <1>1, <2>4 DEF TaskInv, BudgetInv
  <2>6. StopInv'
    BY <1>1, <2>2, <2>4 DEF TaskInv, BudgetInv, StopInv
  <2>7. OutcomeInv'
    BY <1>1, <1>3, <2>4 DEF TaskInv, OutcomeInv
  <2> QED  BY <1>2, <2>3, <2>5, <2>6, <2>7 DEF TaskInv
<1> QED  BY <1>5, <1>6, <1>7, <1>8

LEMMA TaskInvInit == McpInit => TaskInv
<1> SUFFICES ASSUME McpInit PROVE TaskInv
  OBVIOUS
<1>1. BfsInit
  BY McpAssumption DEF McpInit, BfsInit
<1>2. BfsInv
  BY <1>1, BfsInvInit
<1>3. /\ search = [status |-> "none", at |-> "loop", source |-> Refused, outcome |-> "none",
                   remaining |-> 0, spent |-> 0, cancelRequested |-> FALSE, asked |-> 0]
      /\ bfs.left = 0 /\ bfs.frontier # <<>>
  BY DEF McpInit, BfsNew
<1>4. SearchType /\ BudgetInv /\ StopInv /\ ReturnInv /\ OutcomeInv
  BY <1>3 DEF SearchType, BudgetInv, StopInv, ReturnInv, OutcomeInv
<1> QED  BY <1>2, <1>4 DEF TaskInv

LEMMA TaskInvNext ==
  ASSUME TaskInv, [McpNext]_mcpVars
  PROVE  TaskInv'
<1>1. CASE UNCHANGED <<problem, bfs, search>>
  BY <1>1, StoreGrows, OthersKeepTask
<1>2. ASSUME NEW c \in Clients, EconomyPut(c) \/ RequireEconomy(c) \/ Settle(c) \/ CallProblemRun(c)
      PROVE  UNCHANGED <<problem, bfs, search>>
  BY <1>2 DEF EconomyPut, RequireEconomy, Settle, CallProblemRun, OnlyRun
<1>3. ASSUME NEW c \in Clients, CallSearch(c)
      PROVE  TaskInv'
  BY <1>3, CallKeepsTask
<1>4. CASE SearchTask
  BY <1>4, ChunkKeepsTask, AdvanceKeepsTask, ReportKeepsTask, EndKeepsTask DEF SearchTask
<1>5. CASE CancelSearch
  BY <1>5, EndKeepsTask
<1>6. UNCHANGED mcpVars => UNCHANGED <<problem, bfs, search>>
  BY DEF mcpVars
<1> QED  BY <1>1, <1>2, <1>3, <1>4, <1>5, <1>6, RunLeavesStore DEF McpNext

(* What the invariant says of the answers.                                  *)
LEMMA TaskTellsTheTruth ==
  ASSUME TaskInv
  PROVE  SearchKeepsItsWord
<1>1. /\ bfs.expanded \in Nat /\ bfs.left \in Nat /\ search.spent \in Nat
      /\ search.remaining \in Nat /\ search.asked \in Nat
      /\ problem.maxExpansions \in Nat /\ problem.chunkSize \in Nat
      /\ search.at \in {"loop", "advance"}
  BY LimitsType DEF TaskInv, BfsInv, BfsTypeOK, Session, SearchType
<1>2. search.status # "none" => bfs.expanded <= problem.maxExpansions
  BY <1>1 DEF TaskInv, BudgetInv
<1>3. ASSUME search.outcome = "ExpansionLimit"
      PROVE  bfs.expanded = problem.maxExpansions /\ bfs.frontier # <<>> /\ ~bfs.solution.found
  <2>1. /\ search.status = "completed" /\ search.remaining = 0 /\ BfsStatus = "Running"
    BY <1>3 DEF TaskInv, OutcomeInv
  <2>2. search.at = "loop"
    BY <2>1 DEF TaskInv, BudgetInv
  <2>3. /\ bfs.at = "returned" /\ bfs.expanded + search.remaining = problem.maxExpansions
        /\ bfs.left <= search.remaining
    BY <2>1, <2>2 DEF TaskInv, BudgetInv
  <2>4. bfs.left = 0 /\ bfs.expanded = problem.maxExpansions
    BY <1>1, <2>1, <2>3
  <2>5. bfs.frontier # <<>>
    BY <2>1, <2>3, <2>4 DEF TaskInv, ReturnInv
  <2> QED  BY <2>1, <2>4, <2>5 DEF BfsStatus
<1>4. LimitIsExact
  BY <1>2, <1>3 DEF LimitIsExact
<1>5. SearchTellsTheTruth
  BY BfsExhaustedIsClosed DEF TaskInv, OutcomeInv, BfsInv, BfsExhaustedIsUnreachable,
     SearchTellsTheTruth
<1>6. CancelledSearchStops
  <2>1. CASE ~search.cancelRequested
    BY <2>1 DEF CancelledSearchStops
  <2>2. CASE search.cancelRequested /\ search.at = "loop"
    BY <2>2 DEF TaskInv, StopInv, CancelledSearchStops
  <2>3. CASE search.cancelRequested /\ search.at = "advance"
    <3>1. search.spent <= search.asked /\ bfs.expanded + bfs.left <= search.spent + problem.chunkSize
      BY <2>3 DEF TaskInv, StopInv, BudgetInv
    <3>2. bfs.expanded <= search.asked + problem.chunkSize
      BY <1>1, <3>1
    <3> QED  BY <3>2 DEF CancelledSearchStops
  <2> QED  BY <1>1, <2>1, <2>2, <2>3
<1> QED  BY <1>4, <1>5, <1>6 DEF SearchKeepsItsWord

(* A search task expands no more than it was allowed, says that the limit   *)
(* stopped it only when it used all of it and had more to do, ends within   *)
(* one chunk of being asked to, and what it answers is true of the economy  *)
(* its caller named (axionomy-mcp server.rs:421-464), whatever else is      *)
(* stored or cancelled in the meantime.                                     *)
THEOREM SearchAlwaysKeepsItsWord == McpSpec => []SearchKeepsItsWord
<1>1. McpInit => TaskInv
  BY TaskInvInit
<1>2. TaskInv /\ [McpNext]_mcpVars => TaskInv'
  BY TaskInvNext
<1>3. TaskInv => SearchKeepsItsWord
  BY TaskTellsTheTruth
<1> QED  BY <1>1, <1>2, <1>3, PTL DEF McpSpec
=============================================================================

------------------------------- MODULE McpServer -------------------------------
(***************************************************************************)
(* The MCP server: a content-addressed store of economies that tool calls   *)
(* read from and add to, and two kinds of tasks.  A search task advances a  *)
(* breadth-first session chunk by chunk; a problem run waits for a worker   *)
(* thread.  Tasks share nothing but the store, so one of each is enough.    *)
(***************************************************************************)
EXTENDS BfsSession

CONSTANTS
  Clients,
  Kernel,      \* the world each exchange leads to from each world, or Refused
  Traces,      \* what clients apply or replay
  Hash(_),     \* the handle of a world's encoding; two worlds may share one
  ChunkLimit,
  MaxCalls,    \* bound: tool calls
  MaxReports,  \* bound: progress reports of a worker
  NoWorld

ASSUME McpAssumption ==
  /\ Problems # {}
  /\ NoWorld \notin Worlds
  /\ Traces \subseteq Seq(Exchanges)
  /\ \A p \in Problems :
       /\ p.outcome = Kernel
       /\ {p.maxExpansions, p.chunkSize} \subseteq Nat

VARIABLES
  snapshots,  \* economies by handle
  pending,    \* of each client: the call that has read its economy
  answers,    \* what clients were told of the economies
  calls,
  search,     \* the search task; `spent` and `asked` are the expansions when
              \* its chunk began and when it was asked to stop
  run,        \* the problem run, with the messages of its progress channel
  worker      \* its thread, with the flag of its RunControl

mcpVars == <<problem, bfs, snapshots, pending, answers, calls, search, run, worker>>

NoCall == [world |-> NoWorld, source |-> Refused, trace |-> <<>>]

McpInit ==
  /\ problem = CHOOSE p \in Problems : TRUE
  /\ bfs = BfsNew
  /\ snapshots = [h \in {} |-> NoWorld]
  /\ pending = [c \in Clients |-> NoCall]
  /\ answers = {}
  /\ calls = 0
  /\ search = [status |-> "none", at |-> "loop", source |-> Refused, outcome |-> "none",
               remaining |-> 0, spent |-> 0, cancelRequested |-> FALSE, asked |-> 0]
  /\ run = [status |-> "none", cancelRequested |-> FALSE, queue |-> 0]
  /\ worker = [at |-> "none", cancelled |-> FALSE, reports |-> 0, late |-> 0]

-----------------------------------------------------------------------------
(* MemorySnapshotStore::put, under one lock.  The bytes behind a handle are *)
(* compared, not replaced.                                                  *)
Collides(w) == Hash(w) \in DOMAIN snapshots /\ snapshots[Hash(w)] # w

Put(w) ==
  [h \in DOMAIN snapshots \cup {Hash(w)} |-> IF h \in DOMAIN snapshots THEN snapshots[h] ELSE w]

(* Mutant: the last economy with a hash is the one kept. *)
StoredReplacing(w) ==
  [snapshots |-> [h \in DOMAIN snapshots \cup {Hash(w)} |-> IF h = Hash(w) THEN w ELSE snapshots[h]],
   outcome   |-> "stored"]

(* Mutant: the bytes are taken to be the same when the hash is. *)
StoredUncompared(w) == [snapshots |-> Put(w), outcome |-> "stored"]

Stored(w) ==
  IF Collides(w) THEN [snapshots |-> snapshots, outcome |-> "collision"]
  ELSE [snapshots |-> Put(w), outcome |-> "stored"]

(* `source` is the economy of a put, the handle of other calls.             *)
Answer(call, source, trace, outcome, handle) ==
  [call |-> call, source |-> source, trace |-> trace, outcome |-> outcome, handle |-> handle]

MayCall(c) == calls < MaxCalls /\ pending[c] = NoCall

EconomyPut(c) ==
  /\ MayCall(c)
  /\ calls' = calls + 1
  /\ \E w \in Worlds :
       /\ snapshots' = Stored(w).snapshots
       /\ answers' = answers \cup {Answer("put", w, <<>>, Stored(w).outcome, Hash(w))}
  /\ UNCHANGED <<problem, bfs, pending, search, run, worker>>

(* exchange_apply and trace_replay: the economy of the handle, or an error. *)
RequireEconomy(c) ==
  /\ MayCall(c)
  /\ calls' = calls + 1
  /\ \E w \in Worlds, trace \in Traces :
       IF Hash(w) \in DOMAIN snapshots
       THEN /\ pending' = [pending EXCEPT ![c] =
                 [world |-> snapshots[Hash(w)], source |-> Hash(w), trace |-> trace]]
            /\ UNCHANGED answers
       ELSE /\ answers' = answers \cup {Answer("replay", Hash(w), trace, "missing", Hash(w))}
            /\ UNCHANGED pending
  /\ UNCHANGED <<problem, bfs, snapshots, search, run, worker>>

(* Economy::replay on a fork: it stops at the first exchange refused.       *)
Replayed(w, trace) ==
  LET reached[n \in 0 .. Len(trace)] ==
        IF n = 0 THEN [world |-> w, ok |-> TRUE]
        ELSE LET next == Kernel[reached[n - 1].world][trace[n]]
             IN  IF ~reached[n - 1].ok THEN reached[n - 1]
                 ELSE IF next = Refused THEN [reached[n - 1] EXCEPT !.ok = FALSE]
                 ELSE [reached[n - 1] EXCEPT !.world = next]
  IN  reached[Len(trace)]

(* Mutant: what a failed replay reached is stored. *)
SettledAnyway(call) ==
  LET reached == Replayed(call.world, call.trace)
  IN  IF reached.ok THEN Stored(reached.world)
      ELSE [snapshots |-> Stored(reached.world).snapshots, outcome |-> "refused"]

Settled(call) ==
  LET reached == Replayed(call.world, call.trace)
  IN  IF reached.ok THEN Stored(reached.world)
      ELSE [snapshots |-> snapshots, outcome |-> "refused"]

Settle(c) ==
  /\ pending[c] # NoCall
  /\ LET call == pending[c]
         reached == Replayed(call.world, call.trace)
     IN  answers' = answers \cup
           {Answer("replay", call.source, call.trace, Settled(call).outcome, Hash(reached.world))}
  /\ snapshots' = Settled(pending[c]).snapshots
  /\ pending' = [pending EXCEPT ![c] = NoCall]
  /\ UNCHANGED <<problem, bfs, calls, search, run, worker>>

-----------------------------------------------------------------------------
ValidSearch(p) == p.maxExpansions > 0 /\ p.chunkSize \in 1 .. ChunkLimit

(* The caller names an economy by its handle; the search is of the one that *)
(* is found there.  A search that is not valid, or of an economy that is    *)
(* not stored, starts no task and changes nothing.                          *)
CallSearch(c) ==
  /\ MayCall(c)
  /\ search.status = "none"
  /\ calls' = calls + 1
  /\ \E p \in Problems, w \in Worlds :
       IF ValidSearch(p) /\ Hash(w) \in DOMAIN snapshots
       THEN /\ p.initial = snapshots[Hash(w)]
            /\ problem' = p
            /\ bfs' = BfsNew'
            /\ search' = [search EXCEPT !.status = "working", !.remaining = p.maxExpansions,
                                        !.source = Hash(w)]
       ELSE UNCHANGED <<problem, bfs, search>>
  /\ UNCHANGED <<snapshots, pending, answers, run, worker>>

Deciding == search.status = "working" /\ search.at = "loop"

OnlySearch == UNCHANGED <<snapshots, pending, answers, calls, run, worker>>

SearchComplete(outcome) ==
  /\ search' = [search EXCEPT !.status = "completed", !.outcome = outcome]
  /\ UNCHANGED <<problem, bfs>> /\ OnlySearch

(* Whatever was asked for or used up, an answer comes first. *)
SearchAnswer == Deciding /\ BfsStatus # "Running" /\ SearchComplete(BfsStatus)

SearchCancelled ==
  /\ Deciding
  /\ BfsStatus = "Running"
  /\ search.cancelRequested
  /\ search' = [search EXCEPT !.status = "cancelled"]
  /\ UNCHANGED <<problem, bfs>> /\ OnlySearch

(* Mutant: the limit is looked at before the status. *)
SearchLimitFirst ==
  Deciding /\ ~search.cancelRequested /\ search.remaining = 0 /\ SearchComplete("ExpansionLimit")

(* Mutant: a search that used its expansions up is taken for exhausted. *)
SearchLimitExhausts ==
  /\ Deciding /\ BfsStatus = "Running" /\ ~search.cancelRequested
  /\ search.remaining = 0 /\ SearchComplete("Exhausted")

SearchLimit ==
  /\ Deciding /\ BfsStatus = "Running" /\ ~search.cancelRequested
  /\ search.remaining = 0 /\ SearchComplete("ExpansionLimit")

(* Mutant: the last chunk is a whole one. *)
SearchChunkWhole ==
  /\ Deciding /\ BfsStatus = "Running" /\ ~search.cancelRequested
  /\ search.remaining > 0
  /\ BfsAdvance(problem.chunkSize)
  /\ search' = [search EXCEPT !.at = "advance", !.spent = bfs.expanded]
  /\ OnlySearch

(* Mutant: only the limit ends a chunk. *)
SearchChunkAll ==
  /\ Deciding /\ BfsStatus = "Running" /\ ~search.cancelRequested
  /\ search.remaining > 0
  /\ BfsAdvance(search.remaining)
  /\ search' = [search EXCEPT !.at = "advance", !.spent = bfs.expanded]
  /\ OnlySearch

SearchChunk ==
  /\ Deciding /\ BfsStatus = "Running" /\ ~search.cancelRequested
  /\ search.remaining > 0
  /\ BfsAdvance(IF search.remaining < problem.chunkSize THEN search.remaining ELSE problem.chunkSize)
  /\ search' = [search EXCEPT !.at = "advance", !.spent = bfs.expanded]
  /\ OnlySearch

(* The advance itself; the task's observer always lets it go on. *)
SearchAdvance ==
  /\ search.status = "working" /\ search.at = "advance" /\ bfs.at # "returned"
  /\ BfsNext
  /\ UNCHANGED search /\ OnlySearch

SearchReport ==
  /\ search.status = "working" /\ search.at = "advance" /\ bfs.at = "returned"
  /\ LET done == bfs.expanded - search.spent
     IN  search' = [search EXCEPT !.at = "loop",
                      !.remaining = IF done > @ THEN 0 ELSE @ - done]
  /\ UNCHANGED <<problem, bfs>> /\ OnlySearch

-----------------------------------------------------------------------------
OnlyRun == UNCHANGED <<problem, bfs, snapshots, pending, answers, search>>

CallProblemRun(c) ==
  /\ MayCall(c)
  /\ run.status = "none"
  /\ calls' = calls + 1
  /\ run' = [run EXCEPT !.status = "working"]
  /\ worker' = [worker EXCEPT !.at = "computing"]
  /\ OnlyRun

(* The worker looks at its control before every report ...                  *)
WorkerCheckpoint ==
  /\ worker.at = "computing"
  /\ worker.reports < MaxReports \/ worker.cancelled
  /\ worker' = [worker EXCEPT !.at = IF worker.cancelled THEN "stopped" ELSE "emitting"]
  /\ UNCHANGED <<calls, run>> /\ OnlyRun

(* ... which goes nowhere when the task is over.                            *)
WorkerEmit ==
  /\ worker.at = "emitting"
  /\ worker' = [worker EXCEPT !.at = "computing", !.reports = @ + 1,
                  !.late = IF run.status = "cancelled" THEN @ + 1 ELSE @]
  /\ run' = [run EXCEPT !.queue = IF run.status = "working" THEN @ + 1 ELSE @]
  /\ UNCHANGED calls /\ OnlyRun

WorkerReturn ==
  /\ worker.at = "computing"
  /\ \E result \in {"ok", "error"} : worker' = [worker EXCEPT !.at = result]
  /\ UNCHANGED <<calls, run>> /\ OnlyRun

WorkerIsBack == worker.at \in {"ok", "error", "stopped"}

RunReceive ==
  /\ run.status = "working"
  /\ run.queue > 0
  /\ run' = [run EXCEPT !.queue = @ - 1]
  /\ UNCHANGED <<calls, worker>> /\ OnlyRun

(* Mutant: a worker without an artifact is waited for. *)
RunResultIfAny ==
  /\ run.status = "working"
  /\ worker.at = "ok"
  /\ run' = [run EXCEPT !.status = "completed", !.queue = 0]
  /\ UNCHANGED <<calls, worker>> /\ OnlyRun

(* The select! takes any branch that is ready: reports may be left unread,  *)
(* and a run that was asked to stop may still complete.                     *)
RunResult ==
  /\ run.status = "working"
  /\ WorkerIsBack
  /\ run' = [run EXCEPT !.status = IF worker.at = "ok" THEN "completed" ELSE "failed", !.queue = 0]
  /\ UNCHANGED <<calls, worker>> /\ OnlyRun

(* Mutant: the worker is not told. *)
RunSleepSilently ==
  /\ run.status = "working"
  /\ run.cancelRequested
  /\ run' = [run EXCEPT !.status = "cancelled", !.queue = 0]
  /\ UNCHANGED <<calls, worker>> /\ OnlyRun

(* Mutant: the task waits for the worker it has told to stop. *)
RunSleepAndWait ==
  /\ run.status = "working"
  /\ run.cancelRequested
  /\ worker' = [worker EXCEPT !.cancelled = TRUE]
  /\ UNCHANGED <<calls, run>> /\ OnlyRun

(* The sleep of the select! starts anew after every report, so that this    *)
(* branch need not be reached while the worker reports faster; a task that  *)
(* is polled late may reach it even so.                                     *)
RunSleep ==
  /\ run.status = "working"
  /\ run.cancelRequested
  /\ run' = [run EXCEPT !.status = "cancelled", !.queue = 0]
  /\ worker' = [worker EXCEPT !.cancelled = TRUE]
  /\ UNCHANGED calls /\ OnlyRun

-----------------------------------------------------------------------------
(* TaskManager::cancel_task: it only records the intent. *)
CancelSearch ==
  /\ search.status = "working"
  /\ ~search.cancelRequested
  /\ search' = [search EXCEPT !.cancelRequested = TRUE, !.asked = bfs.expanded]
  /\ UNCHANGED <<problem, bfs>> /\ OnlySearch

CancelRun ==
  /\ run.status = "working"
  /\ ~run.cancelRequested
  /\ run' = [run EXCEPT !.cancelRequested = TRUE]
  /\ UNCHANGED <<calls, worker>> /\ OnlyRun

SearchTask == SearchAnswer \/ SearchCancelled \/ SearchLimit \/ SearchChunk \/ SearchAdvance \/ SearchReport

WorkerStep == WorkerCheckpoint \/ WorkerEmit \/ WorkerReturn

McpNext ==
  \/ \E c \in Clients : EconomyPut(c) \/ RequireEconomy(c) \/ Settle(c) \/ CallSearch(c) \/ CallProblemRun(c)
  \/ SearchTask
  \/ WorkerStep
  \/ RunReceive \/ RunResult \/ RunSleep
  \/ CancelSearch \/ CancelRun

(* The runtime polls tasks that are ready and runs blocking threads; which  *)
(* ready branch a select! takes is a coin, so a result that stays ready is  *)
(* taken.  Nothing makes a client cancel, or the sleep end in time.         *)
McpSpec ==
  /\ McpInit /\ [][McpNext]_mcpVars
  /\ WF_mcpVars(SearchTask) /\ WF_mcpVars(WorkerStep) /\ WF_mcpVars(RunResult)

-----------------------------------------------------------------------------
(* "A handle must always resolve to the same snapshot": no call and no task *)
(* takes an economy away or puts another in its place.                      *)
HandlesKeepTheirEconomy ==
  [][\A h \in DOMAIN snapshots : h \in DOMAIN snapshots' /\ snapshots'[h] = snapshots[h]]_mcpVars

(* What a client was told of an economy stays so: a handle is the economy   *)
(* that was put, the successor is what the trace leads to from the source,  *)
(* and refusals are those of the kernel.                                    *)
TrueOf(store, a) ==
  \/ a.outcome \in {"missing", "collision"}
  \/ a.call = "put" /\ a.handle \in DOMAIN store /\ store[a.handle] = a.source
  \/ /\ a.call = "replay" /\ a.source \in DOMAIN store
     /\ LET reached == Replayed(store[a.source], a.trace)
        IN  IF a.outcome = "refused" THEN ~reached.ok
            ELSE reached.ok /\ a.handle \in DOMAIN store /\ store[a.handle] = reached.world

AnswersStayTrue == \A a \in answers : TrueOf(snapshots, a)

(* "Failed apply or replay operations create nothing": there is no economy  *)
(* in the store that no client was given the handle of.                     *)
NothingIsStoredInSecret ==
  \A h \in DOMAIN snapshots : \E a \in answers : a.outcome = "stored" /\ a.handle = h

(* A search never expands more than it was allowed, and says that it was    *)
(* stopped by the limit only when it used all of it and had more to do.     *)
LimitIsExact ==
  /\ search.status # "none" => bfs.expanded <= problem.maxExpansions
  /\ search.outcome = "ExpansionLimit" =>
       bfs.expanded = problem.maxExpansions /\ bfs.frontier # <<>> /\ ~bfs.solution.found

(* What a search answers is true of the economy its caller named, whatever  *)
(* was stored and whoever was asked to stop in the meantime.                *)
SearchTellsTheTruth ==
  /\ search.status # "none" => problem.initial = snapshots[search.source]
  /\ search.outcome = "Solved" => BfsSolutionReplays /\ BfsSolutionIsShortest
  /\ search.outcome = "Exhausted" => Unreachable(problem.goals)

(* After it was asked to stop, a search ends within one chunk. *)
CancelledSearchStops ==
  search.cancelRequested => bfs.expanded <= search.asked + problem.chunkSize

(* The worker of a run that was cancelled stops at its next checkpoint: at  *)
(* most the report it was about to make is still made.                      *)
AbandonedWorkerStops == worker.late <= 1

(* A run fails because its problem failed, never because it was cancelled.  *)
CancellationIsNotFailure == run.status = "failed" => worker.at = "error"

(* The store holds what clients were told it holds, no more and no less.    *)
StoreMatchesAnswers == AnswersStayTrue /\ NothingIsStoredInSecret

(* A search spends what it was allowed, stops soon after it was asked to,   *)
(* and answers truly in either case.                                        *)
SearchKeepsItsWord == LimitIsExact /\ SearchTellsTheTruth /\ CancelledSearchStops

(* A cancelled run takes its worker with it and is not reported as failed.  *)
CancelledRunStops == AbandonedWorkerStops /\ CancellationIsNotFailure

(* Every task settles, cancelled or not. *)
TasksSettle ==
  /\ search.status = "working" ~> search.status # "working"
  /\ run.status = "working" ~> run.status # "working"

-----------------------------------------------------------------------------
(* What the safety properties rest on. *)

SearchType ==
  search \in [status : {"none", "working", "completed", "cancelled"}, at : {"loop", "advance"},
              source : {Hash(w) : w \in Worlds} \cup {Refused},
              outcome : {"none", "Solved", "Exhausted", "ExpansionLimit"},
              remaining : Nat, spent : Nat, cancelRequested : BOOLEAN, asked : Nat]

RunType ==
  /\ run \in [status : {"none", "working", "completed", "failed", "cancelled"},
              cancelRequested : BOOLEAN, queue : Nat]
  /\ worker \in [at : {"none", "computing", "emitting", "ok", "error", "stopped"},
                 cancelled : BOOLEAN, reports : Nat, late : Nat]

(* A call that is under way has read what its handle still stands for.      *)
PendingInv ==
  /\ DOMAIN pending = Clients
  /\ \A c \in Clients : pending[c] # NoCall =>
       pending[c].source \in DOMAIN snapshots /\ pending[c].world = snapshots[pending[c].source]

(* A task over is told so by the flag before the worker can notice; what    *)
(* was under way then is the only report that can be late.                  *)
WorkerInv ==
  /\ worker.cancelled <=> run.status = "cancelled"
  /\ worker.at = "stopped" => worker.cancelled
  /\ worker.late > 0 => worker.late = 1 /\ worker.cancelled /\ worker.at # "emitting"
  /\ run.status = "failed" => worker.at = "error"

(* Between chunks, what was expanded and what remains add up to the limit;  *)
(* within one, what the session may still expand is part of what remains.   *)
BudgetInv ==
  /\ search.status # "none" =>
       /\ search.at = "loop" =>
            /\ bfs.at = "returned"
            /\ bfs.expanded + search.remaining = problem.maxExpansions
            /\ bfs.left <= search.remaining
       /\ search.at = "advance" =>
            /\ search.spent <= bfs.expanded
            /\ search.spent + search.remaining = problem.maxExpansions
            /\ bfs.expanded + bfs.left <= problem.maxExpansions
            /\ bfs.expanded + bfs.left <= search.spent + problem.chunkSize
  /\ search.status # "working" => search.at = "loop"

StopInv ==
  search.cancelRequested =>
    /\ search.status # "none"
    /\ search.at = "loop" => bfs.expanded <= search.asked + problem.chunkSize
    /\ search.at = "advance" => search.spent <= search.asked

(* A session that used its budget up knows whether anything is left.        *)
ReturnInv ==
  bfs.at = "returned" /\ BfsStatus = "Running" /\ bfs.left = 0 => bfs.frontier # <<>>

OutcomeInv ==
  /\ search.status # "none" =>
       search.source \in DOMAIN snapshots /\ problem.initial = snapshots[search.source]
  /\ search.outcome # "none" => search.status = "completed"
  /\ search.outcome = "Solved" => bfs.solution.found
  /\ search.outcome = "Exhausted" => bfs.exhausted
  /\ search.outcome = "ExpansionLimit" => search.remaining = 0 /\ BfsStatus = "Running"

McpInv ==
  /\ StoreMatchesAnswers /\ PendingInv
  /\ RunType /\ WorkerInv
  /\ SearchType /\ BfsInv
  /\ BudgetInv /\ StopInv /\ ReturnInv /\ OutcomeInv
=============================================================================

------------------------------ MODULE StudioRun ------------------------------
(***************************************************************************)
(* One run of the Studio server: the task that executes it, the blocking    *)
(* thread that computes, the HTTP handlers that cancel, pause and resume    *)
(* it, and the clients that follow its events.                              *)
(*                                                                         *)
(* A step ends where the code gives up a lock, touches an atomic or awaits: *)
(* what happens between two such points is one action.  Progress counters,  *)
(* messages and the payload of events are left out; a run's summary keeps   *)
(* its status, its last event and its artifact.                             *)
(***************************************************************************)
EXTENDS Integers, Sequences, FiniteSets

CONSTANTS
  Callers,           \* HTTP requests to cancel, pause or resume the run
  Clients,           \* followers of the event stream
  Work,              \* bound: emissions and frames of the computation
  Requests,          \* bound: requests served
  Disconnects,       \* bound: requests and streams dropped by their client
  ChannelCapacity,   \* updates the computation may be ahead by (64)
  BroadcastCapacity  \* events a stream may fall behind by (256)

ASSUME StudioAssumption ==
  /\ "executor" \notin Callers
  /\ {Work, Requests, Disconnects} \subseteq Nat
  /\ {ChannelCapacity, BroadcastCapacity} \subseteq Nat \ {0}

VARIABLES
  \* the run record
  status,        \* summary.status
  lastEvent,     \* the sequence of summary.last_event, NoEvent at first
  artifact,      \* where the artifact is known: subset of {"store", "summary"}
  history,       \* every event pushed, in the order of the pushes
  nextSequence,
  generation,
  control,       \* the two flags of RunControl
  \* the computation
  worker,        \* [pc, left, emitted, result]
  updates,       \* the channel from the computation to the executor
  \* the actors
  pc,            \* the executor's and each request's next step
  pending,       \* the event an actor is emitting, and how far it got
  stream,        \* per client: the subscription and what it delivered
  budget         \* requests and disconnections left

record  == <<status, lastEvent, artifact, history, nextSequence, generation, control>>
compute == <<worker, updates>>
vars    == <<record, compute, pc, pending, stream, budget>>

Actors == {"executor"} \cup Callers

Statuses == {"Running", "Paused", "Completed", "Cancelled", "Failed"}
Kinds    == {"RunStarted", "Progress", "SearchObservation", "FrameAppended",
             "ArtifactPublished", "RunPaused", "RunResumed", "RunCompleted",
             "RunCancelled", "RunFailed"}
Updates  == {"Progress", "SearchObservation", "FrameAppended"}

Event   == [kind : Kinds, sequence : Nat]
NoEvent == -1

Steps ==
  {"start", "spawn", "receive", "store", "publish", "completed", "announceCompleted",
   "failed", "announceFailed", "done", "abandoned"} \cup Updates
  \cup {"idle", "signal", "cancelled", "announceCancelled", "closeGate", "paused",
        "announcePaused", "openGate", "announceResumed"}

NotEmitting == [at |-> "nowhere", event |-> [kind |-> "RunStarted", sequence |-> 0]]
Unfollowed  == [stage |-> "absent", queue |-> <<>>, backlog |-> <<>>, floor |-> NoEvent]

Init ==
  /\ status = "Running"
  /\ lastEvent = NoEvent
  /\ artifact = {}
  /\ history = <<>>
  /\ nextSequence = 0
  /\ generation = 1
  /\ control = [paused |-> FALSE, cancelled |-> FALSE]
  /\ worker = [pc |-> "unborn", left |-> Work, emitted |-> FALSE, result |-> "none"]
  /\ updates = <<>>
  /\ pc = [a \in Actors |-> IF a = "executor" THEN "start" ELSE "idle"]
  /\ pending = [a \in Actors |-> NotEmitting]
  /\ stream = [c \in Clients |-> [sub |-> Unfollowed, received |-> <<>>]]
  /\ budget = [requests |-> Requests, disconnects |-> Disconnects]

-----------------------------------------------------------------------------
(* Emitting an event: its sequence number is taken first, and then three    *)
(* separate steps tell the summary, the history and the open streams.       *)

Emitting(a) == pending[a].at # "nowhere"
At(a, step) == ~Emitting(a) /\ pc[a] = step
Goto(a, step) == pc' = [pc EXCEPT ![a] = step]

(* Mutant: the sequence number is the place the event will have. *)
AnnounceByPlace(a, step, kind, next) ==
  /\ At(a, step)
  /\ pending' = [pending EXCEPT ![a] =
       [at |-> "summary", event |-> [kind |-> kind, sequence |-> Len(history)]]]
  /\ nextSequence' = nextSequence + 1
  /\ Goto(a, next)
  /\ UNCHANGED <<status, lastEvent, artifact, history, generation, control, compute, stream, budget>>

Announce(a, step, kind, next) ==
  /\ At(a, step)
  /\ pending' = [pending EXCEPT ![a] =
       [at |-> "summary", event |-> [kind |-> kind, sequence |-> nextSequence]]]
  /\ nextSequence' = nextSequence + 1
  /\ Goto(a, next)
  /\ UNCHANGED <<status, lastEvent, artifact, history, generation, control, compute, stream, budget>>

EmitSummary(a) ==
  /\ pending[a].at = "summary"
  /\ lastEvent' = pending[a].event.sequence
  /\ pending' = [pending EXCEPT ![a].at = "history"]
  /\ UNCHANGED <<status, artifact, history, nextSequence, generation, control, compute, pc, stream, budget>>

EmitHistory(a) ==
  /\ pending[a].at = "history"
  /\ history' = Append(history, pending[a].event)
  /\ pending' = [pending EXCEPT ![a].at = "streams"]
  /\ UNCHANGED <<status, lastEvent, artifact, nextSequence, generation, control, compute, pc, stream, budget>>

(* A stream that falls behind loses its oldest event. *)
Offer(sub, event) ==
  IF sub.stage = "absent" THEN sub
  ELSE LET queue == Append(sub.queue, event)
       IN  [sub EXCEPT !.queue = IF Len(queue) > BroadcastCapacity THEN Tail(queue) ELSE queue]

EmitStreams(a) ==
  /\ pending[a].at = "streams"
  /\ stream' = [c \in Clients |-> [stream[c] EXCEPT !.sub = Offer(@, pending[a].event)]]
  /\ pending' = [pending EXCEPT ![a] = NotEmitting]
  /\ UNCHANGED <<record, compute, pc, budget>>

Emit(a) == EmitSummary(a) \/ EmitHistory(a) \/ EmitStreams(a)

-----------------------------------------------------------------------------
(* The computation.  ProgressSink checks the control before each emission:  *)
(* it waits while the run is paused and breaks once it is cancelled.  The   *)
(* two flags are read one after the other; as `cancelled` is never reset,   *)
(* the outcome is that of reading both at one of the two moments.           *)

Checkpoint ==
  /\ worker.pc = "between"
  /\ worker.left > 0
  /\ ~control.paused /\ ~control.cancelled
  /\ worker' = [worker EXCEPT !.pc = "Progress", !.left = @ - 1]
  /\ UNCHANGED <<record, updates, pc, pending, stream, budget>>

(* Mutant: a paused computation does not look for cancellation. *)
CheckpointCancelledOnceResumed ==
  /\ worker.pc = "between"
  /\ control.cancelled /\ ~control.paused
  /\ worker' = [worker EXCEPT !.pc = "exited", !.result = "Cancelled"]
  /\ UNCHANGED <<record, updates, pc, pending, stream, budget>>

CheckpointCancelled ==
  /\ worker.pc = "between"
  /\ control.cancelled
  /\ worker' = [worker EXCEPT !.pc = "exited", !.result = "Cancelled"]
  /\ UNCHANGED <<record, updates, pc, pending, stream, budget>>

ReceiverDropped == pc["executor"] = "abandoned"

(* ChannelObserver: a send waits for room, and is lost without a receiver. *)
Send(update) ==
  IF ReceiverDropped THEN UNCHANGED updates
  ELSE Len(updates) < ChannelCapacity /\ updates' = Append(updates, update)

SendProgress ==
  /\ worker.pc = "Progress"
  /\ Send("Progress")
  /\ worker' = [worker EXCEPT !.pc = "SearchObservation"]
  /\ UNCHANGED <<record, pc, pending, stream, budget>>

SendObservation ==
  /\ worker.pc = "SearchObservation"
  /\ Send("SearchObservation")
  /\ worker' = [worker EXCEPT !.pc = "between", !.emitted = TRUE]
  /\ UNCHANGED <<record, pc, pending, stream, budget>>

(* Frames are sent without looking at the control. *)
SendFrame ==
  /\ worker.pc = "between"
  /\ worker.emitted /\ worker.left > 0
  /\ Send("FrameAppended")
  /\ worker' = [worker EXCEPT !.left = @ - 1]
  /\ UNCHANGED <<record, pc, pending, stream, budget>>

(* A run succeeds only after the emission of its last document, and fails   *)
(* only past the checkpoint it starts with.                                 *)
Compute(result) ==
  /\ worker.pc = "between"
  /\ \/ worker.emitted
     \/ result = "Problem" /\ ~control.paused /\ ~control.cancelled
  /\ worker' = [worker EXCEPT !.pc = "exited", !.result = result]
  /\ UNCHANGED <<record, updates, pc, pending, stream, budget>>

Worker ==
  \/ Checkpoint \/ CheckpointCancelled
  \/ SendProgress \/ SendObservation \/ SendFrame
  \/ \E result \in {"Ok", "Problem"} : Compute(result)
-----------------------------------------------------------------------------
(* execute_run: forward the updates, then settle the run.  Before each      *)
(* update, and before settling, a changed generation makes it return and    *)
(* drop its end of the channel.                                             *)

Silent == <<record, pending, stream, budget>>

Spawn ==
  /\ At("executor", "spawn")
  /\ worker' = [worker EXCEPT !.pc = "between"]
  /\ Goto("executor", "receive")
  /\ UNCHANGED <<Silent, updates>>

Abandon ==
  /\ At("executor", "receive")
  /\ generation # 1
  /\ updates # <<>> \/ worker.pc = "exited"
  /\ updates' = <<>>
  /\ Goto("executor", "abandoned")
  /\ UNCHANGED <<Silent, worker>>

Receive ==
  /\ At("executor", "receive")
  /\ generation = 1
  /\ updates # <<>>
  /\ updates' = Tail(updates)
  /\ Goto("executor", Head(updates))
  /\ UNCHANGED <<Silent, worker>>

(* Mutant: only a computation that returned is joined. *)
JoinIfReturned ==
  /\ At("executor", "receive")
  /\ generation = 1
  /\ updates = <<>> /\ worker.pc = "exited" /\ worker.result # "Problem"
  /\ Goto("executor", IF worker.result = "Ok" THEN "store" ELSE "cancelled")
  /\ UNCHANGED <<Silent, compute>>

(* The channel is closed once the computation has returned. *)
Join ==
  /\ At("executor", "receive")
  /\ generation = 1
  /\ updates = <<>> /\ worker.pc = "exited"
  /\ Goto("executor", CASE worker.result = "Ok"        -> "store"
                       [] worker.result = "Cancelled" -> "cancelled"
                       [] OTHER                       -> "failed")
  /\ UNCHANGED <<Silent, compute>>

(* Mutant: the artifact is announced and never stored. *)
StoreArtifactNever ==
  /\ At("executor", "store")
  /\ Goto("executor", "publish")
  /\ UNCHANGED <<Silent, compute>>

StoreArtifact ==
  /\ At("executor", "store")
  /\ artifact' = artifact \cup {"store"}
  /\ Goto("executor", "publish")
  /\ UNCHANGED <<status, lastEvent, history, nextSequence, generation, control,
                 compute, pending, stream, budget>>

Settle(a, step, verdict, next) ==
  /\ At(a, step)
  /\ status' = verdict
  /\ artifact' = IF verdict = "Completed" THEN artifact \cup {"summary"} ELSE artifact
  /\ Goto(a, next)
  /\ UNCHANGED <<lastEvent, history, nextSequence, generation, control,
                 compute, pending, stream, budget>>

Execute ==
  \/ Announce("executor", "start", "RunStarted", "spawn")
  \/ Spawn \/ Abandon \/ Receive \/ Join
  \/ \E update \in Updates : Announce("executor", update, update, "receive")
  \/ StoreArtifact
  \/ Announce("executor", "publish", "ArtifactPublished", "completed")
  \/ Settle("executor", "completed", "Completed", "announceCompleted")
  \/ Announce("executor", "announceCompleted", "RunCompleted", "done")
  \/ Settle("executor", "failed", "Failed", "announceFailed")
  \/ Announce("executor", "announceFailed", "RunFailed", "done")

-----------------------------------------------------------------------------
(* The handlers.  finish_cancelled is shared by cancel_run and the executor. *)

Accept(c) ==
  /\ c \in Callers
  /\ At(c, "idle")
  /\ budget.requests > 0
  /\ budget' = [budget EXCEPT !.requests = @ - 1]

(* Mutant: cancelling leaves the generation to the executor. *)
BeginCancelSameGeneration(c) ==
  /\ Accept(c)
  /\ Goto(c, "signal")
  /\ UNCHANGED <<record, compute, pending, stream>>

(* Mutant: the generation counts down. *)
BeginCancelCountingDown(c) ==
  /\ Accept(c)
  /\ generation' = generation - 1
  /\ Goto(c, "signal")
  /\ UNCHANGED <<status, lastEvent, artifact, history, nextSequence, control, compute, pending, stream>>

BeginCancel(c) ==
  /\ Accept(c)
  /\ generation' = generation + 1
  /\ Goto(c, "signal")
  /\ UNCHANGED <<status, lastEvent, artifact, history, nextSequence, control, compute, pending, stream>>

(* A run that is not running refuses to pause. *)
BeginPause(c) ==
  /\ Accept(c)
  /\ status = "Running"
  /\ Goto(c, "closeGate")
  /\ UNCHANGED <<record, compute, pending, stream>>

(* A run that is not paused refuses to resume. *)
BeginResume(c) ==
  /\ Accept(c)
  /\ status = "Paused"
  /\ status' = "Running"
  /\ Goto(c, "openGate")
  /\ UNCHANGED <<lastEvent, artifact, history, nextSequence, generation, control,
                 compute, pending, stream>>

Control(c, step, flags, next) ==
  /\ At(c, step)
  /\ control' = flags
  /\ Goto(c, next)
  /\ UNCHANGED <<status, lastEvent, artifact, history, nextSequence, generation,
                 compute, pending, stream, budget>>

Cancel(c) == Control(c, "signal", [control EXCEPT !.cancelled = TRUE], "cancelled")
Pause(c)  == Control(c, "closeGate", [control EXCEPT !.paused = TRUE], "paused")

(* Mutant: resuming changes the status and forgets the gate. *)
ResumeStatusOnly(c) == Control(c, "openGate", control, "announceResumed")

Resume(c) == Control(c, "openGate", [control EXCEPT !.paused = FALSE], "announceResumed")

FinishCancelled(a) ==
  LET next == IF a = "executor" THEN "done" ELSE "idle" IN
  \/ Settle(a, "cancelled", "Cancelled", "announceCancelled")
  \/ Announce(a, "announceCancelled", "RunCancelled", next)

Handle(c) ==
  \/ Cancel(c)
  \/ Pause(c)
  \/ Settle(c, "paused", "Paused", "announcePaused")
  \/ Announce(c, "announcePaused", "RunPaused", "idle")
  \/ Resume(c)
  \/ Announce(c, "announceResumed", "RunResumed", "idle")

(* A handler whose client hangs up is dropped at an await: before the       *)
(* status is written, or before its event reaches the summary or the        *)
(* history.                                                                 *)
Hangup(c) ==
  /\ budget.disconnects > 0
  /\ \/ ~Emitting(c) /\ pc[c] \in {"cancelled", "paused"}
     \/ pending[c].at \in {"summary", "history"}
  /\ budget' = [budget EXCEPT !.disconnects = @ - 1]
  /\ pending' = [pending EXCEPT ![c] = NotEmitting]
  /\ Goto(c, "idle")
  /\ UNCHANGED <<record, compute, stream>>

-----------------------------------------------------------------------------
(* run_events and the page that follows it: subscribe, then copy the        *)
(* history, then deliver the copy and whatever live event is newer than the *)
(* copy's last.  The page keeps the first event of each sequence number,    *)
(* and closes its stream when the run is over.                              *)

Terminal == {"RunCompleted", "RunCancelled", "RunFailed"}

Server == <<record, compute, pc, pending>>

Stream(c, stage, sub) ==
  /\ stream[c].sub.stage = stage
  /\ stream' = [stream EXCEPT ![c].sub = sub]
  /\ UNCHANGED Server

Subscribe(c) ==
  /\ Stream(c, "absent", [Unfollowed EXCEPT !.stage = "subscribed"])
  /\ UNCHANGED budget

(* Mutant: the copy is taken to hold every event numbered so far. *)
SnapshotToCounter(c) ==
  /\ Stream(c, "subscribed",
       [stream[c].sub EXCEPT
          !.stage = "streaming", !.backlog = history, !.floor = nextSequence - 1])
  /\ UNCHANGED budget

Snapshot(c) ==
  /\ Stream(c, "subscribed",
       [stream[c].sub EXCEPT
          !.stage = "streaming",
          !.backlog = history,
          !.floor = IF history = <<>> THEN NoEvent ELSE history[Len(history)].sequence])
  /\ UNCHANGED budget

(* A reconnecting page keeps what it has. *)
Reconnect(c) ==
  /\ budget.disconnects > 0
  /\ Stream(c, "streaming", Unfollowed)
  /\ budget' = [budget EXCEPT !.disconnects = @ - 1]

Keep(received, event) ==
  IF \E i \in DOMAIN received : received[i].sequence = event.sequence
  THEN received ELSE Append(received, event)

Deliver(c, event, sub) ==
  stream' = [stream EXCEPT ![c] =
    [sub |-> IF event.kind \in Terminal THEN [Unfollowed EXCEPT !.stage = "closed"] ELSE sub,
     received |-> Keep(@.received, event)]]

DeliverBacklog(c) ==
  LET sub == stream[c].sub IN
  /\ sub.backlog # <<>>
  /\ Deliver(c, Head(sub.backlog), [sub EXCEPT !.backlog = Tail(@)])
  /\ UNCHANGED <<Server, budget>>

(* Mutant: live events do not wait for the copy. *)
DeliverLiveAtOnce(c) ==
  LET sub  == stream[c].sub
      rest == [sub EXCEPT !.queue = Tail(@)]
  IN
  /\ sub.stage = "streaming" /\ sub.queue # <<>>
  /\ IF Head(sub.queue).sequence > sub.floor
     THEN Deliver(c, Head(sub.queue), rest)
     ELSE stream' = [stream EXCEPT ![c].sub = rest]
  /\ UNCHANGED <<Server, budget>>

(* Mutant: the event right after the copy is taken for part of it. *)
DeliverLiveOffByOne(c) ==
  LET sub  == stream[c].sub
      rest == [sub EXCEPT !.queue = Tail(@)]
  IN
  /\ sub.stage = "streaming" /\ sub.backlog = <<>> /\ sub.queue # <<>>
  /\ IF Head(sub.queue).sequence > sub.floor + 1
     THEN Deliver(c, Head(sub.queue), rest)
     ELSE stream' = [stream EXCEPT ![c].sub = rest]
  /\ UNCHANGED <<Server, budget>>

DeliverLive(c) ==
  LET sub  == stream[c].sub
      rest == [sub EXCEPT !.queue = Tail(@)]
  IN
  /\ sub.stage = "streaming" /\ sub.backlog = <<>> /\ sub.queue # <<>>
  /\ IF Head(sub.queue).sequence > sub.floor
     THEN Deliver(c, Head(sub.queue), rest)
     ELSE stream' = [stream EXCEPT ![c].sub = rest]
  /\ UNCHANGED <<Server, budget>>

Follow(c) == Snapshot(c) \/ DeliverBacklog(c) \/ DeliverLive(c)

-----------------------------------------------------------------------------
Next ==
  \/ Worker
  \/ Execute
  \/ \E a \in Actors : Emit(a) \/ FinishCancelled(a)
  \/ \E c \in Callers :
       BeginCancel(c) \/ BeginPause(c) \/ BeginResume(c) \/ Handle(c) \/ Hangup(c)
  \/ \E c \in Clients : Subscribe(c) \/ Reconnect(c) \/ Follow(c)

(* The runtime polls every task and thread that can go on; whether a        *)
(* request or a subscription comes is up to the clients.                    *)
Fairness ==
  /\ WF_vars(Worker)
  /\ WF_vars(Execute)
  /\ \A a \in Actors : WF_vars(Emit(a)) /\ WF_vars(FinishCancelled(a))
  /\ \A c \in Callers : WF_vars(Handle(c))
  /\ \A c \in Clients : WF_vars(Follow(c))

Spec == Init /\ [][Next]_vars /\ Fairness

-----------------------------------------------------------------------------
Computation  == [pc : {"unborn", "between", "Progress", "SearchObservation", "exited"},
                 left : Nat, emitted : BOOLEAN,
                 result : {"none", "Ok", "Cancelled", "Problem"}]
Emission     == [at : {"nowhere", "summary", "history", "streams"}, event : Event]
Subscription == [stage : {"absent", "subscribed", "streaming", "closed"},
                 queue : Seq(Event), backlog : Seq(Event), floor : Nat \cup {NoEvent}]

(* Every field of the run record, of the computation, of each actor and of  *)
(* each stream keeps its range; the generation that cancel_run moves on     *)
(* never falls back to where an executor would take the run for its own.    *)
TypeOK ==
  /\ status \in Statuses
  /\ lastEvent \in Nat \cup {NoEvent}
  /\ artifact \subseteq {"store", "summary"}
  /\ history \in Seq(Event)
  /\ nextSequence \in Nat
  /\ generation \in Nat \ {0}
  /\ control \in [paused : BOOLEAN, cancelled : BOOLEAN]
  /\ worker \in Computation
  /\ updates \in Seq(Updates)
  /\ pc \in [Actors -> Steps]
  /\ pending \in [Actors -> Emission]
  /\ stream \in [Clients -> [sub : Subscription, received : Seq(Event)]]
  /\ budget \in [requests : Nat, disconnects : Nat]

(* Each sequence number taken names at most one event of the history, and,  *)
(* where no handler was dropped, exactly one once nobody is emitting: what  *)
(* the de-duplication by sequence in the page relies on.                    *)
SequencesNameEvents ==
  /\ \A i, j \in DOMAIN history :
       history[i].sequence = history[j].sequence => i = j
  /\ budget.disconnects = Disconnects /\ ~(\E a \in Actors : Emitting(a)) =>
       {history[i].sequence : i \in DOMAIN history} = 0 .. nextSequence - 1

(* When a client hears that the run completed, the artifact it is told to   *)
(* fetch can be fetched, and the summary already names it.                  *)
CompletionIsFetchable ==
  \A i \in DOMAIN history :
    /\ history[i].kind = "ArtifactPublished" => "store" \in artifact
    /\ history[i].kind = "RunCompleted" => artifact = {"store", "summary"}

Handling == \E c \in Callers : Emitting(c) \/ pc[c] # "idle"

(* Between requests a computation is never held by a gate nobody is told    *)
(* of: a closed gate shows as a paused run, which can be resumed, unless    *)
(* the run was cancelled or the computation is over.                        *)
ClosedGateIsVisible ==
  control.paused /\ ~Handling /\ ~control.cancelled /\ worker.pc # "exited"
    => status = "Paused"

(* Only cancel_run cancels: a computation that stopped because it was       *)
(* cancelled has already been disowned by its executor.                     *)
ExecutorNeverCancels == pc["executor"] # "cancelled"

-----------------------------------------------------------------------------
(* What the five invariants above rest on.                                  *)

(* Numbered, and on its way to the history. *)
Numbered(a) == pending[a].at \in {"summary", "history"}

(* A number is in the history or with one actor, never both. *)
SequenceInv ==
  /\ \A i \in DOMAIN history : history[i].sequence < nextSequence
  /\ \A i, j \in DOMAIN history : history[i].sequence = history[j].sequence => i = j
  /\ \A a \in Actors : Numbered(a) =>
       /\ pending[a].event.sequence < nextSequence
       /\ \A i \in DOMAIN history : history[i].sequence # pending[a].event.sequence
  /\ \A a, b \in Actors :
       Numbered(a) /\ Numbered(b) /\ pending[a].event.sequence = pending[b].event.sequence
         => a = b

(* While nobody hung up, no number is lost. *)
CoverInv ==
  /\ budget.disconnects <= Disconnects
  /\ budget.disconnects = Disconnects =>
       \A n \in 0 .. nextSequence - 1 :
         \/ \E i \in DOMAIN history : history[i].sequence = n
         \/ \E a \in Actors : Numbered(a) /\ pending[a].event.sequence = n

(* Whoever cancels has moved the generation on first. *)
CancelInv ==
  /\ pc["executor"] \notin {"cancelled", "announceCancelled"}
  /\ \A c \in Callers : pc[c] = "signal" => generation > 1
  /\ \A c \in Callers : pc[c] \in {"cancelled", "announceCancelled"} => control.cancelled
  /\ control.cancelled => generation > 1
  /\ worker.result = "Cancelled" => control.cancelled

(* The artifact is stored, then announced, then entered in the summary. *)
ArtifactInv ==
  /\ pc["executor"] \in {"publish", "completed", "announceCompleted"} => "store" \in artifact
  /\ pc["executor"] = "announceCompleted" => "summary" \in artifact
  /\ \A a \in Actors :
       /\ pending[a].event.kind = "ArtifactPublished" => "store" \in artifact
       /\ pending[a].event.kind = "RunCompleted" => artifact = {"store", "summary"}
  /\ CompletionIsFetchable

(* A closed gate is being told of, being opened, or shown. *)
GateInv ==
  /\ pc["executor"] \in {"start", "spawn"} => worker.pc = "unborn"
  /\ pc["executor"] \in {"store", "publish", "completed", "announceCompleted",
                         "failed", "announceFailed"} => worker.pc = "exited"
  /\ control.paused /\ ~control.cancelled /\ worker.pc # "exited" =>
       \/ status = "Paused"
       \/ \E c \in Callers : pc[c] \in {"paused", "openGate"}

-----------------------------------------------------------------------------
(* A cancelled run stops, also when it is paused or its channel is full. *)
Over == pc["executor"] \in {"done", "abandoned"}
CancelEnds == control.cancelled ~> (Over /\ worker.pc = "exited")

(* A run that nobody holds paused for ever comes to its end. *)
RunEnds == <>Over \/ <>[](control.paused)

CaughtUp(c) ==
  /\ stream[c].sub.stage = "streaming"
  /\ stream[c].sub.backlog = <<>> /\ stream[c].sub.queue = <<>>
  /\ ~\E a \in Actors : Emitting(a)

(* A stream that has caught up has shown its client the whole history, also *)
(* across reconnections.                                                    *)
NothingMissed ==
  \A c \in Clients : CaughtUp(c) =>
    \A i \in DOMAIN history : \E j \in DOMAIN stream[c].received :
      stream[c].received[j] = history[i]

(* A client sees events in the order of their sequence numbers. *)
DeliveredInOrder ==
  \A c \in Clients : \A i, j \in DOMAIN stream[c].received :
    i < j => stream[c].received[i].sequence < stream[c].received[j].sequence

(* A client that keeps its stream open learns that the run is over. *)
ClientLearnsTheEnd ==
  \A c \in Clients :
    Over /\ stream[c].sub.stage = "streaming" ~> stream[c].sub.stage # "streaming"

(* A paused run is a computation that waits to be resumed: nothing reports  *)
(* a run as paused that has come to its end.                                *)
PausedIsWaiting == status = "Paused" /\ ~Handling => ~Over
=============================================================================

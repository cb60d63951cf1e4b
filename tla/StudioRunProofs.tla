-------------------------- MODULE StudioRunProofs --------------------------
(***************************************************************************)
(* Safety of a Studio run for any number of requests and clients, any       *)
(* amount of work and any channel capacities.                               *)
(***************************************************************************)
EXTENDS StudioRun, TLAPS

LEMMA ActorsAreActors ==
  /\ "executor" \in Actors
  /\ Callers \subseteq Actors
  BY DEF Actors

-----------------------------------------------------------------------------
(* Types of the steps shared by several actors. *)

LEMMA AnnounceType ==
  ASSUME TypeOK, NEW a \in Actors, NEW step, NEW kind \in Kinds, NEW next \in Steps,
         Announce(a, step, kind, next)
  PROVE  TypeOK'
<1>1. [at |-> "summary", event |-> [kind |-> kind, sequence |-> nextSequence]] \in Emission
  BY DEF TypeOK, Event, Emission
<1> QED
  BY <1>1 DEF TypeOK, Announce, Goto, compute

LEMMA SettleType ==
  ASSUME TypeOK, NEW a \in Actors, NEW step, NEW verdict \in Statuses, NEW next \in Steps,
         Settle(a, step, verdict, next)
  PROVE  TypeOK'
  BY DEF TypeOK, Settle, Goto, compute

LEMMA ControlType ==
  ASSUME TypeOK, NEW c \in Callers, NEW step, NEW next \in Steps,
         NEW flags \in [paused : BOOLEAN, cancelled : BOOLEAN],
         Control(c, step, flags, next)
  PROVE  TypeOK'
  BY ActorsAreActors DEF TypeOK, Control, Goto, compute

LEMMA OfferType ==
  ASSUME NEW sub \in Subscription, NEW event \in Event
  PROVE  Offer(sub, event) \in Subscription
<1> DEFINE queue == Append(sub.queue, event)
<1>1. sub.queue \in Seq(Event)
  BY DEF Subscription
<1>2. queue \in Seq(Event) /\ queue # <<>>
  BY <1>1
<1>3. Tail(queue) \in Seq(Event)
  BY <1>2
<1>4. \A q \in Seq(Event) : [sub EXCEPT !.queue = q] \in Subscription
  BY DEF Subscription
<1> HIDE DEF queue
<1>5. Offer(sub, event) \in {sub, [sub EXCEPT !.queue = queue], [sub EXCEPT !.queue = Tail(queue)]}
  BY DEF Offer, queue
<1> QED
  BY <1>2, <1>3, <1>4, <1>5

LEMMA EmitType ==
  ASSUME TypeOK, NEW a \in Actors, Emit(a)
  PROVE  TypeOK'
<1>1. pending[a].event \in Event /\ pending[a].event.sequence \in Nat
  BY DEF TypeOK, Event, Emission
<1>2. \A e \in Emission, at \in {"nowhere", "summary", "history", "streams"} :
        [e EXCEPT !.at = at] \in Emission
  BY DEF Emission
<1>3. CASE EmitSummary(a)
  <2>1. pending' \in [Actors -> Emission]
    BY <1>2, <1>3 DEF TypeOK, EmitSummary
  <2> QED
    BY <1>1, <1>3, <2>1 DEF TypeOK, EmitSummary, compute
<1>4. CASE EmitHistory(a)
  <2>1. history' \in Seq(Event)
    BY <1>1, <1>4 DEF TypeOK, EmitHistory
  <2>2. pending' \in [Actors -> Emission]
    BY <1>2, <1>4 DEF TypeOK, EmitHistory
  <2> QED
    BY <1>4, <2>1, <2>2 DEF TypeOK, EmitHistory, compute
<1>5. CASE EmitStreams(a)
  <2>1. stream' \in [Clients -> [sub : Subscription, received : Seq(Event)]]
    <3>1. ASSUME NEW c \in Clients
          PROVE  [stream[c] EXCEPT !.sub = Offer(@, pending[a].event)]
                   \in [sub : Subscription, received : Seq(Event)]
      <4>1. stream[c] \in [sub : Subscription, received : Seq(Event)]
        BY DEF TypeOK
      <4>2. Offer(stream[c].sub, pending[a].event) \in Subscription
        BY <1>1, <4>1, OfferType
      <4> QED
        BY <4>1, <4>2
    <3> QED
      BY <1>5, <3>1 DEF EmitStreams
  <2>2. NotEmitting \in Emission
    BY DEF NotEmitting, Event, Kinds, Emission
  <2>3. pending' \in [Actors -> Emission]
    BY <1>5, <2>2 DEF TypeOK, EmitStreams
  <2> QED
    BY <1>5, <2>1, <2>3 DEF TypeOK, EmitStreams, compute, record
<1> QED
  BY <1>3, <1>4, <1>5 DEF Emit

LEMMA WorkerType ==
  ASSUME TypeOK, Worker
  PROVE  TypeOK'
<1> SUFFICES worker' \in Computation /\ updates' \in Seq(Updates)
             /\ UNCHANGED <<record, pc, pending, stream, budget>>
  BY DEF TypeOK, record
<1>1. worker \in Computation /\ updates \in Seq(Updates)
  BY DEF TypeOK
<1>2. ASSUME NEW update \in Updates, Send(update) PROVE updates' \in Seq(Updates)
  BY <1>1, <1>2 DEF Send
<1>3. CASE Checkpoint
  <2>1. worker.left \in Nat /\ worker.left > 0
    BY <1>1, <1>3 DEF Checkpoint, Computation
  <2>2. worker.left - 1 \in Nat
    BY <2>1
  <2>3. worker' \in Computation
    BY <1>1, <1>3, <2>2 DEF Checkpoint, Computation
  <2> QED
    BY <1>1, <1>3, <2>3 DEF Checkpoint
<1>4. CASE CheckpointCancelled
  BY <1>1, <1>4 DEF CheckpointCancelled, Computation
<1>5. CASE SendProgress
  <2>1. updates' \in Seq(Updates)
    BY <1>2, <1>5 DEF SendProgress, Updates
  <2> QED
    BY <1>1, <1>5, <2>1 DEF SendProgress, Computation
<1>6. CASE SendObservation
  <2>1. updates' \in Seq(Updates)
    BY <1>2, <1>6 DEF SendObservation, Updates
  <2> QED
    BY <1>1, <1>6, <2>1 DEF SendObservation, Computation
<1>7. CASE SendFrame
  <2>1. updates' \in Seq(Updates)
    BY <1>2, <1>7 DEF SendFrame, Updates
  <2> QED
    BY <1>1, <1>7, <2>1 DEF SendFrame, Computation
<1>8. ASSUME NEW result \in {"Ok", "Problem"}, Compute(result)
      PROVE  /\ worker' \in Computation /\ updates' \in Seq(Updates)
             /\ UNCHANGED <<record, pc, pending, stream, budget>>
  BY <1>1, <1>8 DEF Compute, Computation
<1> QED
  BY <1>3, <1>4, <1>5, <1>6, <1>7, <1>8 DEF Worker
LEMMA ExecuteType ==
  ASSUME TypeOK, Execute
  PROVE  TypeOK'
<1> USE ActorsAreActors
<1>1. {"spawn", "receive", "completed", "done", "announceCompleted", "announceFailed", "publish",
       "store", "failed", "cancelled", "abandoned"} \cup Updates \subseteq Steps
  BY DEF Steps
<1>2. Updates \cup {"RunStarted", "ArtifactPublished", "RunCompleted", "RunFailed"} \subseteq Kinds
  BY DEF Updates, Kinds
<1>3. ASSUME NEW step, NEW kind, NEW next, Announce("executor", step, kind, next),
             kind \in Kinds, next \in Steps
      PROVE  TypeOK'
  BY <1>3, AnnounceType
<1>4. ASSUME NEW update \in Updates, Announce("executor", update, update, "receive")
      PROVE  TypeOK'
  BY <1>1, <1>2, <1>3, <1>4
<1>5. CASE Spawn
  <2>1. worker' \in Computation
    BY <1>5 DEF Spawn, TypeOK, Computation
  <2> QED
    BY <1>1, <1>5, <2>1 DEF Spawn, TypeOK, Goto, Silent, record
<1>6. CASE Abandon
  BY <1>1, <1>6 DEF Abandon, TypeOK, Goto, Silent, record
<1>7. CASE Receive
  <2>1. Head(updates) \in Updates /\ Tail(updates) \in Seq(Updates)
    BY <1>7 DEF Receive, TypeOK
  <2> QED
    BY <1>1, <1>7, <2>1 DEF Receive, TypeOK, Goto, Silent, record
<1>8. CASE Join
  <2>1. pc' = [pc EXCEPT !["executor"] = "store"]
          \/ pc' = [pc EXCEPT !["executor"] = "cancelled"]
          \/ pc' = [pc EXCEPT !["executor"] = "failed"]
    BY <1>8 DEF Join, Goto
  <2>2. pc' \in [Actors -> Steps]
    BY <1>1, <2>1 DEF TypeOK
  <2> QED
    BY <1>8, <2>2 DEF Join, TypeOK, Silent, record, compute
<1>9. CASE StoreArtifact
  BY <1>1, <1>9 DEF StoreArtifact, TypeOK, Goto, compute
<1>10. ASSUME NEW step, NEW verdict \in Statuses, NEW next \in Steps,
              Settle("executor", step, verdict, next)
       PROVE  TypeOK'
  BY <1>10, SettleType
<1>11. {"Completed", "Failed"} \subseteq Statuses
  BY DEF Statuses
<1> QED
  BY <1>1, <1>2, <1>3, <1>4, <1>5, <1>6, <1>7, <1>8, <1>9, <1>10, <1>11 DEF Execute
LEMMA HandlerType ==
  ASSUME TypeOK, NEW c \in Callers,
         BeginCancel(c) \/ BeginPause(c) \/ BeginResume(c) \/ Handle(c) \/ Hangup(c)
  PROVE  TypeOK'
<1> USE ActorsAreActors
<1>1. {"signal", "closeGate", "openGate", "cancelled", "paused", "announceResumed",
       "announcePaused", "idle"} \subseteq Steps
  BY DEF Steps
<1>2. {"RunPaused", "RunResumed"} \subseteq Kinds /\ {"Paused", "Running"} \subseteq Statuses
  BY DEF Kinds, Statuses
<1>3. budget.requests \in Nat /\ budget.disconnects \in Nat
  BY DEF TypeOK
<1>4. ASSUME Accept(c) PROVE budget' \in [requests : Nat, disconnects : Nat]
  <2>1. budget.requests - 1 \in Nat
    BY <1>3, <1>4 DEF Accept
  <2> QED
    BY <1>4, <2>1 DEF Accept, TypeOK
<1>5. CASE BeginCancel(c)
  BY <1>1, <1>4, <1>5 DEF BeginCancel, TypeOK, Goto, compute
<1>6. CASE BeginPause(c)
  BY <1>1, <1>4, <1>6 DEF BeginPause, TypeOK, Goto, compute, record
<1>7. CASE BeginResume(c)
  BY <1>1, <1>2, <1>4, <1>7 DEF BeginResume, TypeOK, Goto, compute
<1>8. CASE Handle(c)
  <2>1. /\ [control EXCEPT !.cancelled = TRUE] \in [paused : BOOLEAN, cancelled : BOOLEAN]
        /\ [control EXCEPT !.paused = TRUE] \in [paused : BOOLEAN, cancelled : BOOLEAN]
        /\ [control EXCEPT !.paused = FALSE] \in [paused : BOOLEAN, cancelled : BOOLEAN]
    BY DEF TypeOK
  <2>2. CASE Cancel(c) \/ Pause(c) \/ Resume(c)
    BY <1>1, <2>1, <2>2, ControlType DEF Cancel, Pause, Resume
  <2>3. CASE Settle(c, "paused", "Paused", "announcePaused")
    BY <1>1, <1>2, <2>3, SettleType
  <2>4. CASE Announce(c, "announcePaused", "RunPaused", "idle")
             \/ Announce(c, "announceResumed", "RunResumed", "idle")
    BY <1>1, <1>2, <2>4, AnnounceType
  <2> QED
    BY <1>8, <2>2, <2>3, <2>4 DEF Handle
<1>9. CASE Hangup(c)
  <2>1. budget.disconnects - 1 \in Nat
    BY <1>3, <1>9 DEF Hangup
  <2>2. budget' \in [requests : Nat, disconnects : Nat]
    BY <1>9, <2>1 DEF Hangup, TypeOK
  <2>3. NotEmitting \in Emission
    BY DEF NotEmitting, Event, Kinds, Emission
  <2> QED
    BY <1>1, <1>9, <2>2, <2>3 DEF Hangup, TypeOK, Goto, compute, record
<1> QED
  BY <1>5, <1>6, <1>7, <1>8, <1>9

LEMMA FinishCancelledType ==
  ASSUME TypeOK, NEW a \in Actors, FinishCancelled(a)
  PROVE  TypeOK'
<1>1. {"done", "idle", "announceCancelled"} \subseteq Steps /\ "RunCancelled" \in Kinds
        /\ "Cancelled" \in Statuses
  BY DEF Steps, Kinds, Statuses
<1> QED
  BY <1>1, SettleType, AnnounceType DEF FinishCancelled

LEMMA StreamType ==
  ASSUME TypeOK, NEW c \in Clients, Subscribe(c) \/ Reconnect(c) \/ Follow(c)
  PROVE  TypeOK'
<1> DEFINE sub == stream[c].sub
<1>1. /\ stream[c] \in [sub : Subscription, received : Seq(Event)]
      /\ sub \in Subscription /\ history \in Seq(Event)
  BY DEF TypeOK
<1>2. /\ sub.stage \in {"absent", "subscribed", "streaming", "closed"}
      /\ sub.queue \in Seq(Event) /\ sub.backlog \in Seq(Event)
  BY <1>1 DEF Subscription
<1>3. Unfollowed \in Subscription
  BY DEF Unfollowed, Subscription
<1>4. \A q \in Seq(Event), s \in Subscription :
        [s EXCEPT !.queue = q] \in Subscription /\ [s EXCEPT !.backlog = q] \in Subscription
  BY DEF Subscription
<1>5. \A st \in {"absent", "subscribed", "streaming", "closed"} :
        [Unfollowed EXCEPT !.stage = st] \in Subscription
  BY <1>3 DEF Subscription
<1>6. ASSUME UNCHANGED Server, budget' \in [requests : Nat, disconnects : Nat],
             stream' \in [Clients -> [sub : Subscription, received : Seq(Event)]]
      PROVE  TypeOK'
  BY <1>6 DEF TypeOK, Server, record, compute
<1>7. ASSUME NEW stage, NEW next \in Subscription, Stream(c, stage, next)
      PROVE  /\ UNCHANGED Server
             /\ stream' \in [Clients -> [sub : Subscription, received : Seq(Event)]]
  BY <1>7 DEF Stream, TypeOK
<1>8. ASSUME NEW event \in Event, NEW next \in Subscription, Deliver(c, event, next)
      PROVE  stream' \in [Clients -> [sub : Subscription, received : Seq(Event)]]
  <2>1. stream[c].received \in Seq(Event)
    BY <1>1
  <2>2. Keep(stream[c].received, event) \in Seq(Event)
    BY <2>1 DEF Keep
  <2>3. (IF event.kind \in Terminal THEN [Unfollowed EXCEPT !.stage = "closed"] ELSE next)
          \in Subscription
    BY <1>5
  <2> QED
    BY <1>8, <2>2, <2>3 DEF Deliver, TypeOK
<1>9. CASE Subscribe(c)
  BY <1>5, <1>6, <1>7, <1>9 DEF Subscribe, TypeOK
<1>10. CASE Reconnect(c)
  <2>1. budget.disconnects - 1 \in Nat
    BY <1>10 DEF Reconnect, TypeOK
  <2>2. budget' \in [requests : Nat, disconnects : Nat]
    BY <1>10, <2>1 DEF Reconnect, TypeOK
  <2> QED
    BY <1>3, <1>6, <1>7, <1>10, <2>2 DEF Reconnect
<1>11. CASE Snapshot(c)
  <2>1. (IF history = <<>> THEN NoEvent ELSE history[Len(history)].sequence) \in Nat \cup {NoEvent}
    <3>1. ASSUME history # <<>> PROVE history[Len(history)] \in Event
      BY <1>1, <3>1
    <3> QED
      BY <3>1 DEF Event
  <2>2. [sub EXCEPT !.stage = "streaming", !.backlog = history,
                    !.floor = IF history = <<>> THEN NoEvent ELSE history[Len(history)].sequence]
          \in Subscription
    BY <1>1, <2>1 DEF Subscription
  <2> QED
    BY <1>6, <1>7, <1>11, <2>2 DEF Snapshot, TypeOK
<1>12. CASE DeliverBacklog(c)
  <2>1. Head(sub.backlog) \in Event /\ Tail(sub.backlog) \in Seq(Event)
    BY <1>2, <1>12 DEF DeliverBacklog
  <2>2. [sub EXCEPT !.backlog = Tail(@)] \in Subscription
    BY <1>1, <1>4, <2>1
  <2> QED
    BY <1>6, <1>8, <1>12, <2>1, <2>2 DEF DeliverBacklog, TypeOK
<1>13. CASE DeliverLive(c)
  <2>1. Head(sub.queue) \in Event /\ Tail(sub.queue) \in Seq(Event)
    BY <1>2, <1>13 DEF DeliverLive
  <2>2. [sub EXCEPT !.queue = Tail(@)] \in Subscription
    BY <1>1, <1>4, <2>1
  <2>3. stream' \in [Clients -> [sub : Subscription, received : Seq(Event)]]
    <3>1. CASE Deliver(c, Head(sub.queue), [sub EXCEPT !.queue = Tail(@)])
      BY <1>8, <2>1, <2>2, <3>1
    <3>2. CASE stream' = [stream EXCEPT ![c].sub = [sub EXCEPT !.queue = Tail(@)]]
      BY <1>1, <2>2, <3>2 DEF TypeOK
    <3> QED
      BY <1>13, <3>1, <3>2 DEF DeliverLive
  <2> QED
    BY <1>6, <1>13, <2>3 DEF DeliverLive, TypeOK
<1> QED
  BY <1>9, <1>10, <1>11, <1>12, <1>13 DEF Follow

LEMMA TypeOKInit == Init => TypeOK
<1> SUFFICES ASSUME Init PROVE TypeOK
  OBVIOUS
<1>1. NotEmitting \in Emission /\ Unfollowed \in Subscription
  BY DEF NotEmitting, Emission, Event, Kinds, Unfollowed, Subscription
<1>2. worker \in Computation
  BY StudioAssumption DEF Init, Computation
<1> QED
  BY <1>1, <1>2, StudioAssumption DEF Init, TypeOK, Statuses, Steps

LEMMA TypeOKNext == TypeOK /\ [Next]_vars => TypeOK'
<1> SUFFICES ASSUME TypeOK, [Next]_vars PROVE TypeOK'
  OBVIOUS
<1>1. CASE UNCHANGED vars
  BY <1>1 DEF vars, record, compute, TypeOK
<1> QED
  BY <1>1, WorkerType, ExecuteType, EmitType, FinishCancelledType, HandlerType, StreamType DEF Next

(* The run record, the channels, the pending emissions and every stream     *)
(* stay well formed, whatever handlers and clients do and leave undone.     *)
THEOREM TypeCorrect == Spec => []TypeOK
  BY TypeOKInit, TypeOKNext, PTL DEF Spec
-----------------------------------------------------------------------------
(* Sequence numbers.  Four kinds of step concern them. *)

LEMMA EmissionSteps ==
  ASSUME TypeOK, [Next]_vars
  PROVE  \/ \E a \in Actors : \E step, kind, next : Announce(a, step, kind, next)
         \/ \E a \in Actors : Emit(a)
         \/ \E c \in Callers : Hangup(c)
         \/ /\ UNCHANGED <<history, nextSequence, pending>>
            /\ budget'.disconnects <= budget.disconnects
<1> DEFINE Quiet == /\ UNCHANGED <<history, nextSequence, pending>>
                    /\ budget'.disconnects <= budget.disconnects
           Announced == \E a \in Actors : \E step, kind, next : Announce(a, step, kind, next)
<1> USE ActorsAreActors
<1>1. budget \in [requests : Nat, disconnects : Nat]
  BY DEF TypeOK
<1>2. ASSUME UNCHANGED <<history, nextSequence, pending, budget>> PROVE Quiet
  BY <1>1, <1>2
<1>3. ASSUME NEW a, NEW step, NEW verdict, NEW next, Settle(a, step, verdict, next) PROVE Quiet
  BY <1>2, <1>3 DEF Settle
<1>4. CASE Worker
  BY <1>2, <1>4 DEF Worker, Checkpoint, CheckpointCancelled, SendProgress, SendObservation,
                    SendFrame, Compute, record
<1>5. CASE Execute
  <2>1. CASE Spawn \/ Abandon \/ Receive \/ Join \/ StoreArtifact
    BY <1>2, <2>1 DEF Spawn, Abandon, Receive, Join, StoreArtifact, Silent, record
  <2> QED
    BY <1>3, <1>5, <2>1 DEF Execute
<1>6. ASSUME NEW a \in Actors, FinishCancelled(a) PROVE Announced \/ Quiet
  BY <1>3, <1>6 DEF FinishCancelled
<1>7. ASSUME NEW c \in Callers, BeginCancel(c) \/ BeginPause(c) \/ BeginResume(c) PROVE Quiet
  <2>1. budget' = [budget EXCEPT !.requests = @ - 1]
    BY <1>7 DEF BeginCancel, BeginPause, BeginResume, Accept
  <2> QED
    BY <1>1, <1>7, <2>1 DEF BeginCancel, BeginPause, BeginResume, record
<1>8. ASSUME NEW c \in Callers, Handle(c) PROVE Announced \/ Quiet
  <2>1. ASSUME NEW step, NEW flags, NEW next, Control(c, step, flags, next) PROVE Quiet
    BY <1>2, <2>1 DEF Control
  <2> QED
    BY <1>3, <1>8, <2>1 DEF Handle, Cancel, Pause, Resume
<1>9. ASSUME NEW c \in Clients, Subscribe(c) \/ Follow(c) PROVE Quiet
  BY <1>2, <1>9 DEF Subscribe, Follow, Snapshot, DeliverBacklog, DeliverLive, Stream, Server, record
<1>10. ASSUME NEW c \in Clients, Reconnect(c) PROVE Quiet
  <2>1. UNCHANGED <<history, nextSequence, pending>>
    BY <1>10 DEF Reconnect, Stream, Server, record
  <2> QED
    BY <1>1, <1>10, <2>1 DEF Reconnect
<1>11. CASE UNCHANGED vars
  BY <1>2, <1>11 DEF vars, record
<1> QED
  BY <1>4, <1>5, <1>6, <1>7, <1>8, <1>9, <1>10, <1>11 DEF Next

(* What the emission steps do to a number. *)
LEMMA AnnouncedNumber ==
  ASSUME TypeOK, NEW a \in Actors, NEW step, NEW kind, NEW next, Announce(a, step, kind, next)
  PROVE  /\ ~Numbered(a) /\ Numbered(a)'
         /\ pending'[a].event.sequence = nextSequence
         /\ nextSequence' = nextSequence + 1
         /\ history' = history /\ budget' = budget
         /\ \A b \in Actors \ {a} : pending'[b] = pending[b]
  BY DEF Announce, At, Emitting, Numbered, TypeOK

LEMMA EmittedNumber ==
  ASSUME TypeOK, NEW a \in Actors, Emit(a)
  PROVE  /\ nextSequence' = nextSequence /\ budget' = budget
         /\ \A b \in Actors \ {a} : pending'[b] = pending[b]
         /\ \/ /\ history' = history /\ Numbered(a) = Numbered(a)'
               /\ Numbered(a) => pending'[a].event = pending[a].event
            \/ /\ history' = Append(history, pending[a].event)
               /\ Numbered(a) /\ ~Numbered(a)'
<1>1. pending[a] \in Emission
  BY DEF TypeOK
<1>2. CASE EmitSummary(a)
  <2>1. pending'[a] = [pending[a] EXCEPT !.at = "history"]
    BY <1>2 DEF EmitSummary, TypeOK
  <2>2. pending'[a].at = "history" /\ pending'[a].event = pending[a].event
    BY <1>1, <2>1 DEF Emission
  <2> QED
    BY <1>2, <2>2 DEF EmitSummary, Numbered, TypeOK
<1>3. CASE EmitHistory(a)
  <2>1. pending'[a] = [pending[a] EXCEPT !.at = "streams"]
    BY <1>3 DEF EmitHistory, TypeOK
  <2>2. pending'[a].at = "streams"
    BY <1>1, <2>1 DEF Emission
  <2> QED
    BY <1>3, <2>2 DEF EmitHistory, Numbered, TypeOK
<1>4. CASE EmitStreams(a)
  <2>1. pending'[a].at = "nowhere"
    BY <1>4 DEF EmitStreams, TypeOK, NotEmitting
  <2> QED
    BY <1>4, <2>1 DEF EmitStreams, Numbered, TypeOK, record
<1> QED
  BY <1>2, <1>3, <1>4 DEF Emit

(* Pushing an event keeps the earlier ones and adds its number. *)
LEMMA Pushed ==
  ASSUME NEW h \in Seq(Event), NEW e \in Event
  PROVE  /\ DOMAIN h \subseteq DOMAIN Append(h, e)
         /\ \A i \in DOMAIN h : Append(h, e)[i] = h[i]
         /\ Len(h) + 1 \in DOMAIN Append(h, e)
         /\ Append(h, e)[Len(h) + 1] = e
         /\ \A i \in DOMAIN Append(h, e) : i \in DOMAIN h \/ i = Len(h) + 1
<1>1. /\ DOMAIN h = 1 .. Len(h) /\ DOMAIN Append(h, e) = 1 .. Len(h) + 1
      /\ Len(h) \in Nat
  OBVIOUS
<1> QED
  BY <1>1
LEMMA HistoryNumbers ==
  ASSUME TypeOK, NEW i \in DOMAIN history
  PROVE  history[i] \in Event /\ history[i].sequence \in Nat
<1>1. history \in Seq(Event)
  BY DEF TypeOK
<1>2. history[i] \in Event
  BY <1>1
<1> QED
  BY <1>2 DEF Event

LEMMA SequenceInvNext ==
  ASSUME TypeOK, SequenceInv, [Next]_vars
  PROVE  SequenceInv'
<1> USE DEF SequenceInv
<1>1. /\ history \in Seq(Event) /\ nextSequence \in Nat
      /\ \A a \in Actors : pending[a].event \in Event /\ pending[a].event.sequence \in Nat
      /\ \A i \in DOMAIN history : history[i].sequence \in Nat
  BY HistoryNumbers DEF TypeOK, Emission, Event
<1>2. ASSUME NEW a \in Actors, NEW step, NEW kind, NEW next, Announce(a, step, kind, next)
      PROVE  SequenceInv'
  <2>1. /\ ~Numbered(a) /\ Numbered(a)'
        /\ pending'[a].event.sequence = nextSequence
        /\ nextSequence' = nextSequence + 1
        /\ history' = history
        /\ \A b \in Actors \ {a} : pending'[b] = pending[b]
    BY <1>2, AnnouncedNumber
  <2>2. \A b \in Actors \ {a} : Numbered(b)' = Numbered(b)
    BY <2>1 DEF Numbered
  <2>3. \A i \in DOMAIN history' : history'[i].sequence < nextSequence'
    BY <1>1, <2>1
  <2>4. \A i, j \in DOMAIN history' : history'[i].sequence = history'[j].sequence => i = j
    BY <2>1
  <2>5. ASSUME NEW b \in Actors, Numbered(b)'
        PROVE  /\ pending'[b].event.sequence < nextSequence'
               /\ \A i \in DOMAIN history' : history'[i].sequence # pending'[b].event.sequence
    BY <1>1, <2>1, <2>2, <2>5
  <2>6. ASSUME NEW b \in Actors, NEW d \in Actors, Numbered(b)', Numbered(d)',
               pending'[b].event.sequence = pending'[d].event.sequence
        PROVE  b = d
    BY <1>1, <2>1, <2>2, <2>6
  <2> QED
    BY <2>3, <2>4, <2>5, <2>6
<1>3. ASSUME NEW a \in Actors, Emit(a)
      PROVE  SequenceInv'
  <2>1. /\ nextSequence' = nextSequence
        /\ \A b \in Actors \ {a} : pending'[b] = pending[b]
    BY <1>3, EmittedNumber
  <2>2. \A b \in Actors \ {a} : Numbered(b)' = Numbered(b)
    BY <2>1 DEF Numbered
  <2>3. CASE /\ history' = history /\ Numbered(a) = Numbered(a)'
             /\ Numbered(a) => pending'[a].event = pending[a].event
    <3>1. \A b \in Actors : Numbered(b)' =>
            Numbered(b) /\ pending'[b].event = pending[b].event
      BY <2>1, <2>2, <2>3
    <3> QED
      BY <2>1, <2>3, <3>1
  <2>4. CASE history' = Append(history, pending[a].event) /\ Numbered(a) /\ ~Numbered(a)'
    <3> DEFINE e == pending[a].event
               n == Len(history) + 1
    <3>1. /\ \A i \in DOMAIN history' : i \in DOMAIN history \/ i = n
          /\ \A i \in DOMAIN history : history'[i] = history[i]
          /\ history'[n] = e
      BY <1>1, <2>4, Pushed
    <3>2. \A b \in Actors : Numbered(b)' =>
            Numbered(b) /\ pending'[b].event = pending[b].event /\ b # a
      BY <2>1, <2>2, <2>4
    <3>3. /\ e.sequence < nextSequence
          /\ \A i \in DOMAIN history : history[i].sequence # e.sequence
          /\ \A b \in Actors \ {a} : Numbered(b) => pending[b].event.sequence # e.sequence
      BY <2>4
    <3> HIDE DEF e, n
    <3>4. \A i \in DOMAIN history' : history'[i].sequence < nextSequence'
      BY <2>1, <3>1, <3>3
    <3>5. \A i, j \in DOMAIN history' : history'[i].sequence = history'[j].sequence => i = j
      BY <3>1, <3>3
    <3>6. ASSUME NEW b \in Actors, Numbered(b)'
          PROVE  /\ pending'[b].event.sequence < nextSequence'
                 /\ \A i \in DOMAIN history' : history'[i].sequence # pending'[b].event.sequence
      BY <2>1, <3>1, <3>2, <3>3, <3>6
    <3>7. ASSUME NEW b \in Actors, NEW d \in Actors, Numbered(b)', Numbered(d)',
                 pending'[b].event.sequence = pending'[d].event.sequence
          PROVE  b = d
      BY <3>2, <3>7
    <3> QED
      BY <3>4, <3>5, <3>6, <3>7
  <2> QED
    BY <1>3, <2>3, <2>4, EmittedNumber
<1>4. ASSUME NEW c \in Callers, Hangup(c)
      PROVE  SequenceInv'
  <2>1. UNCHANGED <<history, nextSequence>> /\ pending' = [pending EXCEPT ![c] = NotEmitting]
    BY <1>4 DEF Hangup, record
  <2>2. \A b \in Actors : Numbered(b)' => Numbered(b) /\ pending'[b] = pending[b]
    BY <2>1 DEF Numbered, NotEmitting, TypeOK
  <2> QED
    BY <2>1, <2>2
<1>5. CASE UNCHANGED <<history, nextSequence, pending>>
  BY <1>5 DEF Numbered
<1> QED
  BY <1>2, <1>3, <1>4, <1>5, EmissionSteps

LEMMA CoverInvNext ==
  ASSUME TypeOK, CoverInv, [Next]_vars
  PROVE  CoverInv'
<1> USE DEF CoverInv
<1> DEFINE In(n) == \E i \in DOMAIN history : history[i].sequence = n
           With(n) == \E a \in Actors : Numbered(a) /\ pending[a].event.sequence = n
<1>1. /\ history \in Seq(Event) /\ nextSequence \in Nat /\ Disconnects \in Nat
      /\ \A a \in Actors : pending[a].event \in Event
      /\ budget.disconnects \in Nat /\ budget'.disconnects \in Nat
  BY StudioAssumption, TypeOKNext DEF TypeOK, Emission
<1>2. ASSUME NEW a \in Actors, NEW step, NEW kind, NEW next, Announce(a, step, kind, next)
      PROVE  CoverInv'
  <2>1. /\ ~Numbered(a) /\ Numbered(a)'
        /\ pending'[a].event.sequence = nextSequence
        /\ nextSequence' = nextSequence + 1
        /\ history' = history /\ budget' = budget
        /\ \A b \in Actors \ {a} : pending'[b] = pending[b]
    BY <1>2, AnnouncedNumber
  <2>2. \A b \in Actors : Numbered(b) => Numbered(b)' /\ pending'[b] = pending[b]
    BY <2>1 DEF Numbered
  <2>3. ASSUME NEW n \in 0 .. nextSequence' - 1, In(n) \/ With(n) \/ n = nextSequence
        PROVE  In(n)' \/ With(n)'
    BY <2>1, <2>2, <2>3
  <2>4. ASSUME NEW n \in 0 .. nextSequence' - 1
        PROVE  n \in 0 .. nextSequence - 1 \/ n = nextSequence
    BY <1>1, <2>1
  <2> QED
    BY <2>1, <2>3, <2>4
<1>3. ASSUME NEW a \in Actors, Emit(a)
      PROVE  CoverInv'
  <2>1. /\ nextSequence' = nextSequence /\ budget' = budget
        /\ \A b \in Actors \ {a} : pending'[b] = pending[b]
    BY <1>3, EmittedNumber
  <2>2. \A b \in Actors \ {a} : Numbered(b)' = Numbered(b)
    BY <2>1 DEF Numbered
  <2>3. CASE /\ history' = history /\ Numbered(a) = Numbered(a)'
             /\ Numbered(a) => pending'[a].event = pending[a].event
    <3>1. \A b \in Actors : Numbered(b) =>
            Numbered(b)' /\ pending'[b].event = pending[b].event
      BY <2>1, <2>2, <2>3
    <3>2. \A n : In(n) \/ With(n) => In(n)' \/ With(n)'
      BY <2>3, <3>1
    <3> QED
      BY <2>1, <3>2
  <2>4. CASE history' = Append(history, pending[a].event) /\ Numbered(a) /\ ~Numbered(a)'
    <3>1. /\ DOMAIN history \subseteq DOMAIN history'
          /\ \A i \in DOMAIN history : history'[i] = history[i]
          /\ Len(history) + 1 \in DOMAIN history'
          /\ history'[Len(history) + 1] = pending[a].event
      BY <1>1, <2>4, Pushed
    <3>2. \A n : In(n) \/ n = pending[a].event.sequence => In(n)'
      BY <3>1
    <3>3. \A n : With(n) => n = pending[a].event.sequence \/ With(n)'
      BY <2>1, <2>2
    <3> QED
      BY <2>1, <3>2, <3>3
  <2> QED
    BY <1>3, <2>3, <2>4, EmittedNumber
<1>4. ASSUME NEW c \in Callers, Hangup(c)
      PROVE  CoverInv'
  <2>1. budget'.disconnects = budget.disconnects - 1
    BY <1>4 DEF Hangup, TypeOK
  <2> QED
    BY <1>1, <2>1
<1>5. CASE UNCHANGED <<history, nextSequence, pending>> /\ budget'.disconnects <= budget.disconnects
  <2>1. \A n : In(n) \/ With(n) => In(n)' \/ With(n)'
    BY <1>5 DEF Numbered
  <2>2. budget'.disconnects = Disconnects => budget.disconnects = Disconnects
    BY <1>1, <1>5
  <2>3. budget'.disconnects <= Disconnects
    BY <1>1, <1>5
  <2>4. ASSUME budget'.disconnects = Disconnects, NEW n \in 0 .. nextSequence' - 1
        PROVE  In(n)' \/ With(n)'
    <3>1. In(n) \/ With(n)
      BY <1>5, <2>2, <2>4
    <3> QED
      BY <2>1, <3>1
  <2> QED
    BY <2>3, <2>4
<1> QED
  BY <1>2, <1>3, <1>4, <1>5, EmissionSteps

LEMMA NumbersInit == Init => SequenceInv /\ CoverInv
<1> SUFFICES ASSUME Init PROVE SequenceInv /\ CoverInv
  OBVIOUS
<1>1. \A a \in Actors : ~Numbered(a)
  BY DEF Init, Numbered, NotEmitting
<1>2. DOMAIN history = {} /\ nextSequence = 0 /\ budget.disconnects = Disconnects
  BY DEF Init
<1> QED
  BY <1>1, <1>2, StudioAssumption DEF SequenceInv, CoverInv

LEMMA NumbersNameEvents == TypeOK /\ SequenceInv /\ CoverInv => SequencesNameEvents
<1> SUFFICES ASSUME TypeOK, SequenceInv, CoverInv, budget.disconnects = Disconnects,
                    ~(\E a \in Actors : Emitting(a))
             PROVE  {history[i].sequence : i \in DOMAIN history} = 0 .. nextSequence - 1
  BY DEF SequencesNameEvents, SequenceInv
<1>1. \A a \in Actors : ~Numbered(a)
  BY DEF Emitting, Numbered
<1>2. \A i \in DOMAIN history : history[i].sequence \in Nat /\ history[i].sequence < nextSequence
  BY HistoryNumbers DEF SequenceInv
<1>3. nextSequence \in Nat
  BY DEF TypeOK
<1>4. \A i \in DOMAIN history : history[i].sequence \in 0 .. nextSequence - 1
  BY <1>2, <1>3
<1>5. \A n \in 0 .. nextSequence - 1 : \E i \in DOMAIN history : history[i].sequence = n
  BY <1>1 DEF CoverInv
<1> QED
  BY <1>4, <1>5

(* The de-duplication by sequence in the page never drops an event it has   *)
(* not seen, and absent dropped handlers no number is skipped: for any      *)
(* number of handlers emitting at once.                                     *)
THEOREM SequencesAlwaysNameEvents == Spec => []SequencesNameEvents
<1>1. Init => TypeOK /\ SequenceInv /\ CoverInv
  BY TypeOKInit, NumbersInit
<1>2. TypeOK /\ SequenceInv /\ CoverInv /\ [Next]_vars => (TypeOK /\ SequenceInv /\ CoverInv)'
  BY TypeOKNext, SequenceInvNext, CoverInvNext
<1> QED
  BY <1>1, <1>2, NumbersNameEvents, PTL DEF Spec
-----------------------------------------------------------------------------
(* Cancellation, the artifact and the pause gate.  The steps of Next once   *)
(* more, for the variables these three speak of.                            *)

LEMMA CancelInvNext ==
  ASSUME TypeOK, CancelInv, [Next]_vars
  PROVE  CancelInv'
<1> USE ActorsAreActors, StudioAssumption DEF CancelInv
<1>1. /\ pc \in [Actors -> Steps] /\ "executor" \notin Callers
      /\ generation \in Nat
      /\ control \in [paused : BOOLEAN, cancelled : BOOLEAN]
      /\ worker \in Computation
  BY DEF TypeOK
<1>2. ASSUME UNCHANGED <<pc, generation, control, worker>> PROVE CancelInv'
  BY <1>2
<1>3. CASE Worker
  <2>1. UNCHANGED <<pc, generation, control>>
    BY <1>3 DEF Worker, Checkpoint, CheckpointCancelled, SendProgress, SendObservation,
                SendFrame, Compute, record
  <2>2. worker'.result = "Cancelled" => worker.result = "Cancelled" \/ control.cancelled
    BY <1>1, <1>3 DEF Worker, Checkpoint, CheckpointCancelled, SendProgress, SendObservation,
                      SendFrame, Compute, Computation
  <2> QED
    BY <2>1, <2>2
<1>4. CASE Execute
  <2>1. UNCHANGED <<generation, control>>
    BY <1>4 DEF Execute, Announce, Spawn, Abandon, Receive, Join, StoreArtifact, Settle,
                Silent, record
  <2>2. worker'.result = worker.result
    BY <1>1, <1>4 DEF Execute, Announce, Spawn, Abandon, Receive, Join, StoreArtifact, Settle,
                      compute, Computation
  <2>3. ASSUME NEW c \in Callers PROVE pc'[c] = pc[c]
    BY <1>1, <1>4 DEF Execute, Announce, Spawn, Abandon, Receive, Join, StoreArtifact, Settle, Goto
  <2>4. pc'["executor"] \notin {"cancelled", "announceCancelled"}
    <3>1. CASE Receive
      <4>1. Head(updates) \in Updates
        BY <3>1 DEF Receive, TypeOK
      <4> QED
        BY <1>1, <3>1, <4>1 DEF Receive, Goto, Updates
    <3>2. CASE Join
      BY <1>1, <3>2 DEF Join, Goto
    <3> QED
      BY <1>1, <1>4, <3>1, <3>2 DEF Execute, Announce, Spawn, Abandon, StoreArtifact, Settle, Goto
  <2> QED
    BY <2>1, <2>2, <2>3, <2>4
<1>5. ASSUME NEW a \in Actors, Emit(a) PROVE CancelInv'
  BY <1>2, <1>5 DEF Emit, EmitSummary, EmitHistory, EmitStreams, record, compute
<1>6. ASSUME NEW a \in Actors, FinishCancelled(a) PROVE CancelInv'
  <2>1. a \in Callers /\ pc[a] \in {"cancelled", "announceCancelled"}
    BY <1>6 DEF FinishCancelled, Settle, Announce, At, Actors
  <2>2. UNCHANGED <<generation, control, worker>>
    BY <1>6 DEF FinishCancelled, Settle, Announce, compute
  <2>3. pc' = [pc EXCEPT ![a] = "announceCancelled"] \/ pc' = [pc EXCEPT ![a] = "idle"]
    BY <1>1, <1>6, <2>1 DEF FinishCancelled, Settle, Announce, Goto
  <2> QED
    BY <1>1, <2>1, <2>2, <2>3
<1>7. ASSUME NEW c \in Callers, BeginCancel(c) PROVE CancelInv'
  <2>1. generation' > 1
    BY <1>7 DEF BeginCancel, TypeOK
  <2>2. UNCHANGED <<control, worker>>
    BY <1>7 DEF BeginCancel, compute
  <2> QED
    BY <1>1, <1>7, <2>1, <2>2 DEF BeginCancel, Goto
<1>8. ASSUME NEW c \in Callers, BeginPause(c) \/ BeginResume(c) PROVE CancelInv'
  BY <1>1, <1>8 DEF BeginPause, BeginResume, Goto, record, compute
<1>9. ASSUME NEW c \in Callers, Cancel(c) PROVE CancelInv'
  BY <1>1, <1>9 DEF Cancel, Control, At, Goto, compute
<1>10. ASSUME NEW c \in Callers, Pause(c) \/ Resume(c) PROVE CancelInv'
  BY <1>1, <1>10 DEF Pause, Resume, Control, Goto, compute
<1>11. ASSUME NEW c \in Callers,
              \/ Settle(c, "paused", "Paused", "announcePaused")
              \/ Announce(c, "announcePaused", "RunPaused", "idle")
              \/ Announce(c, "announceResumed", "RunResumed", "idle")
       PROVE  CancelInv'
  BY <1>1, <1>11 DEF Settle, Announce, Goto, compute
<1>12. ASSUME NEW c \in Callers, Hangup(c) PROVE CancelInv'
  BY <1>1, <1>12 DEF Hangup, Goto, record, compute
<1>13. ASSUME NEW c \in Clients, Subscribe(c) \/ Reconnect(c) \/ Follow(c) PROVE CancelInv'
  BY <1>2, <1>13 DEF Subscribe, Reconnect, Follow, Snapshot, DeliverBacklog, DeliverLive, Stream,
                     Server, record, compute
<1>14. CASE UNCHANGED vars
  BY <1>2, <1>14 DEF vars, record, compute
<1> QED
  BY <1>3, <1>4, <1>5, <1>6, <1>7, <1>8, <1>9, <1>10, <1>11, <1>12, <1>13, <1>14 DEF Next, Handle

LEMMA CancelInvInit == Init => CancelInv
  BY ActorsAreActors, StudioAssumption DEF Init, CancelInv

(* The RunCancelled event and the Cancelled status always come from         *)
(* cancel_run: the executor's own arm for a cancelled computation is dead,  *)
(* as the generation moves on before the computation can be told.           *)
THEOREM ExecutorNeverCancelsAtAll == Spec => []ExecutorNeverCancels
<1>1. TypeOK /\ CancelInv /\ [Next]_vars => (TypeOK /\ CancelInv)'
  BY TypeOKNext, CancelInvNext
<1>2. CancelInv => ExecutorNeverCancels
  BY DEF CancelInv, ExecutorNeverCancels
<1> QED
  BY <1>1, <1>2, TypeOKInit, CancelInvInit, PTL DEF Spec
(* Only the executor, late in its run, touches the artifact or emits of it. *)
LEMMA ArtifactInvNext ==
  ASSUME TypeOK, ArtifactInv, CancelInv, [Next]_vars
  PROVE  ArtifactInv'
<1> USE ActorsAreActors, StudioAssumption DEF ArtifactInv, CompletionIsFetchable
<1>1. /\ pc \in [Actors -> Steps] /\ "executor" \notin Callers
      /\ pending \in [Actors -> Emission] /\ history \in Seq(Event)
      /\ artifact \subseteq {"store", "summary"}
  BY DEF TypeOK
<1>2. ASSUME UNCHANGED <<artifact, history, pending>>,
             pc'["executor"] = pc["executor"]
                \/ pc'["executor"] \notin {"publish", "completed", "announceCompleted"}
      PROVE  ArtifactInv'
  BY <1>2
<1>3. ASSUME NEW a \in Actors, NEW step, NEW kind, NEW next, Announce(a, step, kind, next),
             kind \notin {"ArtifactPublished", "RunCompleted"},
             next \notin {"publish", "completed", "announceCompleted"}
      PROVE  ArtifactInv'
  <2>1. /\ pending' = [pending EXCEPT ![a] =
             [at |-> "summary", event |-> [kind |-> kind, sequence |-> nextSequence]]]
        /\ pc' = [pc EXCEPT ![a] = next]
        /\ UNCHANGED <<artifact, history>>
    BY <1>3 DEF Announce, Goto
  <2>2. \A b \in Actors : pending'[b].event.kind = kind \/ pending'[b] = pending[b]
    BY <1>1, <2>1
  <2> QED
    BY <1>1, <1>3, <2>1, <2>2
<1>4. CASE Worker
  BY <1>2, <1>4 DEF Worker, Checkpoint, CheckpointCancelled, SendProgress, SendObservation,
                    SendFrame, Compute, record
<1>5. CASE Execute
  <2>1. CASE Announce("executor", "start", "RunStarted", "spawn")
               \/ Announce("executor", "announceFailed", "RunFailed", "done")
    BY <1>3, <2>1
  <2>2. ASSUME NEW update \in Updates, Announce("executor", update, update, "receive")
        PROVE  ArtifactInv'
    BY <1>3, <2>2 DEF Updates
  <2>3. CASE Spawn \/ Abandon \/ Join
    BY <1>1, <1>2, <2>3 DEF Spawn, Abandon, Join, Goto, Silent, record
  <2>4. CASE Receive
    <3>1. Head(updates) \in Updates
      BY <2>4 DEF Receive, TypeOK
    <3> QED
      BY <1>1, <1>2, <2>4, <3>1 DEF Receive, Goto, Silent, record, Updates
  <2>5. CASE StoreArtifact
    BY <1>1, <2>5 DEF StoreArtifact, Goto
  <2>6. CASE Announce("executor", "publish", "ArtifactPublished", "completed")
    <3>1. /\ pending' = [pending EXCEPT !["executor"] =
               [at |-> "summary",
                event |-> [kind |-> "ArtifactPublished", sequence |-> nextSequence]]]
          /\ pc' = [pc EXCEPT !["executor"] = "completed"] /\ pc["executor"] = "publish"
          /\ UNCHANGED <<artifact, history>>
      BY <2>6 DEF Announce, Goto, At
    <3>2. \A b \in Actors :
            pending'[b].event.kind = "ArtifactPublished" \/ pending'[b] = pending[b]
      BY <1>1, <3>1
    <3> QED
      BY <1>1, <3>1, <3>2
  <2>7. CASE Settle("executor", "completed", "Completed", "announceCompleted")
    <3>1. /\ artifact' = artifact \cup {"summary"} /\ pc["executor"] = "completed"
          /\ UNCHANGED <<pending, history>>
      BY <2>7 DEF Settle, At
    <3>2. artifact' = {"store", "summary"}
      BY <1>1, <3>1
    <3> QED
      BY <3>1, <3>2
  <2>8. CASE Announce("executor", "announceCompleted", "RunCompleted", "done")
    <3>1. /\ pending' = [pending EXCEPT !["executor"] =
               [at |-> "summary",
                event |-> [kind |-> "RunCompleted", sequence |-> nextSequence]]]
          /\ pc' = [pc EXCEPT !["executor"] = "done"] /\ pc["executor"] = "announceCompleted"
          /\ UNCHANGED <<artifact, history>>
      BY <2>8 DEF Announce, Goto, At
    <3>2. \A b \in Actors :
            pending'[b].event.kind = "RunCompleted" \/ pending'[b] = pending[b]
      BY <1>1, <3>1
    <3>3. artifact = {"store", "summary"}
      BY <1>1, <3>1
    <3> QED
      BY <1>1, <3>1, <3>2, <3>3
  <2>9. CASE Settle("executor", "failed", "Failed", "announceFailed")
    BY <1>1, <1>2, <2>9 DEF Settle, Goto
  <2> QED
    BY <1>5, <2>1, <2>2, <2>3, <2>4, <2>5, <2>6, <2>7, <2>8, <2>9 DEF Execute
<1>6. ASSUME NEW a \in Actors, Emit(a) PROVE ArtifactInv'
  <2>1. UNCHANGED <<artifact, pc>>
    BY <1>6 DEF Emit, EmitSummary, EmitHistory, EmitStreams, record
  <2>2. \A b \in Actors : \/ pending'[b].event = pending[b].event
                         \/ pending'[b].event.kind = "RunStarted"
    BY <1>1, <1>6 DEF Emit, EmitSummary, EmitHistory, EmitStreams, NotEmitting, Emission
  <2>3. history' = history \/ history' = Append(history, pending[a].event)
    BY <1>6 DEF Emit, EmitSummary, EmitHistory, EmitStreams, record
  <2>4. \A i \in DOMAIN history' :
          \/ i \in DOMAIN history /\ history'[i] = history[i]
          \/ history'[i] = pending[a].event
    <3>1. pending[a].event \in Event
      BY <1>1 DEF Emission
    <3> QED
      BY <1>1, <2>3, <3>1, Pushed
  <2> QED
    BY <1>1, <2>1, <2>2, <2>4
<1>7. ASSUME NEW a \in Actors, FinishCancelled(a) PROVE ArtifactInv'
  <2>1. CASE Settle(a, "cancelled", "Cancelled", "announceCancelled")
    BY <1>1, <1>2, <2>1 DEF Settle, Goto
  <2>2. ASSUME NEW next \in {"done", "idle"}, Announce(a, "announceCancelled", "RunCancelled", next)
        PROVE  ArtifactInv'
    BY <1>3, <2>2
  <2> QED
    BY <1>7, <2>1, <2>2 DEF FinishCancelled
<1>8. ASSUME NEW c \in Callers, BeginCancel(c) \/ BeginPause(c) \/ BeginResume(c)
      PROVE  ArtifactInv'
  <2>1. pc'["executor"] = pc["executor"]
    BY <1>1, <1>8 DEF BeginCancel, BeginPause, BeginResume, Goto
  <2>2. UNCHANGED <<artifact, history, pending>>
    BY <1>8 DEF BeginCancel, BeginPause, BeginResume, record
  <2> QED
    BY <1>2, <2>1, <2>2
<1>9. ASSUME NEW c \in Callers, Handle(c) PROVE ArtifactInv'
  <2>1. CASE Cancel(c) \/ Pause(c) \/ Resume(c)
    BY <1>1, <1>2, <2>1 DEF Cancel, Pause, Resume, Control, Goto
  <2>2. CASE Settle(c, "paused", "Paused", "announcePaused")
    BY <1>1, <1>2, <2>2 DEF Settle, Goto
  <2>3. CASE Announce(c, "announcePaused", "RunPaused", "idle")
               \/ Announce(c, "announceResumed", "RunResumed", "idle")
    BY <1>3, <2>3
  <2> QED
    BY <1>9, <2>1, <2>2, <2>3 DEF Handle
<1>10. ASSUME NEW c \in Callers, Hangup(c) PROVE ArtifactInv'
  <2>1. /\ UNCHANGED <<artifact, history>> /\ pending' = [pending EXCEPT ![c] = NotEmitting]
        /\ pc'["executor"] = pc["executor"]
    BY <1>1, <1>10 DEF Hangup, Goto, record
  <2>2. \A b \in Actors : pending'[b] = pending[b] \/ pending'[b].event.kind = "RunStarted"
    BY <1>1, <2>1 DEF NotEmitting
  <2> QED
    BY <1>1, <2>1, <2>2
<1>11. ASSUME NEW c \in Clients, Subscribe(c) \/ Reconnect(c) \/ Follow(c) PROVE ArtifactInv'
  BY <1>2, <1>11 DEF Subscribe, Reconnect, Follow, Snapshot, DeliverBacklog, DeliverLive, Stream,
                     Server, record
<1>12. CASE UNCHANGED vars
  BY <1>2, <1>12 DEF vars, record
<1> QED
  BY <1>4, <1>5, <1>6, <1>7, <1>8, <1>9, <1>10, <1>11, <1>12 DEF Next

LEMMA ArtifactInvInit == Init => ArtifactInv
<1> SUFFICES ASSUME Init PROVE ArtifactInv
  OBVIOUS
<1>1. /\ \A a \in Actors : pending[a].event.kind = "RunStarted"
      /\ DOMAIN history = {} /\ pc["executor"] = "start"
  BY ActorsAreActors DEF Init, NotEmitting
<1> QED
  BY <1>1 DEF ArtifactInv, CompletionIsFetchable

(* A client that reads of a published artifact can fetch it, and one that   *)
(* reads of completion finds it in the summary, whatever handlers do        *)
(* meanwhile.                                                               *)
THEOREM CompletionAlwaysFetchable == Spec => []CompletionIsFetchable
<1>1. TypeOK /\ CancelInv /\ ArtifactInv /\ [Next]_vars => (TypeOK /\ CancelInv /\ ArtifactInv)'
  BY TypeOKNext, CancelInvNext, ArtifactInvNext
<1>2. ArtifactInv => CompletionIsFetchable
  BY DEF ArtifactInv
<1> QED
  BY <1>1, <1>2, TypeOKInit, CancelInvInit, ArtifactInvInit, PTL DEF Spec
(* The pause gate, for handlers that run to their end. *)
LEMMA GateInvNext ==
  ASSUME TypeOK, CoverInv, CancelInv, GateInv, Disconnects = 0, [Next]_vars
  PROVE  GateInv'
<1> USE ActorsAreActors, StudioAssumption DEF GateInv
<1> DEFINE Settling == {"store", "publish", "completed", "announceCompleted",
                        "failed", "announceFailed"}
           Held == control.paused /\ ~control.cancelled /\ worker.pc # "exited"
           Telling(c) == pc[c] \in {"paused", "openGate"}
<1>1. /\ pc \in [Actors -> Steps] /\ "executor" \notin Callers
      /\ control \in [paused : BOOLEAN, cancelled : BOOLEAN]
      /\ worker \in Computation
  BY DEF TypeOK
<1>2. ASSUME UNCHANGED <<status, control, worker, pc>> PROVE GateInv'
  BY <1>2
<1>3. CASE Worker
  <2>1. UNCHANGED <<status, control, pc>>
    BY <1>3 DEF Worker, Checkpoint, CheckpointCancelled, SendProgress, SendObservation,
                SendFrame, Compute, record
  <2>2. worker.pc \notin {"exited", "unborn"}
    BY <1>3 DEF Worker, Checkpoint, CheckpointCancelled, SendProgress, SendObservation,
                SendFrame, Compute
  <2> QED
    BY <2>1, <2>2
<1>4. CASE Execute
  <2>1. UNCHANGED control
    BY <1>4 DEF Execute, Announce, Spawn, Abandon, Receive, Join, StoreArtifact, Settle,
                Silent, record
  <2>2. ASSUME NEW c \in Callers PROVE pc'[c] = pc[c]
    BY <1>1, <1>4 DEF Execute, Announce, Spawn, Abandon, Receive, Join, StoreArtifact, Settle, Goto
  <2>3. CASE Settle("executor", "completed", "Completed", "announceCompleted")
             \/ Settle("executor", "failed", "Failed", "announceFailed")
    BY <1>1, <2>1, <2>2, <2>3 DEF Settle, At, Goto, compute
  <2>4. CASE Spawn
    <3>1. /\ pc'["executor"] = "receive" /\ worker.pc = "unborn"
          /\ status' = status /\ worker'.pc = "between"
      BY <1>1, <2>4 DEF Spawn, At, Goto, Silent, record, Computation
    <3> QED
      BY <2>1, <2>2, <3>1
  <2>5. CASE Join
    BY <1>1, <2>1, <2>2, <2>5 DEF Join, Goto, Silent, record, compute
  <2>6. CASE Receive
    <3>1. Head(updates) \in Updates
      BY <2>6 DEF Receive, TypeOK
    <3> QED
      BY <1>1, <2>1, <2>2, <2>6, <3>1 DEF Receive, Goto, Silent, record, Updates
  <2>7. CASE Abandon
    BY <1>1, <2>1, <2>2, <2>7 DEF Abandon, Goto, Silent, record
  <2>8. CASE StoreArtifact
    BY <1>1, <2>1, <2>2, <2>8 DEF StoreArtifact, At, Goto, compute
  <2>9. ASSUME NEW step, NEW kind, NEW next, Announce("executor", step, kind, next),
               next \in Settling => step \in Settling,
               next \in {"start", "spawn"} => step = "start"
        PROVE  GateInv'
    BY <1>1, <2>1, <2>2, <2>9 DEF Announce, At, Goto, compute
  <2> QED
    BY <1>4, <2>3, <2>4, <2>5, <2>6, <2>7, <2>8, <2>9 DEF Execute, Updates
<1>5. ASSUME NEW a \in Actors, Emit(a) PROVE GateInv'
  BY <1>2, <1>5 DEF Emit, EmitSummary, EmitHistory, EmitStreams, record, compute
<1>6. ASSUME NEW a \in Actors, FinishCancelled(a) PROVE GateInv'
  <2>1. a \in Callers /\ pc[a] \in {"cancelled", "announceCancelled"} /\ control.cancelled
    BY <1>6 DEF FinishCancelled, Settle, Announce, At, Actors, CancelInv
  <2>2. UNCHANGED <<control, worker>> /\ pc'["executor"] = pc["executor"]
    BY <1>1, <1>6, <2>1 DEF FinishCancelled, Settle, Announce, Goto, compute
  <2> QED
    BY <2>1, <2>2
<1>7. ASSUME NEW c \in Callers, BeginCancel(c) \/ BeginPause(c) PROVE GateInv'
  <2>1. UNCHANGED <<status, control, worker>> /\ pc[c] = "idle"
    BY <1>7 DEF BeginCancel, BeginPause, Accept, At, record, compute
  <2>2. \A b \in Actors : b # c => pc'[b] = pc[b]
    BY <1>1, <1>7 DEF BeginCancel, BeginPause, Goto
  <2> QED
    BY <1>1, <2>1, <2>2
<1>8. ASSUME NEW c \in Callers, BeginResume(c) PROVE GateInv'
  <2>1. UNCHANGED <<control, worker>> /\ pc'[c] = "openGate" /\ pc'["executor"] = pc["executor"]
    BY <1>1, <1>8 DEF BeginResume, Goto, compute
  <2> QED
    BY <2>1
<1>9. ASSUME NEW c \in Callers, Handle(c) PROVE GateInv'
  <2>1. worker' = worker /\ pc'["executor"] = pc["executor"]
    BY <1>1, <1>9 DEF Handle, Cancel, Pause, Resume, Control, Settle, Announce, Goto, compute
  <2>2. \A b \in Actors : b # c => pc'[b] = pc[b]
    BY <1>1, <1>9 DEF Handle, Cancel, Pause, Resume, Control, Settle, Announce, Goto
  <2>3. CASE Cancel(c)
    <3>1. control'.cancelled
      BY <1>1, <2>3 DEF Cancel, Control
    <3> QED
      BY <2>1, <3>1
  <2>4. CASE Pause(c)
    <3>1. pc'[c] = "paused"
      BY <1>1, <2>4 DEF Pause, Control, Goto
    <3> QED
      BY <2>1, <3>1
  <2>5. CASE Resume(c)
    <3>1. ~control'.paused
      BY <1>1, <2>5 DEF Resume, Control
    <3> QED
      BY <2>1, <3>1
  <2>6. CASE Settle(c, "paused", "Paused", "announcePaused")
    <3>1. status' = "Paused"
      BY <2>6 DEF Settle
    <3> QED
      BY <2>1, <3>1
  <2>7. CASE Announce(c, "announcePaused", "RunPaused", "idle")
             \/ Announce(c, "announceResumed", "RunResumed", "idle")
    <3>1. UNCHANGED <<status, control>> /\ pc[c] \in {"announcePaused", "announceResumed"}
      BY <2>7 DEF Announce, At
    <3> QED
      BY <2>1, <2>2, <3>1
  <2> QED
    BY <1>9, <2>3, <2>4, <2>5, <2>6, <2>7 DEF Handle
<1>10. ASSUME NEW c \in Callers, Hangup(c) PROVE GateInv'
  BY <1>10 DEF Hangup, CoverInv, TypeOK
<1>11. ASSUME NEW c \in Clients, Subscribe(c) \/ Reconnect(c) \/ Follow(c) PROVE GateInv'
  BY <1>2, <1>11 DEF Subscribe, Reconnect, Follow, Snapshot, DeliverBacklog, DeliverLive, Stream,
                     Server, record, compute
<1>12. CASE UNCHANGED vars
  BY <1>2, <1>12 DEF vars, record, compute
<1> QED
  BY <1>3, <1>4, <1>5, <1>6, <1>7, <1>8, <1>9, <1>10, <1>11, <1>12 DEF Next

LEMMA GateInvInit == Init => GateInv
  BY ActorsAreActors DEF Init, GateInv

(* Whatever requests race each other and the computation, once they have    *)
(* all been served no computation is held by a gate that the summary does   *)
(* not show, so that no resume is refused while something waits for it.     *)
THEOREM ClosedGateAlwaysVisible ==
  ASSUME Disconnects = 0
  PROVE  Spec => []ClosedGateIsVisible
<1> DEFINE IInv == TypeOK /\ CoverInv /\ CancelInv /\ GateInv
<1>1. Init => IInv
  BY TypeOKInit, NumbersInit, CancelInvInit, GateInvInit
<1>2. IInv /\ [Next]_vars => IInv'
  BY TypeOKNext, CoverInvNext, CancelInvNext, GateInvNext
<1>3. IInv => ClosedGateIsVisible
  BY DEF GateInv, ClosedGateIsVisible, Handling
<1> QED
  BY <1>1, <1>2, <1>3, PTL DEF Spec
-----------------------------------------------------------------------------
(* What a client is promised when it follows a run that no request          *)
(* interferes with, so that the executor is the only actor, and whose       *)
(* events fit the broadcast buffer.  What the promises rest on:             *)

(* Announcements the executor still makes, besides those of the updates.    *)
ToAnnounce(step) ==
  CASE step \in {"start"} \cup Updates                     -> 3
    [] step \in {"spawn", "receive", "store", "publish"}   -> 2
    [] step \in {"completed", "announceCompleted", "failed", "announceFailed",
                 "cancelled", "announceCancelled"}         -> 1
    [] OTHER                                               -> 0

(* Updates the computation still sends. *)
ToSend ==
  CASE worker.pc = "Progress"          -> 2 * worker.left + 2
    [] worker.pc = "SearchObservation" -> 2 * worker.left + 1
    [] OTHER                           -> 2 * worker.left

MostEvents == 2 * Work + 3
EventsInv  == nextSequence + ToAnnounce(pc["executor"]) + Len(updates) + ToSend <= MostEvents

(* A single emitter numbers the events by their places. *)
Placed(h) == \A i \in DOMAIN h : h[i].sequence = i - 1

PlaceInv ==
  LET e == pending["executor"] IN
  /\ Placed(history)
  /\ e.at \in {"nowhere", "streams"} => nextSequence = Len(history)
  /\ e.at \in {"summary", "history"} =>
       nextSequence = Len(history) + 1 /\ e.event.sequence = Len(history)
  /\ e.at = "streams" => history # <<>> /\ e.event = history[Len(history)]

Offered == Len(history) - IF pending["executor"].at = "streams" THEN 1 ELSE 0

(* What h holds after its first so many elements. *)
Part(h, after, s) ==
  /\ after >= 0 /\ after + Len(s) <= Len(h)
  /\ \A i \in DOMAIN s : s[i] = h[after + i]

Taken(offered, s) == offered - Len(s.sub.queue)
Copied(s)         == s.sub.floor + 1
Shown(s)          == Copied(s) - Len(s.sub.backlog)

(* The client has a prefix of the history; the copy and the queue go on     *)
(* where it ends or before, and leave nothing out between them.             *)
Follows(h, offered, s) ==
  /\ Part(h, 0, s.received)
  /\ s.sub.stage \in {"subscribed", "streaming"} => Part(h, Taken(offered, s), s.sub.queue)
  /\ s.sub.stage # "streaming" => s.sub.backlog = <<>>
  /\ s.sub.stage = "streaming" =>
       /\ Part(h, Shown(s), s.sub.backlog)
       /\ Shown(s) <= Len(s.received)
       /\ Taken(offered, s) <= Copied(s) \/ Taken(offered, s) <= Len(s.received)

StreamInv == \A c \in Clients : Follows(history, Offered, stream[c])

(* The events of a run: each update is paid for when the computation goes   *)
(* past the checkpoint, or sends a frame.                                   *)
LEMMA EventsInvInit == Init => EventsInv
<1> SUFFICES ASSUME Init PROVE EventsInv
  OBVIOUS
<1>1. nextSequence = 0 /\ Len(updates) = 0 /\ pc["executor"] = "start"
  BY DEF Init, Actors
<1>2. ToSend = 2 * Work
  BY DEF Init, ToSend
<1>3. ToAnnounce("start") = 3
  BY DEF ToAnnounce
<1> QED
  BY <1>1, <1>2, <1>3, StudioAssumption DEF EventsInv, MostEvents

(* What is left to send is a number, and so is what is left to announce. *)
LEMMA LeftAreNumbers ==
  ASSUME TypeOK
  PROVE  /\ nextSequence \in Nat /\ Len(updates) \in Nat /\ Work \in Nat
         /\ worker.left \in Nat
         /\ ToSend \in Nat
         /\ \A step : ToAnnounce(step) \in 0 .. 3
<1>1. worker \in Computation /\ updates \in Seq(Updates) /\ nextSequence \in Nat
  BY DEF TypeOK
<1>2. worker.left \in Nat
  BY <1>1 DEF Computation
<1>3. ToSend \in Nat
  BY <1>2 DEF ToSend
<1>4. \A step : ToAnnounce(step) \in 0 .. 3
  BY DEF ToAnnounce
<1>5. Len(updates) \in Nat
  BY <1>1
<1> QED
  BY <1>1, <1>2, <1>3, <1>4, <1>5, StudioAssumption

LEMMA SendLength ==
  ASSUME TypeOK, NEW update \in Updates, Send(update)
  PROVE  Len(updates') \in Nat /\ Len(updates') <= Len(updates) + 1
<1>1. updates \in Seq(Updates)
  BY DEF TypeOK
<1>2. Len(updates) \in Nat /\ Len(Append(updates, update)) = Len(updates) + 1
  BY <1>1
<1> QED
  BY <1>2 DEF Send

LEMMA EventsInvNext ==
  ASSUME TypeOK, Callers = {}, EventsInv, [Next]_vars
  PROVE  EventsInv'
<1> DEFINE x == "executor"
<1>1. /\ worker \in Computation /\ updates \in Seq(Updates)
      /\ pc \in [Actors -> Steps] /\ Actors = {x}
  BY DEF TypeOK, Actors
<1>2. /\ nextSequence \in Nat /\ Len(updates) \in Nat /\ Work \in Nat /\ worker.left \in Nat
      /\ ToSend \in Nat /\ MostEvents \in Nat
      /\ \A step : ToAnnounce(step) \in 0 .. 3
  BY LeftAreNumbers DEF MostEvents
<1>3. nextSequence + ToAnnounce(pc[x]) + Len(updates) + ToSend <= MostEvents
  BY DEF EventsInv
<1>4. ASSUME NEW step, NEW kind, NEW next, Announce(x, step, kind, next),
             ToAnnounce(next) + 1 <= ToAnnounce(step)
      PROVE  EventsInv'
  <2>1. /\ pc[x] = step /\ pc'[x] = next /\ nextSequence' = nextSequence + 1
        /\ updates' = updates /\ worker' = worker
    BY <1>1, <1>4 DEF Announce, At, Goto, compute
  <2>2. ToSend' = ToSend
    BY <2>1 DEF ToSend
  <2> QED
    BY <1>2, <1>3, <1>4, <2>1, <2>2 DEF EventsInv, MostEvents
<1>5. ASSUME UNCHANGED <<nextSequence, updates, worker>>,
             ToAnnounce(pc'[x]) <= ToAnnounce(pc[x])
      PROVE  EventsInv'
  <2>1. ToSend' = ToSend
    BY <1>5 DEF ToSend
  <2> QED
    BY <1>2, <1>3, <1>5, <2>1 DEF EventsInv, MostEvents
<1>6. ASSUME NEW step, NEW verdict, NEW next, Settle(x, step, verdict, next),
             ToAnnounce(next) <= ToAnnounce(step)
      PROVE  EventsInv'
  <2>1. /\ pc[x] = step /\ pc'[x] = next
        /\ UNCHANGED <<nextSequence, updates, worker>>
    BY <1>1, <1>6 DEF Settle, At, Goto, compute
  <2> QED
    BY <1>5, <1>6, <2>1
<1>7. CASE Worker
  <2>1. UNCHANGED <<nextSequence, pc>>
    BY <1>7 DEF Worker, Checkpoint, CheckpointCancelled, SendProgress, SendObservation,
                SendFrame, Compute, record
  <2>2. Len(updates') + ToSend' <= Len(updates) + ToSend /\ ToSend' \in Nat /\ Len(updates') \in Nat
    <3>1. CASE Checkpoint
      <4>1. worker'.left = worker.left - 1 /\ worker'.pc = "Progress" /\ updates' = updates
        BY <1>1, <3>1 DEF Checkpoint, Computation
      <4>2. ToSend = 2 * worker.left /\ ToSend' = 2 * worker'.left + 2
        BY <3>1, <4>1 DEF ToSend, Checkpoint
      <4>3. ToSend' = 2 * (worker.left - 1) + 2
        BY <4>1, <4>2
      <4> QED
        BY <1>2, <4>1, <4>2, <4>3
    <3>2. CASE CheckpointCancelled
      <4>1. worker'.left = worker.left /\ worker'.pc = "exited" /\ updates' = updates
        BY <1>1, <3>2 DEF CheckpointCancelled, Computation
      <4>2. ToSend = 2 * worker.left /\ ToSend' = 2 * worker.left
        BY <3>2, <4>1 DEF ToSend, CheckpointCancelled
      <4> QED
        BY <1>2, <4>1, <4>2
    <3>3. CASE SendProgress
      <4>1. worker'.left = worker.left /\ worker'.pc = "SearchObservation"
        BY <1>1, <3>3 DEF SendProgress, Computation
      <4>2. ToSend = 2 * worker.left + 2 /\ ToSend' = 2 * worker.left + 1
        BY <3>3, <4>1 DEF ToSend, SendProgress
      <4>3. Len(updates') \in Nat /\ Len(updates') <= Len(updates) + 1
        BY <3>3, SendLength DEF SendProgress, Updates
      <4> QED
        BY <1>2, <4>1, <4>2, <4>3
    <3>4. CASE SendObservation
      <4>1. worker'.left = worker.left /\ worker'.pc = "between"
        BY <1>1, <3>4 DEF SendObservation, Computation
      <4>2. ToSend = 2 * worker.left + 1 /\ ToSend' = 2 * worker.left
        BY <3>4, <4>1 DEF ToSend, SendObservation
      <4>3. Len(updates') \in Nat /\ Len(updates') <= Len(updates) + 1
        BY <3>4, SendLength DEF SendObservation, Updates
      <4> QED
        BY <1>2, <4>1, <4>2, <4>3
    <3>5. CASE SendFrame
      <4>1. worker'.left = worker.left - 1 /\ worker'.pc = "between" /\ worker.left > 0
        BY <1>1, <3>5 DEF SendFrame, Computation
      <4>2. ToSend = 2 * worker.left /\ ToSend' = 2 * (worker.left - 1)
        BY <3>5, <4>1 DEF ToSend, SendFrame
      <4>3. Len(updates') \in Nat /\ Len(updates') <= Len(updates) + 1
        BY <3>5, SendLength DEF SendFrame, Updates
      <4> QED
        BY <1>2, <4>1, <4>2, <4>3
    <3>6. ASSUME NEW result, Compute(result)
          PROVE  Len(updates') + ToSend' <= Len(updates) + ToSend /\ ToSend' \in Nat
                 /\ Len(updates') \in Nat
      <4>1. worker'.left = worker.left /\ worker'.pc = "exited" /\ updates' = updates
        BY <1>1, <3>6 DEF Compute, Computation
      <4>2. ToSend = 2 * worker.left /\ ToSend' = 2 * worker.left
        BY <3>6, <4>1 DEF ToSend, Compute
      <4> QED
        BY <1>2, <4>1, <4>2
    <3> QED
      BY <1>7, <3>1, <3>2, <3>3, <3>4, <3>5, <3>6 DEF Worker
  <2>3. ToAnnounce(pc[x]) \in Nat /\ ToAnnounce(pc'[x]) = ToAnnounce(pc[x])
    BY <1>2, <2>1
  <2>4. nextSequence + ToAnnounce(pc[x]) + Len(updates') + ToSend' <= MostEvents
    BY <1>2, <1>3, <2>2, <2>3
  <2> QED
    BY <2>1, <2>3, <2>4 DEF EventsInv, MostEvents
<1>8. CASE Execute
  <2>1. CASE Announce(x, "start", "RunStarted", "spawn")
    BY <1>4, <2>1 DEF ToAnnounce, Updates
  <2>2. CASE Spawn
    <3>1. pc[x] = "spawn" /\ pc'[x] = "receive" /\ UNCHANGED <<nextSequence, updates>>
      BY <1>1, <2>2 DEF Spawn, At, Goto, Silent, record
    <3>2. worker'.left = worker.left /\ worker'.pc = "between"
      BY <1>1, <2>2 DEF Spawn, Computation
    <3>3. ToSend' \in Nat /\ ToSend' <= ToSend
      BY <1>2, <3>2 DEF ToSend
    <3>4. ToAnnounce(pc'[x]) = ToAnnounce(pc[x])
      BY <3>1 DEF ToAnnounce, Updates
    <3> QED
      BY <1>2, <1>3, <3>1, <3>3, <3>4 DEF EventsInv, MostEvents
  <2>3. CASE Abandon
    <3>1. /\ pc[x] = "receive" /\ pc'[x] = "abandoned" /\ Len(updates') = 0
          /\ UNCHANGED <<nextSequence, worker>>
      BY <1>1, <2>3 DEF Abandon, At, Goto, Silent, record
    <3>2. ToSend' = ToSend
      BY <3>1 DEF ToSend
    <3>3. ToAnnounce(pc[x]) = 2 /\ ToAnnounce(pc'[x]) = 0
      BY <3>1 DEF ToAnnounce, Updates
    <3> QED
      BY <1>2, <1>3, <3>1, <3>2, <3>3 DEF EventsInv, MostEvents
  <2>4. CASE Receive
    <3>1. /\ pc[x] = "receive" /\ pc'[x] = Head(updates) /\ updates # <<>>
          /\ updates' = Tail(updates) /\ UNCHANGED <<nextSequence, worker>>
      BY <1>1, <2>4 DEF Receive, At, Goto, Silent, record
    <3>2. ToSend' = ToSend
      BY <3>1 DEF ToSend
    <3>3. Head(updates) \in Updates /\ Len(updates') = Len(updates) - 1
      BY <1>1, <3>1
    <3>4. ToAnnounce(pc[x]) = 2 /\ ToAnnounce(pc'[x]) = 3
      BY <3>1, <3>3 DEF ToAnnounce, Updates
    <3> QED
      BY <1>2, <1>3, <3>1, <3>2, <3>3, <3>4 DEF EventsInv, MostEvents
  <2>5. CASE Join
    <3>1. /\ pc[x] = "receive" /\ pc'[x] \in {"store", "cancelled", "failed"}
          /\ UNCHANGED <<nextSequence, updates, worker>>
      BY <1>1, <2>5 DEF Join, At, Goto, Silent, record, compute
    <3>2. ToAnnounce(pc[x]) = 2 /\ ToAnnounce(pc'[x]) \in {1, 2}
      BY <3>1 DEF ToAnnounce, Updates
    <3> QED
      BY <1>2, <1>5, <3>1, <3>2
  <2>6. ASSUME NEW update \in Updates, Announce(x, update, update, "receive") PROVE EventsInv'
    BY <1>4, <2>6 DEF ToAnnounce, Updates
  <2>7. CASE StoreArtifact
    <3>1. /\ pc[x] = "store" /\ pc'[x] = "publish"
          /\ UNCHANGED <<nextSequence, updates, worker>>
      BY <1>1, <2>7 DEF StoreArtifact, At, Goto, compute
    <3>2. ToAnnounce(pc'[x]) = ToAnnounce(pc[x])
      BY <3>1 DEF ToAnnounce, Updates
    <3> QED
      BY <1>2, <1>5, <3>1, <3>2
  <2>8. CASE Announce(x, "publish", "ArtifactPublished", "completed")
    BY <1>4, <2>8 DEF ToAnnounce, Updates
  <2>9. CASE Settle(x, "completed", "Completed", "announceCompleted")
    BY <1>6, <2>9 DEF ToAnnounce, Updates
  <2>10. CASE Announce(x, "announceCompleted", "RunCompleted", "done")
    BY <1>4, <2>10 DEF ToAnnounce, Updates
  <2>11. CASE Settle(x, "failed", "Failed", "announceFailed")
    BY <1>6, <2>11 DEF ToAnnounce, Updates
  <2>12. CASE Announce(x, "announceFailed", "RunFailed", "done")
    BY <1>4, <2>12 DEF ToAnnounce, Updates
  <2> QED
    BY <1>8, <2>1, <2>2, <2>3, <2>4, <2>5, <2>6, <2>7, <2>8, <2>9, <2>10, <2>11, <2>12 DEF Execute
<1>9. CASE FinishCancelled(x)
  <2>1. CASE Settle(x, "cancelled", "Cancelled", "announceCancelled")
    BY <1>6, <2>1 DEF ToAnnounce, Updates
  <2>2. CASE Announce(x, "announceCancelled", "RunCancelled", "done")
    BY <1>4, <2>2 DEF ToAnnounce, Updates
  <2> QED
    BY <1>9, <2>1, <2>2 DEF FinishCancelled
<1>10. CASE Emit(x)
  <2>1. UNCHANGED <<nextSequence, updates, worker, pc>>
    BY <1>10 DEF Emit, EmitSummary, EmitHistory, EmitStreams, record, compute
  <2> QED
    BY <1>2, <1>5, <2>1
<1>11. ASSUME NEW c \in Clients, Subscribe(c) \/ Reconnect(c) \/ Follow(c) PROVE EventsInv'
  <2>1. UNCHANGED <<nextSequence, updates, worker, pc>>
    BY <1>11 DEF Subscribe, Reconnect, Follow, Snapshot, DeliverBacklog, DeliverLive, Stream,
                 Server, record, compute
  <2> QED
    BY <1>2, <1>5, <2>1
<1>12. CASE UNCHANGED vars
  <2>1. UNCHANGED <<nextSequence, updates, worker, pc>>
    BY <1>12 DEF vars, record, compute
  <2> QED
    BY <1>2, <1>5, <2>1
<1> QED
  BY <1>1, <1>7, <1>8, <1>9, <1>10, <1>11, <1>12 DEF Next

(* Where nobody else emits, an event's number is its place in the history. *)
LEMMA PlaceInvInit == Init => PlaceInv
  BY DEF Init, PlaceInv, Placed, NotEmitting, Actors

LEMMA PlaceInvNext ==
  ASSUME TypeOK, Callers = {}, PlaceInv, [Next]_vars
  PROVE  PlaceInv'
<1> DEFINE x == "executor"
           e == pending[x]
<1>1. /\ history \in Seq(Event) /\ nextSequence \in Nat /\ Len(history) \in Nat
      /\ pending \in [Actors -> Emission] /\ Actors = {x} /\ e \in Emission
      /\ e.event \in Event /\ e.at \in {"nowhere", "summary", "history", "streams"}
  BY DEF TypeOK, Actors, Emission
<1>2. ASSUME NEW step, NEW kind, NEW next, Announce(x, step, kind, next) PROVE PlaceInv'
  <2>1. /\ e.at = "nowhere" /\ nextSequence' = nextSequence + 1 /\ history' = history
        /\ pending'[x].at = "summary" /\ pending'[x].event.sequence = nextSequence
    BY <1>1, <1>2 DEF Announce, At, Emitting
  <2> QED
    BY <1>1, <2>1 DEF PlaceInv
<1>3. CASE EmitSummary(x)
  <2>1. /\ e.at = "summary" /\ UNCHANGED <<nextSequence, history>>
        /\ pending'[x] = [e EXCEPT !.at = "history"]
    BY <1>1, <1>3 DEF EmitSummary
  <2>2. pending'[x].at = "history" /\ pending'[x].event = e.event
    BY <1>1, <2>1 DEF Emission
  <2> QED
    BY <1>1, <2>1, <2>2 DEF PlaceInv
<1>4. CASE EmitHistory(x)
  <2>1. /\ e.at = "history" /\ nextSequence' = nextSequence
        /\ history' = Append(history, e.event)
        /\ pending'[x] = [e EXCEPT !.at = "streams"]
    BY <1>1, <1>4 DEF EmitHistory
  <2>2. pending'[x].at = "streams" /\ pending'[x].event = e.event
    BY <1>1, <2>1 DEF Emission
  <2>3. nextSequence = Len(history) + 1 /\ e.event.sequence = Len(history) /\ Placed(history)
    BY <1>1, <2>1 DEF PlaceInv
  <2>4. /\ Len(history') = Len(history) + 1 /\ history' # <<>>
        /\ history'[Len(history')] = e.event
        /\ \A i \in DOMAIN history : history'[i] = history[i]
        /\ \A i \in DOMAIN history' : i \in DOMAIN history \/ i = Len(history) + 1
    BY <1>1, <2>1, Pushed
  <2>5. Placed(history')
    BY <1>1, <2>3, <2>4 DEF Placed
  <2> QED
    BY <1>1, <2>1, <2>2, <2>3, <2>4, <2>5 DEF PlaceInv
<1>5. CASE EmitStreams(x)
  <2>1. /\ e.at = "streams" /\ UNCHANGED <<nextSequence, history>>
        /\ pending'[x].at = "nowhere"
    BY <1>1, <1>5 DEF EmitStreams, record, NotEmitting
  <2> QED
    BY <1>1, <2>1 DEF PlaceInv
<1>6. CASE UNCHANGED <<history, nextSequence, pending>>
  BY <1>6 DEF PlaceInv
<1> QED
  <2>1. \A a \in Actors : a = x
    BY <1>1
  <2> QED
    BY <1>2, <1>3, <1>4, <1>5, <1>6, <2>1, EmissionSteps DEF Emit

-----------------------------------------------------------------------------
(* One client's stream, apart from the run. *)

Following == [sub : Subscription, received : Seq(Event)]

LEMMA FollowingType ==
  ASSUME NEW s \in Following
  PROVE  /\ s.sub \in Subscription /\ s.received \in Seq(Event)
         /\ s.sub.stage \in {"absent", "subscribed", "streaming", "closed"}
         /\ s.sub.queue \in Seq(Event) /\ s.sub.backlog \in Seq(Event)
         /\ s.sub.floor + 1 \in Nat
         /\ Len(s.received) \in Nat /\ Len(s.sub.queue) \in Nat /\ Len(s.sub.backlog) \in Nat
         /\ DOMAIN s.received = 1 .. Len(s.received)
         /\ DOMAIN s.sub.queue = 1 .. Len(s.sub.queue)
         /\ DOMAIN s.sub.backlog = 1 .. Len(s.sub.backlog)
<1>1. s.sub \in Subscription /\ s.received \in Seq(Event)
  BY DEF Following
<1>2. /\ s.sub.stage \in {"absent", "subscribed", "streaming", "closed"}
      /\ s.sub.queue \in Seq(Event) /\ s.sub.backlog \in Seq(Event)
      /\ s.sub.floor \in Nat \cup {-1}
  BY <1>1 DEF Subscription, NoEvent
<1> QED
  BY <1>1, <1>2

(* Parts of a history: one stays when the history grows, and loses its head *)
(* or gains the next event.                                                 *)
LEMMA PartOfLonger ==
  ASSUME NEW h \in Seq(Event), NEW e \in Event, NEW after \in Int, NEW s \in Seq(Event),
         Part(h, after, s)
  PROVE  Part(Append(h, e), after, s)
<1> DEFINE g == Append(h, e)
<1>1. /\ Len(h) \in Nat /\ DOMAIN h = 1 .. Len(h) /\ Len(g) = Len(h) + 1
      /\ \A i \in DOMAIN h : g[i] = h[i]
  BY Pushed
<1>2. Len(s) \in Nat /\ DOMAIN s = 1 .. Len(s)
  OBVIOUS
<1> HIDE DEF g
<1>3. after >= 0 /\ after + Len(s) <= Len(h) /\ \A i \in DOMAIN s : s[i] = h[after + i]
  BY DEF Part
<1>4. \A i \in DOMAIN s : after + i \in DOMAIN h
  BY <1>1, <1>2, <1>3
<1>5. Part(g, after, s)
  BY <1>1, <1>2, <1>3, <1>4 DEF Part
<1> QED
  BY <1>5 DEF g

LEMMA PartTail ==
  ASSUME NEW h \in Seq(Event), NEW after \in Int, NEW s \in Seq(Event), s # <<>>,
         Part(h, after, s)
  PROVE  /\ after + 1 \in DOMAIN h /\ Head(s) = h[after + 1]
         /\ Tail(s) \in Seq(Event) /\ Len(Tail(s)) = Len(s) - 1
         /\ Part(h, after + 1, Tail(s))
<1>1. /\ Len(s) \in Nat /\ Len(s) > 0 /\ DOMAIN s = 1 .. Len(s) /\ Head(s) = s[1]
      /\ Tail(s) \in Seq(Event) /\ Len(Tail(s)) = Len(s) - 1
      /\ DOMAIN Tail(s) = 1 .. Len(s) - 1
      /\ \A i \in 1 .. Len(s) - 1 : Tail(s)[i] = s[i + 1]
      /\ Len(h) \in Nat /\ DOMAIN h = 1 .. Len(h)
  OBVIOUS
<1>2. after >= 0 /\ after + Len(s) <= Len(h) /\ \A i \in DOMAIN s : s[i] = h[after + i]
  BY DEF Part
<1>3. after + 1 \in DOMAIN h /\ Head(s) = h[after + 1]
  BY <1>1, <1>2
<1>4. ASSUME NEW i \in DOMAIN Tail(s) PROVE Tail(s)[i] = h[after + 1 + i]
  <2>1. i + 1 \in DOMAIN s /\ after + 1 + i = after + (i + 1)
    BY <1>1
  <2>2. Tail(s)[i] = s[i + 1] /\ s[i + 1] = h[after + (i + 1)]
    BY <1>1, <1>2, <2>1
  <2> QED
    BY <2>1, <2>2
<1> QED
  BY <1>1, <1>2, <1>3, <1>4 DEF Part

LEMMA PartAppend ==
  ASSUME NEW h \in Seq(Event), NEW after \in Int, NEW s \in Seq(Event),
         Part(h, after, s), after + Len(s) + 1 <= Len(h)
  PROVE  LET grown == Append(s, h[after + Len(s) + 1]) IN
         /\ grown \in Seq(Event) /\ Len(grown) = Len(s) + 1
         /\ Part(h, after, grown)
<1> DEFINE grown == Append(s, h[after + Len(s) + 1])
<1>1. after >= 0 /\ after + Len(s) <= Len(h) /\ \A i \in DOMAIN s : s[i] = h[after + i]
  BY DEF Part
<1>2. Len(h) \in Nat /\ DOMAIN h = 1 .. Len(h) /\ Len(s) \in Nat /\ DOMAIN s = 1 .. Len(s)
  OBVIOUS
<1>3. h[after + Len(s) + 1] \in Event
  BY <1>1, <1>2
<1>4. /\ grown \in Seq(Event) /\ Len(grown) = Len(s) + 1 /\ DOMAIN grown = 1 .. Len(s) + 1
      /\ \A i \in DOMAIN s : grown[i] = s[i]
      /\ grown[Len(s) + 1] = h[after + Len(s) + 1]
  BY <1>2, <1>3
<1> HIDE DEF grown
<1>5. ASSUME NEW i \in DOMAIN grown PROVE grown[i] = h[after + i]
  <2>1. i \in DOMAIN s \/ i = Len(s) + 1
    BY <1>2, <1>4
  <2> QED
    BY <1>1, <1>2, <1>4, <2>1
<1>6. Part(h, after, grown)
  BY <1>1, <1>2, <1>4, <1>5 DEF Part
<1> QED
  BY <1>4, <1>6 DEF grown

LEMMA PositionType ==
  ASSUME NEW s \in Following, NEW offered \in Int
  PROVE  Taken(offered, s) \in Int /\ Copied(s) \in Nat /\ Shown(s) \in Int
  BY FollowingType DEF Taken, Copied, Shown

(* The history grows past what the client was offered. *)
LEMMA FollowsLonger ==
  ASSUME NEW h \in Seq(Event), NEW e \in Event, NEW s \in Following, Follows(h, Len(h), s)
  PROVE  Follows(Append(h, e), Len(h), s)
<1>1. s.received \in Seq(Event) /\ s.sub.queue \in Seq(Event) /\ s.sub.backlog \in Seq(Event)
  BY FollowingType
<1>2. Len(h) \in Int
  OBVIOUS
<1>3. Taken(Len(h), s) \in Int /\ Shown(s) \in Int
  BY <1>2, PositionType
<1> QED
  BY <1>1, <1>3, PartOfLonger DEF Follows

(* The last event of the history is offered to a client with room for it. *)
LEMMA FollowsOffered ==
  ASSUME NEW h \in Seq(Event), h # <<>>, Len(h) <= BroadcastCapacity,
         NEW s \in Following, Follows(h, Len(h) - 1, s)
  PROVE  Follows(h, Len(h), [s EXCEPT !.sub = Offer(@, h[Len(h)])])
<1> DEFINE n == Len(h)
           t == [s EXCEPT !.sub = Offer(@, h[n])]
           q == s.sub.queue
           grown == Append(q, h[n])
<1>1. n \in Nat /\ n > 0 /\ h[n] \in Event
  OBVIOUS
<1>2. /\ s.sub \in Subscription /\ q \in Seq(Event) /\ Len(q) \in Nat
      /\ s.sub.stage \in {"absent", "subscribed", "streaming", "closed"}
  BY FollowingType
<1>3. t.received = s.received /\ t.sub = Offer(s.sub, h[n])
  BY DEF Following
<1>4. CASE s.sub.stage = "absent"
  <2>1. t.sub = s.sub
    BY <1>3, <1>4 DEF Offer
  <2> HIDE DEF t
  <2>2. Follows(h, n, t)
    BY <1>3, <1>4, <2>1 DEF Follows
  <2> QED  BY <2>2 DEF t
<1>5. CASE s.sub.stage = "closed"
  <2>1. t.sub.stage = "closed" /\ t.sub.backlog = s.sub.backlog
    BY <1>2, <1>3, <1>5 DEF Offer, Subscription
  <2> HIDE DEF t
  <2>2. Follows(h, n, t)
    BY <1>3, <1>5, <2>1 DEF Follows
  <2> QED  BY <2>2 DEF t
<1>6. CASE s.sub.stage \in {"subscribed", "streaming"}
  <2> DEFINE at == Taken(n - 1, s)
  <2>1. n - 1 \in Int
    BY <1>1
  <2>2. at \in Int /\ Part(h, at, q)
    BY <2>1, <1>6, PositionType DEF Follows
  <2>3. at = n - 1 - Len(q)
    BY DEF Taken
  <2> HIDE DEF at
  <2>4. at >= 0 /\ at + Len(q) + 1 = n
    <3>1. at >= 0
      BY <2>2 DEF Part
    <3> HIDE DEF n, q
    <3> QED
      BY <1>1, <1>2, <2>2, <2>3, <3>1
  <2>5. grown \in Seq(Event) /\ Len(grown) = Len(q) + 1 /\ Part(h, at, grown)
    <3> HIDE DEF q
    <3> QED
      BY <1>1, <1>2, <2>2, <2>4, PartAppend
  <2>6. ~(Len(grown) > BroadcastCapacity)
    <3> HIDE DEF grown, q
    <3> QED
      BY <1>1, <1>2, <2>2, <2>4, <2>5, StudioAssumption
  <2>7. t.sub = [s.sub EXCEPT !.queue = grown]
    <3> HIDE DEF t
    <3> QED
      BY <1>3, <1>6, <2>6 DEF Offer
  <2>8. /\ t.sub.stage = s.sub.stage /\ t.sub.backlog = s.sub.backlog
        /\ t.sub.floor = s.sub.floor /\ t.sub.queue = grown
    BY <1>2, <2>7 DEF Subscription
  <2> HIDE DEF t, grown, q
  <2>9. Taken(n, t) = at
    <3>1. Taken(n, t) = n - Len(grown)
      BY <2>8 DEF Taken
    <3> HIDE DEF n
    <3> QED
      BY <1>1, <1>2, <2>3, <2>5, <3>1
  <2>10. Copied(t) = Copied(s) /\ Shown(t) = Shown(s)
    BY <2>8 DEF Copied, Shown
  <2> HIDE DEF n
  <2>11. Follows(h, n, t)
    BY <1>3, <1>6, <2>5, <2>8, <2>9, <2>10 DEF Follows, n, at
  <2> QED  BY <2>11 DEF t, n
<1> QED
  BY <1>2, <1>4, <1>5, <1>6

(* The page keeps an event that comes next, and drops one it has. *)
LEMMA KeepNext ==
  ASSUME NEW h \in Seq(Event), Placed(h), NEW received \in Seq(Event), Part(h, 0, received),
         NEW p \in DOMAIN h, p <= Len(received) + 1
  PROVE  LET kept == Keep(received, h[p]) IN
         /\ kept \in Seq(Event) /\ Part(h, 0, kept)
         /\ Len(received) <= Len(kept) /\ p <= Len(kept)
<1> DEFINE Known == \E i \in DOMAIN received : received[i].sequence = h[p].sequence
<1>1. /\ Len(h) \in Nat /\ DOMAIN h = 1 .. Len(h)
      /\ Len(received) \in Nat /\ DOMAIN received = 1 .. Len(received)
      /\ p \in Nat /\ p >= 1 /\ p <= Len(h)
  OBVIOUS
<1>2. Len(received) <= Len(h) /\ \A i \in DOMAIN received : received[i] = h[i] /\ i \in DOMAIN h
  <2>1. 0 + Len(received) <= Len(h) /\ \A i \in DOMAIN received : received[i] = h[0 + i]
    BY DEF Part
  <2> QED
    BY <1>1, <2>1
<1>3. CASE Known
  <2>1. Keep(received, h[p]) = received
    BY <1>3 DEF Keep
  <2>2. PICK i \in DOMAIN received : received[i].sequence = h[p].sequence
    BY <1>3
  <2>3. i - 1 = p - 1
    BY <1>2, <2>2 DEF Placed
  <2>4. p <= Len(received)
    BY <1>1, <2>3
  <2> QED
    BY <1>1, <2>1, <2>4
<1>4. CASE ~Known
  <2>1. Keep(received, h[p]) = Append(received, h[p])
    BY <1>4 DEF Keep
  <2>2. p \notin DOMAIN received
    BY <1>2, <1>4
  <2>3. p = 0 + Len(received) + 1
    BY <1>1, <2>2
  <2>4. LET grown == Append(received, h[p]) IN
        grown \in Seq(Event) /\ Len(grown) = Len(received) + 1 /\ Part(h, 0, grown)
    BY <1>1, <2>3, PartAppend
  <2> QED
    BY <1>1, <2>1, <2>3, <2>4
<1> QED
  BY <1>3, <1>4

(* A stream that ends, is dropped or begins again has delivered what it has *)
(* delivered.                                                               *)
LEMMA FollowsAnew ==
  ASSUME NEW h \in Seq(Event), NEW offered \in 0 .. Len(h),
         NEW received \in Seq(Event), Part(h, 0, received),
         NEW stage \in {"absent", "subscribed", "closed"}
  PROVE  Follows(h, offered, [sub |-> [Unfollowed EXCEPT !.stage = stage], received |-> received])
<1> DEFINE t == [sub |-> [Unfollowed EXCEPT !.stage = stage], received |-> received]
<1>1. /\ t.received = received /\ t.sub.stage = stage
      /\ t.sub.backlog = <<>> /\ t.sub.queue = <<>>
  BY DEF Unfollowed
<1> HIDE DEF t
<1>2. Taken(offered, t) = offered
  BY <1>1 DEF Taken
<1>3. Part(h, offered, <<>>)
  BY DEF Part
<1>4. Follows(h, offered, t)
  BY <1>1, <1>2, <1>3 DEF Follows
<1> QED
  BY <1>4 DEF t

(* The copy is all there is; what is in the queue is in it, or new. *)
LEMMA FollowsCopy ==
  ASSUME NEW h \in Seq(Event), Placed(h), NEW offered \in 0 .. Len(h), NEW s \in Following,
         s.sub.stage = "subscribed", Follows(h, offered, s)
  PROVE  Follows(h, offered,
           [sub |-> [s.sub EXCEPT
              !.stage = "streaming", !.backlog = h,
              !.floor = IF h = <<>> THEN NoEvent ELSE h[Len(h)].sequence],
            received |-> s.received])
<1> DEFINE floor == IF h = <<>> THEN NoEvent ELSE h[Len(h)].sequence
           t == [sub |-> [s.sub EXCEPT !.stage = "streaming", !.backlog = h, !.floor = floor],
                 received |-> s.received]
<1>1. /\ s.sub \in Subscription /\ s.received \in Seq(Event) /\ s.sub.queue \in Seq(Event)
      /\ Len(s.sub.queue) \in Nat /\ Len(s.received) \in Nat
  BY FollowingType
<1>2. Len(h) \in Nat /\ DOMAIN h = 1 .. Len(h)
  OBVIOUS
<1>3. floor + 1 = Len(h)
  BY <1>2 DEF NoEvent, Placed
<1> HIDE DEF floor
<1>4. /\ t.received = s.received /\ t.sub.stage = "streaming"
      /\ t.sub.backlog = h /\ t.sub.queue = s.sub.queue /\ t.sub.floor = floor
  BY <1>1 DEF Following, Subscription
<1> HIDE DEF t
<1>5. Copied(t) = Len(h) /\ Shown(t) = 0
  BY <1>2, <1>3, <1>4 DEF Copied, Shown
<1>6. Taken(offered, t) = Taken(offered, s) /\ Taken(offered, t) <= Len(h)
  BY <1>1, <1>2, <1>4 DEF Taken
<1>7. Part(h, 0, h)
  BY <1>2 DEF Part
<1>8. Follows(h, offered, t)
  BY <1>1, <1>4, <1>5, <1>6, <1>7 DEF Follows
<1> QED
  BY <1>8 DEF t, floor

(* The copy is delivered: it goes on where the client is, or before. *)
LEMMA FollowsBacklog ==
  ASSUME NEW h \in Seq(Event), Placed(h), NEW offered \in 0 .. Len(h), NEW s \in Following,
         Follows(h, offered, s), s.sub.backlog # <<>>
  PROVE  LET kept == Keep(s.received, Head(s.sub.backlog)) IN
         /\ kept \in Seq(Event) /\ Part(h, 0, kept)
         /\ Follows(h, offered,
              [sub |-> [s.sub EXCEPT !.backlog = Tail(@)], received |-> kept])
<1> DEFINE b == s.sub.backlog
           kept == Keep(s.received, Head(b))
           t == [sub |-> [s.sub EXCEPT !.backlog = Tail(@)], received |-> kept]
<1>1. /\ s.sub \in Subscription /\ s.received \in Seq(Event) /\ b \in Seq(Event)
      /\ Len(b) \in Nat /\ Len(s.received) \in Nat /\ Copied(s) \in Nat /\ Shown(s) \in Int
      /\ offered \in Int /\ Taken(offered, s) \in Int
  BY FollowingType, PositionType
<1>2. /\ s.sub.stage = "streaming" /\ Part(h, 0, s.received)
      /\ Part(h, Shown(s), b) /\ Shown(s) <= Len(s.received)
      /\ Part(h, Taken(offered, s), s.sub.queue)
      /\ Taken(offered, s) <= Copied(s) \/ Taken(offered, s) <= Len(s.received)
  BY DEF Follows
<1>3. /\ Shown(s) + 1 \in DOMAIN h /\ Head(b) = h[Shown(s) + 1]
      /\ Tail(b) \in Seq(Event) /\ Len(Tail(b)) = Len(b) - 1
      /\ Part(h, Shown(s) + 1, Tail(b))
  BY <1>1, <1>2, PartTail
<1>4. /\ kept \in Seq(Event) /\ Part(h, 0, kept)
      /\ Len(s.received) <= Len(kept) /\ Shown(s) + 1 <= Len(kept)
  BY <1>1, <1>2, <1>3, KeepNext
<1>5. /\ t.received = kept /\ t.sub.stage = "streaming" /\ t.sub.backlog = Tail(b)
      /\ t.sub.queue = s.sub.queue /\ t.sub.floor = s.sub.floor
  BY <1>1, <1>2 DEF Subscription
<1> HIDE DEF t, kept, b
<1>6. Copied(t) = Copied(s) /\ Taken(offered, t) = Taken(offered, s)
  BY <1>5 DEF Copied, Taken
<1>7. Shown(s) = Copied(s) - Len(b) /\ Shown(t) = Copied(t) - Len(Tail(b))
  BY <1>5 DEF Shown, b
<1>8. Shown(t) = Shown(s) + 1
  BY <1>1, <1>3, <1>6, <1>7
<1>9. Len(kept) \in Nat
  BY <1>4
<1>10. Taken(offered, t) <= Copied(t) \/ Taken(offered, t) <= Len(kept)
  BY <1>1, <1>2, <1>4, <1>6, <1>9
<1>11. Follows(h, offered, t)
  BY <1>2, <1>3, <1>4, <1>5, <1>6, <1>8, <1>10 DEF Follows
<1> QED
  BY <1>4, <1>11 DEF t, kept, b

(* A live event is in the copy, or comes next, or is known. *)
LEMMA FollowsLive ==
  ASSUME NEW h \in Seq(Event), Placed(h), NEW offered \in 0 .. Len(h), NEW s \in Following,
         Follows(h, offered, s),
         s.sub.stage = "streaming", s.sub.backlog = <<>>, s.sub.queue # <<>>
  PROVE  LET event == Head(s.sub.queue)
             rest  == [s.sub EXCEPT !.queue = Tail(@)]
             kept  == Keep(s.received, event)
         IN
         /\ event.sequence > s.sub.floor =>
              /\ kept \in Seq(Event) /\ Part(h, 0, kept)
              /\ Follows(h, offered, [sub |-> rest, received |-> kept])
         /\ ~(event.sequence > s.sub.floor) => 
              Follows(h, offered, [sub |-> rest, received |-> s.received])
<1> DEFINE q     == s.sub.queue
           event == Head(q)
           rest  == [s.sub EXCEPT !.queue = Tail(@)]
           kept  == Keep(s.received, event)
           at    == Taken(offered, s)
<1>1. /\ s.sub \in Subscription /\ s.received \in Seq(Event) /\ q \in Seq(Event)
      /\ Len(q) \in Nat /\ Len(s.received) \in Nat /\ Copied(s) \in Nat /\ at \in Int
      /\ offered \in Int
  BY FollowingType, PositionType
<1>2. Copied(s) = s.sub.floor + 1 /\ s.sub.floor \in Int
  BY <1>1 DEF Copied, Subscription, NoEvent
<1>3. Len(s.sub.backlog) = 0
  OBVIOUS
<1>4. Shown(s) = Copied(s)
  BY <1>1, <1>3 DEF Shown
<1>5. /\ Part(h, 0, s.received) /\ Part(h, Copied(s), s.sub.backlog)
      /\ Copied(s) <= Len(s.received)
      /\ Part(h, at, q)
      /\ at <= Copied(s) \/ at <= Len(s.received)
  BY <1>4 DEF Follows
<1>6. at <= Len(s.received)
  BY <1>1, <1>5
<1>7. /\ at + 1 \in DOMAIN h /\ event = h[at + 1]
      /\ Tail(q) \in Seq(Event) /\ Len(Tail(q)) = Len(q) - 1
      /\ Part(h, at + 1, Tail(q))
  BY <1>1, <1>5, PartTail
<1>8. event.sequence = at
  <2> HIDE DEF event, at
  <2> DEFINE p == at + 1
  <2>1. p \in DOMAIN h /\ event = h[p]
    BY <1>7
  <2> HIDE DEF p
  <2>2. event.sequence = p - 1
    BY <2>1 DEF Placed
  <2> QED
    BY <1>1, <2>2 DEF p
<1>9. /\ kept \in Seq(Event) /\ Part(h, 0, kept)
      /\ Len(s.received) <= Len(kept) /\ at + 1 <= Len(kept)
  BY <1>1, <1>5, <1>6, <1>7, KeepNext
<1>10. /\ rest.stage = "streaming" /\ rest.backlog = <<>> /\ rest.floor = s.sub.floor
      /\ rest.queue = Tail(q)
  BY <1>1 DEF Subscription
<1>11. at = offered - Len(q)
  BY DEF Taken
<1> HIDE DEF rest, kept, event, q, at
<1>12. ASSUME NEW t, t.sub = rest, Part(h, 0, t.received), t.received \in Seq(Event),
              Len(s.received) <= Len(t.received),
              at + 1 <= Copied(s) \/ at + 1 <= Len(t.received)
       PROVE  Follows(h, offered, t)
  <2>1. Copied(t) = Copied(s) /\ Shown(t) = Copied(s)
    BY <1>1, <1>10, <1>12 DEF Copied, Shown
  <2>2. Taken(offered, t) = at + 1
    <3>1. Taken(offered, t) = offered - Len(Tail(q))
      BY <1>10, <1>12 DEF Taken
    <3> QED
      BY <1>1, <1>7, <1>11, <3>1
  <2>3. Len(t.received) \in Nat
    BY <1>12
  <2>4. Copied(s) <= Len(t.received)
    BY <1>1, <1>5, <1>12, <2>3
  <2> QED
    BY <1>5, <1>7, <1>10, <1>12, <2>1, <2>2, <2>4 DEF Follows
<1>13. ASSUME event.sequence > s.sub.floor
       PROVE  Follows(h, offered, [sub |-> rest, received |-> kept])
  BY <1>9, <1>12
<1>14. ASSUME ~(event.sequence > s.sub.floor)
       PROVE  Follows(h, offered, [sub |-> rest, received |-> s.received])
  <2> DEFINE t == [sub |-> rest, received |-> s.received]
  <2>1. t.sub = rest /\ t.received = s.received
    OBVIOUS
  <2> HIDE DEF t
  <2>2. at + 1 <= Copied(s)
    BY <1>1, <1>2, <1>8, <1>14
  <2>3. Len(s.received) <= Len(t.received)
    BY <1>1, <2>1
  <2>4. Follows(h, offered, t)
    BY <1>1, <1>5, <1>12, <2>1, <2>2, <2>3
  <2> QED
    BY <2>4 DEF t
<1> QED
  BY <1>9, <1>13, <1>14 DEF rest, kept, event, q

-----------------------------------------------------------------------------
(* The streams of a run that has its events to itself. *)

LEMMA OfferedType ==
  ASSUME TypeOK, PlaceInv
  PROVE  /\ Offered \in 0 .. Len(history)
         /\ pending["executor"].at # "streams" => Offered = Len(history)
         /\ pending["executor"].at = "streams" =>
              /\ history # <<>> /\ Offered = Len(history) - 1
              /\ pending["executor"].event = history[Len(history)]
<1>1. history \in Seq(Event) /\ Len(history) \in Nat
  BY DEF TypeOK
<1>2. pending["executor"].at = "streams" =>
        history # <<>> /\ pending["executor"].event = history[Len(history)]
  BY DEF PlaceInv
<1>3. history # <<>> => Len(history) > 0
  BY <1>1
<1> QED
  BY <1>1, <1>2, <1>3 DEF Offered

LEMMA StreamInvInit == Init => StreamInv
<1> SUFFICES ASSUME Init, NEW c \in Clients PROVE Follows(history, Offered, stream[c])
  BY DEF StreamInv
<1>1. history = <<>> /\ stream[c].received = <<>> /\ stream[c].sub = Unfollowed
  BY DEF Init
<1> QED
  BY <1>1 DEF Follows, Part, Unfollowed

LEMMA ClientStep ==
  ASSUME TypeOK, PlaceInv, NEW c \in Clients, Follows(history, Offered, stream[c]),
         Subscribe(c) \/ Reconnect(c) \/ Follow(c)
  PROVE  Follows(history, Offered, stream'[c])
<1> DEFINE s == stream[c]
<1>1. /\ history \in Seq(Event) /\ Placed(history) /\ Offered \in 0 .. Len(history)
      /\ stream \in [Clients -> Following] /\ s \in Following
      /\ Follows(history, Offered, s)
  BY OfferedType DEF TypeOK, PlaceInv, Following
<1>2. s.sub \in Subscription /\ s.received \in Seq(Event) /\ Part(history, 0, s.received)
      /\ s = [sub |-> s.sub, received |-> s.received]
  BY <1>1, FollowingType DEF Follows, Following
<1>3. ASSUME NEW stage, NEW sub, Stream(c, stage, sub)
      PROVE  /\ s.sub.stage = stage
             /\ stream'[c] = [sub |-> sub, received |-> s.received]
  BY <1>1, <1>3 DEF Stream, Following
<1>4. ASSUME NEW event, NEW sub, Deliver(c, event, sub)
      PROVE  stream'[c] = [sub |-> IF event.kind \in Terminal
                                   THEN [Unfollowed EXCEPT !.stage = "closed"] ELSE sub,
                           received |-> Keep(s.received, event)]
  BY <1>1, <1>4 DEF Deliver
<1>5. ASSUME NEW event, NEW sub, Deliver(c, event, sub),
             Keep(s.received, event) \in Seq(Event),
             Part(history, 0, Keep(s.received, event)),
             Follows(history, Offered, [sub |-> sub, received |-> Keep(s.received, event)])
      PROVE  Follows(history, Offered, stream'[c])
  <2>1. CASE event.kind \in Terminal
    <3>1. stream'[c] = [sub |-> [Unfollowed EXCEPT !.stage = "closed"],
                        received |-> Keep(s.received, event)]
      BY <1>4, <1>5, <2>1
    <3> QED
      BY <1>1, <1>5, <3>1, FollowsAnew
  <2>2. CASE event.kind \notin Terminal
    <3>1. stream'[c] = [sub |-> sub, received |-> Keep(s.received, event)]
      BY <1>4, <1>5, <2>2
    <3> QED
      BY <1>5, <3>1
  <2> QED
    BY <2>1, <2>2
<1>6. CASE Subscribe(c)
  <2>1. stream'[c] = [sub |-> [Unfollowed EXCEPT !.stage = "subscribed"], received |-> s.received]
    BY <1>3, <1>6 DEF Subscribe
  <2> QED
    BY <1>1, <1>2, <2>1, FollowsAnew
<1>7. CASE Reconnect(c)
  <2>1. stream'[c] = [sub |-> Unfollowed, received |-> s.received]
    BY <1>3, <1>7 DEF Reconnect
  <2>2. Unfollowed = [Unfollowed EXCEPT !.stage = "absent"]
    BY DEF Unfollowed
  <2> QED
    BY ZenonT(30), <1>1, <1>2, <2>1, <2>2, FollowsAnew
<1>8. CASE Snapshot(c)
  <2> DEFINE sub == [s.sub EXCEPT
                       !.stage = "streaming", !.backlog = history,
                       !.floor = IF history = <<>> THEN NoEvent
                                 ELSE history[Len(history)].sequence]
  <2>1. s.sub.stage = "subscribed" /\ stream'[c] = [sub |-> sub, received |-> s.received]
    BY <1>3, <1>8 DEF Snapshot
  <2> HIDE DEF s
  <2> QED
    BY <1>1, <2>1, FollowsCopy
<1>9. CASE DeliverBacklog(c)
  <2>1. /\ s.sub.backlog # <<>>
        /\ Deliver(c, Head(s.sub.backlog), [s.sub EXCEPT !.backlog = Tail(@)])
    BY <1>9 DEF DeliverBacklog
  <2> HIDE DEF s
  <2> QED
    BY <1>1, <1>5, <2>1, FollowsBacklog DEF s
<1>10. CASE DeliverLive(c)
  <2> DEFINE rest == [s.sub EXCEPT !.queue = Tail(@)]
  <2>1. s.sub.stage = "streaming" /\ s.sub.backlog = <<>> /\ s.sub.queue # <<>>
    BY <1>10 DEF DeliverLive
  <2>2. CASE Head(s.sub.queue).sequence > s.sub.floor
    <3>1. Deliver(c, Head(s.sub.queue), rest)
      BY <1>10, <2>2 DEF DeliverLive
    <3> QED
      BY <1>1, <1>5, <2>1, <2>2, <3>1, FollowsLive
  <2>3. CASE ~(Head(s.sub.queue).sequence > s.sub.floor)
    <3>1. stream' = [stream EXCEPT ![c].sub = rest]
      BY <1>10, <2>3 DEF DeliverLive
    <3>2. stream'[c] = [sub |-> rest, received |-> s.received]
      BY <1>1, <3>1 DEF Following
    <3> HIDE DEF s
    <3>3. Follows(history, Offered, [sub |-> rest, received |-> s.received])
      BY <1>1, <2>1, <2>3, FollowsLive
    <3> QED
      BY <3>2, <3>3
  <2> QED
    BY <2>2, <2>3
<1> QED
  BY <1>6, <1>7, <1>8, <1>9, <1>10 DEF Follow

LEMMA OtherStreams ==
  ASSUME TypeOK, NEW c \in Clients, Subscribe(c) \/ Reconnect(c) \/ Follow(c)
  PROVE  /\ UNCHANGED <<history, pending>>
         /\ \A d \in Clients \ {c} : stream'[d] = stream[d]
<1>1. stream \in [Clients -> Following]
  BY DEF TypeOK, Following
<1>2. UNCHANGED <<history, pending>>
  BY DEF Subscribe, Reconnect, Follow, Snapshot, DeliverBacklog, DeliverLive, Stream, Server, record
<1>3. ASSUME NEW d \in Clients \ {c} PROVE stream'[d] = stream[d]
  BY <1>1 DEF Subscribe, Reconnect, Follow, Snapshot, DeliverBacklog, DeliverLive, Stream, Deliver
<1> QED
  BY <1>2, <1>3

LEMMA RunSteps ==
  ASSUME TypeOK, Callers = {}, [Next]_vars
  PROVE  \/ Emit("executor")
         \/ \E c \in Clients : Subscribe(c) \/ Reconnect(c) \/ Follow(c)
         \/ /\ UNCHANGED <<history, stream>>
            /\ \/ pending' = pending
               \/ /\ pending["executor"].at = "nowhere"
                  /\ pending'["executor"].at = "summary"
<1> DEFINE x == "executor"
           Quiet == /\ UNCHANGED <<history, stream>>
                    /\ \/ pending' = pending
                       \/ pending[x].at = "nowhere" /\ pending'[x].at = "summary"
<1>1. pending \in [Actors -> Emission] /\ Actors = {x}
  BY DEF TypeOK, Actors
<1>2. ASSUME NEW step, NEW kind, NEW next, Announce(x, step, kind, next) PROVE Quiet
  BY <1>1, <1>2 DEF Announce, At, Emitting
<1>3. ASSUME NEW step, NEW verdict, NEW next, Settle(x, step, verdict, next) PROVE Quiet
  BY <1>3 DEF Settle
<1>4. CASE Worker
  BY <1>4 DEF Worker, Checkpoint, CheckpointCancelled, SendProgress, SendObservation,
              SendFrame, Compute, record
<1>5. CASE Execute
  <2>1. CASE Spawn \/ Abandon \/ Receive \/ Join \/ StoreArtifact
    BY <2>1 DEF Spawn, Abandon, Receive, Join, StoreArtifact, Silent, record
  <2> QED
    BY <1>2, <1>3, <1>5, <2>1 DEF Execute
<1>6. CASE FinishCancelled(x)
  BY <1>2, <1>3, <1>6 DEF FinishCancelled
<1>7. CASE UNCHANGED vars
  BY <1>7 DEF vars, record
<1> QED
  BY <1>1, <1>4, <1>5, <1>6, <1>7 DEF Next

LEMMA StreamInvNext ==
  ASSUME TypeOK, Callers = {}, MostEvents <= BroadcastCapacity,
         EventsInv, PlaceInv, StreamInv, [Next]_vars
  PROVE  StreamInv'
<1> DEFINE x == "executor"
<1>1. /\ history \in Seq(Event) /\ Len(history) \in Nat
      /\ stream \in [Clients -> Following]
      /\ pending \in [Actors -> Emission] /\ x \in Actors
  BY DEF TypeOK, Following, Actors
<1>2. \A c \in Clients : stream[c] \in Following /\ Follows(history, Offered, stream[c])
  BY <1>1 DEF StreamInv
<1>3. CASE EmitSummary(x)
  <2>1. /\ UNCHANGED <<history, stream>> /\ pending[x].at = "summary"
        /\ pending'[x] = [pending[x] EXCEPT !.at = "history"]
    BY <1>1, <1>3 DEF EmitSummary
  <2>2. pending'[x].at = "history"
    BY <1>1, <2>1 DEF Emission
  <2>3. Offered' = Offered
    BY <2>1, <2>2 DEF Offered
  <2> QED
    BY <2>1, <2>3 DEF StreamInv
<1>4. CASE EmitHistory(x)
  <2> DEFINE e == pending[x].event
  <2>1. /\ history' = Append(history, e) /\ stream' = stream /\ pending[x].at = "history"
        /\ pending'[x] = [pending[x] EXCEPT !.at = "streams"]
    BY <1>1, <1>4 DEF EmitHistory
  <2>2. pending'[x].at = "streams" /\ e \in Event
    BY <1>1, <2>1 DEF Emission
  <2>3. Len(history') = Len(history) + 1
    BY <1>1, <2>1, <2>2
  <2>4. Offered = Len(history) /\ Offered' = Len(history)
    BY <1>1, <2>1, <2>2, <2>3 DEF Offered
  <2>5. \A c \in Clients : Follows(Append(history, e), Len(history), stream[c])
    BY <1>1, <1>2, <2>2, <2>4, FollowsLonger
  <2> QED
    BY <2>1, <2>4, <2>5 DEF StreamInv
<1>5. CASE EmitStreams(x)
  <2>1. /\ history' = history /\ pending[x].at = "streams" /\ pending'[x].at = "nowhere"
        /\ \A c \in Clients :
             stream'[c] = [stream[c] EXCEPT !.sub = Offer(@, pending[x].event)]
    BY <1>1, <1>5 DEF EmitStreams, NotEmitting, record
  <2>2. /\ history # <<>> /\ Offered = Len(history) - 1
        /\ pending[x].event = history[Len(history)]
    BY <2>1, OfferedType
  <2>3. Offered' = Len(history)
    BY <1>1, <2>1 DEF Offered
  <2>4. Len(history) <= BroadcastCapacity
    <3>1. nextSequence = Len(history)
      BY <2>1 DEF PlaceInv
    <3>2. nextSequence <= MostEvents
      BY LeftAreNumbers DEF EventsInv, MostEvents
    <3> QED
      BY <1>1, <3>1, <3>2, LeftAreNumbers, StudioAssumption DEF MostEvents
  <2>5. ASSUME NEW c \in Clients
        PROVE  Follows(history, Len(history), stream'[c])
    <3> DEFINE s == stream[c]
    <3>1. s \in Following /\ Follows(history, Len(history) - 1, s)
      BY <1>2, <2>2
    <3>2. stream'[c] = [s EXCEPT !.sub = Offer(@, history[Len(history)])]
      BY <2>1, <2>2
    <3> HIDE DEF s
    <3>3. Follows(history, Len(history), [s EXCEPT !.sub = Offer(@, history[Len(history)])])
      BY <1>1, <2>2, <2>4, <3>1, FollowsOffered
    <3> QED
      BY <3>2, <3>3
  <2> QED
    BY <2>1, <2>3, <2>5 DEF StreamInv
<1>6. ASSUME NEW c \in Clients, Subscribe(c) \/ Reconnect(c) \/ Follow(c) PROVE StreamInv'
  <2>1. /\ UNCHANGED <<history, pending>>
        /\ \A d \in Clients \ {c} : stream'[d] = stream[d]
    BY <1>6, OtherStreams
  <2>2. Offered' = Offered
    BY <2>1 DEF Offered
  <2>3. Follows(history, Offered, stream'[c])
    BY <1>2, <1>6, ClientStep
  <2> QED
    BY <1>2, <2>1, <2>2, <2>3 DEF StreamInv
<1>7. CASE /\ UNCHANGED <<history, stream>>
           /\ \/ pending' = pending
              \/ pending[x].at = "nowhere" /\ pending'[x].at = "summary"
  <2>1. Offered' = Offered
    BY <1>7 DEF Offered
  <2> QED
    BY <1>7, <2>1 DEF StreamInv
<1> QED
  BY <1>3, <1>4, <1>5, <1>6, <1>7, RunSteps DEF Emit

LEMMA StreamsShowHistory ==
  ASSUME TypeOK, Callers = {}, PlaceInv, StreamInv
  PROVE  NothingMissed /\ DeliveredInOrder
<1> SUFFICES ASSUME NEW c \in Clients
             PROVE  /\ CaughtUp(c) => \A i \in DOMAIN history : \E j \in DOMAIN stream[c].received :
                                        stream[c].received[j] = history[i]
                    /\ \A i, j \in DOMAIN stream[c].received : i < j =>
                         stream[c].received[i].sequence < stream[c].received[j].sequence
  BY DEF NothingMissed, DeliveredInOrder
<1> DEFINE s == stream[c]
           received == s.received
<1>1. /\ history \in Seq(Event) /\ Len(history) \in Nat /\ DOMAIN history = 1 .. Len(history)
      /\ s \in Following /\ Follows(history, Offered, s)
      /\ Placed(history) /\ Offered \in 0 .. Len(history)
  BY OfferedType DEF TypeOK, Following, PlaceInv, StreamInv
<1>2. /\ received \in Seq(Event) /\ Len(received) \in Nat
      /\ DOMAIN received = 1 .. Len(received)
  BY <1>1, FollowingType
<1>3. /\ Len(received) <= Len(history)
      /\ \A i \in DOMAIN received : i \in DOMAIN history /\ received[i] = history[i]
  <2>1. Part(history, 0, received)
    BY <1>1 DEF Follows
  <2> HIDE DEF received
  <2>2. 0 + Len(received) <= Len(history) /\ \A i \in DOMAIN received : received[i] = history[0 + i]
    BY <2>1 DEF Part
  <2> QED
    BY <1>1, <1>2, <2>2
<1>4. ASSUME NEW i \in DOMAIN received, NEW j \in DOMAIN received, i < j
      PROVE  received[i].sequence < received[j].sequence
  <2>1. received[i].sequence = i - 1 /\ received[j].sequence = j - 1
    BY <1>1, <1>3 DEF Placed
  <2> HIDE DEF received
  <2> QED
    BY <1>2, <1>4, <2>1
<1>5. ASSUME CaughtUp(c)
      PROVE  DOMAIN history \subseteq DOMAIN received
  <2>1. /\ s.sub.stage = "streaming" /\ s.sub.backlog = <<>> /\ s.sub.queue = <<>>
        /\ pending["executor"].at = "nowhere"
    BY <1>5 DEF CaughtUp, Emitting, Actors
  <2>2. Offered = Len(history)
    BY <2>1, OfferedType
  <2>3. Taken(Offered, s) = Len(history) /\ Shown(s) = Copied(s) /\ Copied(s) \in Nat
    <3>1. Copied(s) \in Nat
      BY <1>1, PositionType
    <3> QED
      BY <1>1, <2>1, <2>2, <3>1 DEF Taken, Shown
  <2>4. Copied(s) <= Len(received) /\ (Len(history) <= Copied(s) \/ Len(history) <= Len(received))
    BY <1>1, <2>1, <2>3 DEF Follows
  <2> HIDE DEF received
  <2>5. Len(history) <= Len(received)
    BY <1>1, <1>2, <2>3, <2>4
  <2> QED
    BY <1>1, <1>2, <2>5
<1>6. ASSUME CaughtUp(c), NEW i \in DOMAIN history
      PROVE  \E j \in DOMAIN received : received[j] = history[i]
  BY <1>3, <1>5, <1>6
<1> QED
  BY <1>4, <1>6

StreamsIInv == TypeOK /\ EventsInv /\ PlaceInv /\ StreamInv

LEMMA StreamsIInvAlways ==
  ASSUME Callers = {}, MostEvents <= BroadcastCapacity
  PROVE  Spec => []StreamsIInv
<1>1. Init => StreamsIInv
  BY TypeOKInit, EventsInvInit, PlaceInvInit, StreamInvInit DEF StreamsIInv
<1>2. StreamsIInv /\ [Next]_vars => StreamsIInv'
  BY TypeOKNext, EventsInvNext, PlaceInvNext, StreamInvNext DEF StreamsIInv
<1> QED
  BY <1>1, <1>2, PTL DEF Spec

(* A client that follows a run which is left to itself has seen all of it   *)
(* once it has caught up, whenever it subscribes and however often it drops *)
(* its stream and reconnects: for any number of clients and any length of   *)
(* run whose events fit the broadcast buffer.  With requests this fails, as *)
(* the run on a cancelled run shows; and a stream that falls further behind *)
(* loses its oldest events.                                                 *)
THEOREM NothingEverMissed ==
  ASSUME Callers = {}, MostEvents <= BroadcastCapacity
  PROVE  Spec => []NothingMissed
<1>1. StreamsIInv => NothingMissed
  BY StreamsShowHistory DEF StreamsIInv
<1> QED
  BY <1>1, StreamsIInvAlways, PTL

(* And it sees the events in the order of their numbers, also where the     *)
(* copy of the history and the live events overlap.                         *)
THEOREM AlwaysDeliveredInOrder ==
  ASSUME Callers = {}, MostEvents <= BroadcastCapacity
  PROVE  Spec => []DeliveredInOrder
<1>1. StreamsIInv => DeliveredInOrder
  BY StreamsShowHistory DEF StreamsIInv
<1> QED
  BY <1>1, StreamsIInvAlways, PTL
=============================================================================

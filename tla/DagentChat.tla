----------------------------- MODULE DagentChat -----------------------------
(***************************************************************************)
(* One live runtime and its session: Send, runLoop, settle, Abort, Close, *)
(* emit and the observable queues (internal/adapter/dagent/chat.go and    *)
(* queue.go), with liveChat.pump at the other end of the event channel.   *)
(*                                                                         *)
(* chat.mu, dispatchMu and the mutex of each queue are held for one action *)
(* at a time, except dispatchMu, which a Send holds to its end.  Reading  *)
(* the queues, storing what was read, reading the status and emitting it  *)
(* are four critical sections, and every goroutine that reports a change  *)
(* goes through them on its own.                                           *)
(*                                                                         *)
(* docker-agent's runtime is external: a stream that is not cancelled     *)
(* ends once it has found both queues empty, a cancelled one at any time. *)
(* A message is its number, an event is the run state it carries or       *)
(* "other".  The session row and the titles are left out.                  *)
(***************************************************************************)
EXTENDS Naturals, Sequences, SequencesExt

CONSTANTS Senders,        \* concurrent requests to send a message
          Aborters,       \* concurrent requests to stop the turn
          Closers,        \* the request that disposes of the chat, if any
          QueueCapacity,  \* capacity of each queue
          EventCapacity,  \* the buffer of chat.events
          MaxSends,       \* bound: messages accepted
          MaxChunks       \* bound: stream events that are not about the run

ASSUME ChatAssumption == /\ QueueCapacity \in Nat \ {0}
                         /\ EventCapacity \in Nat \ {0}
                         /\ MaxSends \in Nat
                         /\ MaxChunks \in Nat
                         /\ \A c, d \in Closers : c = d  \* chatRegistry.remove

Modes   == {"steer", "followup"}
Turns   == 1..(MaxSends + 1)  \* Close takes a generation too
Send_   == {<<"send", s>> : s \in Senders}
Loops   == {<<"loop", g>> : g \in Turns}
Abort_  == {<<"abort", a>> : a \in Aborters}
Close_  == {<<"close", c>> : c \in Closers}
Threads == Send_ \cup Loops \cup Abort_ \cup Close_
States  == {"idle", "running", "stopping"}

VARIABLES
  run,         \* chat.run.State
  shownQueue,  \* chat.run.Queue: the depths reported to the browser
  generation,  \* chat.generation
  cancel,      \* chat.cancel: the turn it cancels, 0 for nil
  cancelled,   \* the turns whose context has been cancelled
  closed,      \* chat.closed
  speaking,    \* chat.curAssistant is set
  dispatch,    \* the holder of dispatchMu, or <<>>
  queue,       \* queue[m]: the messages of steerQueue and followQueue
  transcript,  \* the messages the session has got, in order
  sent,        \* messages accepted so far
  pc,          \* where each goroutine stands
  ret,         \* where it goes after reporting the run status
  local,       \* what it has read for that
  events,      \* chat.events
  chunks,      \* stream events so far
  live         \* liveChat.run.State

lockVars == <<run, shownQueue, generation, cancel, closed, speaking>>
turnVars == <<cancelled, queue, transcript, sent, chunks>>
threadVars == <<pc, ret, local>>
vars == <<lockVars, turnVars, dispatch, threadVars, events, live>>

Depths == [steer |-> Len(queue["steer"]), followup |-> Len(queue["followup"])]
NoDepths == [steer |-> 0, followup |-> 0]
NoLocal == [depths |-> NoDepths, state |-> "idle", mode |-> "steer", turn |-> 0]

Init ==
  /\ run = "idle" /\ shownQueue = NoDepths /\ generation = 0 /\ cancel = 0
  /\ cancelled = {} /\ closed = FALSE /\ speaking = FALSE /\ dispatch = <<>>
  /\ queue = [m \in Modes |-> <<>>]
  /\ transcript = <<>> /\ sent = 0
  /\ pc = [t \in Threads |-> "start"]
  /\ ret = [t \in Threads |-> "done"]
  /\ local = [t \in Threads |-> NoLocal]
  /\ events = <<>> /\ chunks = 0 /\ live = "idle"

-----------------------------------------------------------------------------
(* Reporting: refreshQueue, publishRun, emit. *)

Goto(t, label) == pc' = [pc EXCEPT ![t] = label]

\* Run refreshQueue and publishRun, then continue at label.
Report(t, label) == /\ Goto(t, "snapshot")
                    /\ ret' = [ret EXCEPT ![t] = label]

\* A full channel drops the event, and so does a closed chat.
Emit(ev) == events' = IF closed \/ Len(events) >= EventCapacity
                      THEN events ELSE Append(events, ev)

SnapshotSteer(t) ==
  /\ pc[t] = "snapshot"
  /\ local' = [local EXCEPT ![t].depths.steer = Len(queue["steer"])]
  /\ Goto(t, "snapshot2")
  /\ UNCHANGED <<lockVars, turnVars, dispatch, ret, events, live>>

SnapshotFollowUps(t) ==
  /\ pc[t] = "snapshot2"
  /\ local' = [local EXCEPT ![t].depths.followup = Len(queue["followup"])]
  /\ Goto(t, "store")
  /\ UNCHANGED <<lockVars, turnVars, dispatch, ret, events, live>>

\* A Send that starts a turn adds its message before it publishes.
StoreQueue(t) ==
  /\ pc[t] = "store"
  /\ shownQueue' = local[t].depths
  /\ local' = [local EXCEPT ![t].depths = NoDepths]
  /\ Goto(t, IF ret[t] = "launch" THEN "add" ELSE "publish")
  /\ UNCHANGED <<run, generation, cancel, closed, speaking, turnVars, dispatch,
                 ret, events, live>>

ReadRun(t) ==
  /\ pc[t] = "publish"
  /\ local' = [local EXCEPT ![t].state = run]
  /\ Goto(t, "emit")
  /\ UNCHANGED <<lockVars, turnVars, dispatch, ret, events, live>>

EmitRun(t) ==
  /\ pc[t] = "emit"
  /\ Emit(local[t].state)
  /\ Goto(t, ret[t])
  /\ ret' = [ret EXCEPT ![t] = "done"]
  /\ local' = [local EXCEPT ![t].state = "idle"]
  /\ UNCHANGED <<lockVars, turnVars, dispatch, live>>

Reporting(t) == \/ SnapshotSteer(t) \/ SnapshotFollowUps(t) \/ StoreQueue(t)
                \/ ReadRun(t) \/ EmitRun(t)

-----------------------------------------------------------------------------
(* Send. *)

\* Mutant: dispatchMu covers nothing, two requests both find the chat idle.
SendUnlocked(t, mode) ==
  /\ pc[t] = "start"
  /\ sent < MaxSends
  /\ ~closed
  /\ local' = [local EXCEPT ![t].mode = mode]
  /\ Goto(t, IF run = "idle" THEN "turn" ELSE "enqueue")
  /\ UNCHANGED <<lockVars, turnVars, dispatch, ret, events, live>>

\* dispatchMu is taken; the run state, not the requested mode, decides.
Send(t, mode) ==
  /\ pc[t] = "start"
  /\ sent < MaxSends
  /\ dispatch = <<>>
  /\ ~closed
  /\ dispatch' = t
  /\ local' = [local EXCEPT ![t].mode = mode]
  /\ Goto(t, IF run = "idle" THEN "turn" ELSE "enqueue")
  /\ UNCHANGED <<lockVars, turnVars, ret, events, live>>

\* Mutant: one message too many.
EnqueueOver(t) ==
  /\ pc[t] = "enqueue"
  /\ local' = [local EXCEPT ![t] = NoLocal]
  /\ LET m == local[t].mode
     IN IF Len(queue[m]) <= QueueCapacity
        THEN /\ sent' = sent + 1
             /\ queue' = [queue EXCEPT ![m] = Append(@, sent + 1)]
             /\ Report(t, "unlock")
        ELSE /\ Goto(t, "unlock")
             /\ UNCHANGED <<sent, queue, ret>>
  /\ UNCHANGED <<lockVars, cancelled, transcript, chunks,
                 dispatch, events, live>>

\* Steer and FollowUp end in Enqueue; a full queue refuses the message.
Enqueue(t) ==
  /\ pc[t] = "enqueue"
  /\ local' = [local EXCEPT ![t] = NoLocal]
  /\ LET m == local[t].mode
     IN IF Len(queue[m]) < QueueCapacity
        THEN /\ sent' = sent + 1
             /\ queue' = [queue EXCEPT ![m] = Append(@, sent + 1)]
             /\ Report(t, "unlock")
        ELSE /\ Goto(t, "unlock")
             /\ UNCHANGED <<sent, queue, ret>>
  /\ UNCHANGED <<lockVars, cancelled, transcript, chunks,
                 dispatch, events, live>>

\* A new turn: generation, context and status change together.
StartTurn(t) ==
  /\ pc[t] = "turn"
  /\ generation' = generation + 1
  /\ cancel' = generation + 1
  /\ run' = "running"
  /\ shownQueue' = NoDepths
  /\ speaking' = FALSE
  /\ local' = [local EXCEPT ![t].turn = generation + 1]
  /\ Report(t, "launch")
  /\ UNCHANGED <<closed, cancelled, queue, transcript, sent, chunks,
                 dispatch, events, live>>

AddMessage(t) ==
  /\ pc[t] = "add"
  /\ sent' = sent + 1
  /\ transcript' = Append(transcript, sent + 1)
  /\ Goto(t, "publish")
  /\ UNCHANGED <<lockVars, cancelled, queue, chunks, dispatch,
                 ret, local, events, live>>

\* go runLoop(gen), and Send returns.
Launch(t) ==
  /\ pc[t] = "launch"
  /\ dispatch' = <<>>
  /\ pc' = [pc EXCEPT ![t] = "start", ![<<"loop", local[t].turn>>] = "stream"]
  /\ local' = [local EXCEPT ![t] = NoLocal]
  /\ UNCHANGED <<lockVars, turnVars, ret, events, live>>

Unlock(t) ==
  /\ pc[t] = "unlock"
  /\ dispatch' = <<>>
  /\ Goto(t, "start")
  /\ UNCHANGED <<lockVars, turnVars, ret, local, events, live>>

\* The rest of a Send that has begun.
Sending(t) == Enqueue(t) \/ StartTurn(t) \/ AddMessage(t) \/ Launch(t) \/ Unlock(t)

-----------------------------------------------------------------------------
(* runLoop and the runtime's stream. *)

Turn(t) == t[2]

\* The stream hands out an event, which a stale loop throws away.
Chunk(t) ==
  /\ pc[t] = "stream"
  /\ chunks < MaxChunks
  /\ chunks' = chunks + 1
  /\ IF generation = Turn(t) /\ ~closed
     THEN speaking' = TRUE /\ Emit("other")
     ELSE UNCHANGED <<speaking, events>>
  /\ UNCHANGED <<run, shownQueue, generation, cancel, closed, cancelled, queue,
                 transcript, sent, dispatch, threadVars, live>>

\* Mutant: Drain forgets to empty the queue.
TakeSteerKept(t) ==
  /\ pc[t] = "stream"
  /\ queue["steer"] # <<>>
  /\ transcript' = transcript \o queue["steer"]
  /\ Report(t, "stream")
  /\ UNCHANGED <<lockVars, cancelled, queue, sent, chunks, dispatch,
                 local, events, live>>

\* The runtime drains the steering queue ...
TakeSteer(t) ==
  /\ pc[t] = "stream"
  /\ queue["steer"] # <<>>
  /\ transcript' = transcript \o queue["steer"]
  /\ queue' = [queue EXCEPT !["steer"] = <<>>]
  /\ Report(t, "stream")
  /\ UNCHANGED <<lockVars, cancelled, sent, chunks, dispatch,
                 local, events, live>>

\* ... and takes the follow-ups one at a time.
TakeFollowUp(t) ==
  /\ pc[t] = "stream"
  /\ queue["followup"] # <<>>
  /\ transcript' = Append(transcript, Head(queue["followup"]))
  /\ queue' = [queue EXCEPT !["followup"] = Tail(@)]
  /\ Report(t, "stream")
  /\ UNCHANGED <<lockVars, cancelled, sent, chunks, dispatch,
                 local, events, live>>

\* The runtime's last look at its queues; the event channel closes.
StreamEnds(t) ==
  /\ pc[t] = "stream"
  /\ Turn(t) \in cancelled \/ \A m \in Modes : queue[m] = <<>>
  /\ Goto(t, "ended")
  /\ UNCHANGED <<lockVars, turnVars, dispatch, ret, local, events, live>>

\* settle, by a loop whose generation is over.
SettleStale(t) ==
  /\ pc[t] = "ended"
  /\ generation # Turn(t)
  /\ Goto(t, "done")
  /\ UNCHANGED <<lockVars, turnVars, dispatch, ret, local, events, live>>

\* settle unlocks to emit the end of an open assistant message.
SettleSpeaking(t) ==
  /\ pc[t] = "ended"
  /\ generation = Turn(t)
  /\ speaking
  /\ speaking' = FALSE
  /\ Goto(t, "assistant_end")
  /\ UNCHANGED <<run, shownQueue, generation, cancel, closed, turnVars, dispatch,
                 ret, local, events, live>>

AssistantEnd(t) ==
  /\ pc[t] = "assistant_end"
  /\ Emit("other")
  /\ Goto(t, "settle")
  /\ UNCHANGED <<lockVars, turnVars, dispatch, ret, local, live>>

SettleIdle(t) ==
  /\ \/ pc[t] = "ended" /\ generation = Turn(t) /\ ~speaking
     \/ pc[t] = "settle"
  /\ run' = "idle"
  /\ shownQueue' = NoDepths
  /\ cancel' = 0
  /\ Report(t, "meta")
  /\ UNCHANGED <<generation, closed, speaking, turnVars, dispatch, local, events,
                 live>>

SettleMeta(t) ==
  /\ pc[t] = "meta"
  /\ Emit("other")
  /\ Goto(t, "done")
  /\ UNCHANGED <<lockVars, turnVars, dispatch, ret, local, live>>

Running(t) == \/ Chunk(t) \/ TakeSteer(t) \/ TakeFollowUp(t) \/ StreamEnds(t)

Settling(t) == \/ SettleStale(t) \/ SettleSpeaking(t) \/ AssistantEnd(t)
               \/ SettleIdle(t) \/ SettleMeta(t)

-----------------------------------------------------------------------------
(* Abort and Close. *)

Waiting == UNION {Range(queue[m]) : m \in Modes}

\* Mutant: Abort reports the chat idle at once.
AbortIdle(t) ==
  /\ pc[t] = "start"
  /\ run' = "idle"
  /\ local' = [local EXCEPT ![t].turn = cancel]
  /\ pc' = [pc EXCEPT ![t] = "publish"]
  /\ ret' = [ret EXCEPT ![t] = "cancel"]
  /\ UNCHANGED <<shownQueue, generation, cancel, closed, speaking, cancelled,
                 queue, transcript, sent, chunks, dispatch, events, live>>

\* The status goes to stopping, and the cancel function is read, under the lock.
Abort(t) ==
  /\ pc[t] = "start"
  /\ run' = IF run = "running" THEN "stopping" ELSE run
  /\ local' = [local EXCEPT ![t].turn = cancel]
  /\ pc' = [pc EXCEPT ![t] = "publish"]
  /\ ret' = [ret EXCEPT ![t] = "cancel"]
  /\ UNCHANGED <<shownQueue, generation, cancel, closed, speaking, cancelled,
                 queue, transcript, sent, chunks, dispatch, events, live>>

\* Mutant: chat.cancel is read again after the publish.
CancelLatest(t) ==
  /\ pc[t] = "cancel"
  /\ cancelled' = cancelled \cup ({cancel} \ {0})
  /\ local' = [local EXCEPT ![t] = NoLocal]
  /\ Goto(t, IF t \in Close_ THEN "close" ELSE "done")
  /\ UNCHANGED <<lockVars, queue, transcript, sent, chunks,
                 dispatch, ret, events, live>>

\* Mutant: the cancel function is never called.
CancelNothing(t) ==
  /\ pc[t] = "cancel"
  /\ local' = [local EXCEPT ![t] = NoLocal]
  /\ Goto(t, IF t \in Close_ THEN "close" ELSE "done")
  /\ UNCHANGED <<lockVars, turnVars, dispatch, ret, events, live>>

\* The function is called after unlocking and publishing.
Cancel(t) ==
  /\ pc[t] = "cancel"
  /\ cancelled' = cancelled \cup ({local[t].turn} \ {0})
  /\ local' = [local EXCEPT ![t] = NoLocal]
  /\ Goto(t, IF t \in Close_ THEN "close" ELSE "done")
  /\ UNCHANGED <<lockVars, queue, transcript, sent, chunks,
                 dispatch, ret, events, live>>

Close(t) ==
  /\ pc[t] = "close"
  /\ closed' = TRUE
  /\ generation' = generation + 1
  /\ Goto(t, "runtime")
  /\ UNCHANGED <<run, shownQueue, cancel, speaking, turnVars, dispatch, ret,
                 local, events, live>>

\* The runtime, the toolsets and the channel are closed; nobody waits for the
\* loop.
CloseRuntime(t) ==
  /\ pc[t] = "runtime"
  /\ Goto(t, "done")
  /\ UNCHANGED <<lockVars, turnVars, dispatch, ret, local, events, live>>

Stopping(t) == Cancel(t) \/ Close(t) \/ CloseRuntime(t)

\* Nobody has begun to dispose of the chat.
Open == \A t \in Close_ : pc[t] = "start"

-----------------------------------------------------------------------------
\* liveChat.pump and applyLocked; a chat that is being closed drops the event.
Pump ==
  /\ events # <<>>
  /\ events' = Tail(events)
  /\ live' = IF Head(events) \in States /\ Open
             THEN Head(events) ELSE live
  /\ UNCHANGED <<lockVars, turnVars, dispatch, threadVars>>

Next == \/ \E t \in Send_ : Sending(t) \/ \E mode \in Modes : Send(t, mode)
        \/ \E t \in Loops : Running(t) \/ Settling(t)
        \/ \E t \in Abort_ \cup Close_ : Abort(t) \/ Stopping(t)
        \/ \E t \in Threads : Reporting(t)
        \/ Pump

Spec == Init /\ [][Next]_vars

\* Goroutines run, the event channel is pumped, and a cancelled stream ends.
\* Nothing obliges a turn to end by itself or a user to do anything.
Fairness == /\ \A t \in Threads : WF_vars(Reporting(t))
            /\ \A t \in Send_ : WF_vars(Sending(t))
            /\ \A t \in Loops : /\ WF_vars(Settling(t))
                                /\ WF_vars(Turn(t) \in cancelled /\ StreamEnds(t))
            /\ \A t \in Abort_ \cup Close_ : WF_vars(Stopping(t))
            /\ WF_vars(Pump)

FairSpec == Spec /\ Fairness

-----------------------------------------------------------------------------
(* Properties. *)

\* A goroutine is reporting, and goes back to label afterwards.
ReportingTo(t, label) ==
  ret[t] = label /\ pc[t] \in {"snapshot", "snapshot2", "store", "publish", "emit"}

InStream(t) == pc[t] = "stream" \/ ReportingTo(t, "stream")

AtRest(t) == pc[t] \in {"start", "done"}

Quiet == \A t \in Threads : AtRest(t) \/ pc[t] = "stream"

Settled == run = "idle" /\ \A t \in Threads : AtRest(t)

Labels == {"start", "turn", "enqueue", "add", "launch", "unlock", "snapshot",
           "snapshot2", "store", "publish", "emit", "stream", "ended",
           "assistant_end", "settle", "meta", "cancel", "close", "runtime", "done"}
Returns == {"launch", "unlock", "stream", "meta", "cancel", "done"}
Depth == [steer : Nat, followup : Nat]
Local == [depths : Depth, state : States, mode : Modes, turn : Nat]

TypeOK ==
  /\ run \in States /\ live \in States
  /\ shownQueue \in Depth
  /\ generation \in Nat /\ cancel \in Nat /\ sent \in Nat /\ chunks \in Nat
  /\ cancelled \subseteq Turns /\ closed \in BOOLEAN /\ speaking \in BOOLEAN
  /\ dispatch \in Send_ \cup {<<>>}
  /\ queue \in [Modes -> Seq(Nat)] /\ \A m \in Modes : Len(queue[m]) <= QueueCapacity
  /\ transcript \in Seq(Nat)
  /\ pc \in [Threads -> Labels] /\ ret \in [Threads -> Returns]
  /\ local \in [Threads -> Local]
  /\ events \in Seq(States \cup {"other"}) /\ Len(events) <= EventCapacity

\* However many requests race, the session is driven by one stream at a time:
\* dispatchMu makes the look at the run state and the new turn one operation
\* (Send, settle).
OneStream ==
  \A t, u \in Loops : InStream(t) /\ InStream(u) => t = u

\* No accepted message is lost or delivered twice: each one is in exactly one
\* of the session, the steering queue and the follow-up queue (Enqueue, Drain,
\* Dequeue, Send).
EveryMessageOnce ==
  /\ sent = Len(transcript) + Len(queue["steer"]) + Len(queue["followup"])
  /\ 1..sent = Range(transcript) \cup Waiting

\* A chat is not reported idle before its stream has closed, not even when it
\* is aborted (Abort, settle).
IdleHasNoStream == run = "idle" => \A t \in Loops : ~InStream(t)

\* t has started a turn, or drives it, or has yet to settle it.
Busy(t) ==
  \/ t \in Send_ /\ (pc[t] \in {"add", "launch"} \/ ReportingTo(t, "launch"))
  \/ t \in Loops /\ (pc[t] \in {"stream", "ended", "assistant_end", "settle"}
                       \/ ReportingTo(t, "stream"))

\* Something drives the session.
Driving == \E t \in Threads : Busy(t)

Contract == INSTANCE ChatContract WITH
  Messages <- 1..MaxSends, driving <- Driving, waiting <- Waiting,
  delivered <- Range(transcript), lost <- {}

\* The contract of adapter.Chat is kept, with Send, settle, Abort and Close in as many
\* critical sections as they have: one turn at a time, idle when nothing drives the
\* session, every message delivered at most once, during a turn, and none given up.
ContractKept == Contract!Spec

\* Abort stops the turn it was asked to stop: a late cancel never hits a turn
\* that was started after it.
CancelledIsStopping ==
  \A t \in Loops : InStream(t) /\ Turn(t) \in cancelled => run = "stopping"

\* An aborted turn comes to its end, through all that settle has to do, unless
\* the chat is closed.
AbortSettles == run = "stopping" ~> (run # "stopping" \/ closed)

-----------------------------------------------------------------------------
(* What the code says of itself and does not do. *)

\* "Confirm the runtime really is idle and both queues are drained before
\* reporting a settled turn" (settle): a chat at rest has nothing waiting.
QueuesDrained == Settled /\ cancelled = {} => Waiting = {}
=============================================================================

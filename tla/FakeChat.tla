------------------------------ MODULE FakeChat ------------------------------
(***************************************************************************)
(* One chat of the deterministic adapter that the tests of the server, of  *)
(* the dashboard and of the plugins run on: Send, the scripted turn,       *)
(* settle, Abort, Close and the changes of settings                        *)
(* (internal/adapter/fake/fake.go).                                        *)
(*                                                                         *)
(* An action is one critical section of chat.mu or Adapter.mu, or one      *)
(* emit.  dispatchMu is held to the end of a Send; the script of a turn    *)
(* is a goroutine that ends by settling and may Send a follow-up itself.   *)
(* A message is its number; in the session's items a 0 stands for what     *)
(* the script and Compact add.  Texts, identifiers, usage and the values   *)
(* of settings are left out, and so are the catalogues it lists.           *)
(***************************************************************************)
EXTENDS Naturals, Sequences, SequencesExt

CONSTANTS Senders,        \* concurrent requests to send a message
          Aborters,       \* concurrent requests to stop the turn
          Closers,        \* requests that dispose of the chat
          Configurers,    \* requests that change a setting or compact
          Kinds,          \* what the prompts ask the script to do
          EventCapacity,  \* the buffer of chat.events
          MaxSends        \* bound: messages accepted

ASSUME FakeAssumption ==
  /\ EventCapacity \in Nat \ {0}
  /\ MaxSends \in Nat
  /\ Kinds \subseteq {"tool", "transfer", "notice", "plain"}

Queues  == {"steer", "followup"}
States  == {"idle", "running", "stopping"}
Turns   == 1..MaxSends  \* a turn has a message
Send_   == {<<"send", s>> : s \in Senders}
Scripts == {<<"script", g>> : g \in Turns}
Abort_  == {<<"abort", a>> : a \in Aborters}
Close_  == {<<"close", c>> : c \in Closers}
Config_ == {<<"config", c>> : c \in Configurers}
Threads == Send_ \cup Scripts \cup Abort_ \cup Close_ \cup Config_

VARIABLES
  run,        \* chat.run.State
  shown,      \* chat.run.Queue: the depths it reports
  gen,        \* chat.genID
  cancel,     \* chat.cancel: the turn it cancels, 0 for nil
  cancelled,  \* the turns whose context has been cancelled
  closed,     \* chat.closed
  dispatch,   \* the holder of dispatchMu, or <<>>
  queue,      \* chat.steer and chat.followUp
  items,      \* storedSession.items
  sent,       \* messages accepted so far
  lost,       \* the accepted messages that were dropped
  pc,         \* where each goroutine stands
  local,      \* what it holds
  events,     \* how many there are in chat.events
  shownAt     \* the turn and the place in it of the last item it emitted

lockVars == <<run, shown, gen, cancel, closed, queue>>
storeVars == <<items, sent, lost>>
vars == <<lockVars, cancelled, dispatch, storeVars, pc, local, events, shownAt>>

NoDepths == [q \in Queues |-> 0]
NoLocal == [msg |-> 0, turn |-> 0, pos |-> 0, kind |-> "plain"]

\* OpenChat, of a session without items.
Init ==
  /\ run = "idle" /\ shown = NoDepths /\ gen = 0 /\ cancel = 0
  /\ cancelled = {} /\ closed = FALSE /\ dispatch = <<>>
  /\ queue = [q \in Queues |-> <<>>]
  /\ items = <<>> /\ sent = 0 /\ lost = {}
  /\ pc = [t \in Threads |-> "start"]
  /\ local = [t \in Threads |-> NoLocal]
  /\ events = 0 /\ shownAt = <<0, 0>>

Goto(t, label) == pc' = [pc EXCEPT ![t] = label]

\* A request may be made again, a script is over.
Rest(t) == IF t \in Scripts THEN "done" ELSE "start"

-----------------------------------------------------------------------------
(* emit: the closed check and the send are under one lock; a full channel
   drops the event.                                                         *)

\* Mutant: one event more than the channel holds.
OfferOver == events' = IF closed \/ events > EventCapacity THEN events ELSE events + 1

Offer == events' = IF closed \/ events >= EventCapacity THEN events ELSE events + 1

Emit == Offer /\ UNCHANGED shownAt

\* An item of the session's timeline, which has its place in the turns.
EmitAt(turn, pos) == Offer /\ shownAt' = <<turn, pos>>

-----------------------------------------------------------------------------
(* Send. *)

Effective(mode) == IF run = "idle" THEN "normal"
                   ELSE IF mode = "normal" THEN "steer" ELSE mode

\* A message gets its number when it is accepted, a follow-up has one.
Number(t) == IF local[t].msg = 0 THEN sent + 1 ELSE local[t].msg
Counted(t) == sent' = IF local[t].msg = 0 THEN sent + 1 ELSE sent

\* ErrClosed, and ErrBusy for a turn that is stopping.
Refuse(t) ==
  /\ closed \/ run = "stopping"
  /\ lost' = lost \cup ({local[t].msg} \ {0})
  /\ local' = [local EXCEPT ![t] = NoLocal]
  /\ Goto(t, Rest(t))
  /\ UNCHANGED <<lockVars, cancelled, dispatch, items, sent, events, shownAt>>

\* A message for the running turn is queued, and the queue shown.
Queue(t, mode) ==
  /\ ~closed /\ run = "running"
  /\ LET q == Effective(mode)
     IN /\ queue' = [queue EXCEPT ![q] = Append(@, Number(t))]
        /\ shown' = [shown EXCEPT ![q] = Len(queue[q]) + 1]
  /\ Counted(t)
  /\ dispatch' = t
  /\ local' = [local EXCEPT ![t] = NoLocal]
  /\ Goto(t, "tell")
  /\ UNCHANGED <<run, gen, cancel, closed, cancelled, items, lost, events, shownAt>>

\* A new turn: the follow-ups that are still waiting are no longer shown.
StartTurn(t) ==
  /\ ~closed /\ run = "idle" /\ gen + 1 \in Turns
  /\ gen' = gen + 1 /\ cancel' = gen + 1
  /\ run' = "running" /\ shown' = NoDepths
  /\ dispatch' = t
  /\ local' = [local EXCEPT ![t].turn = gen + 1]
  /\ Goto(t, "add")
  /\ UNCHANGED <<closed, queue, cancelled, storeVars, events, shownAt>>

\* dispatchMu is taken; the run state decides, under chat.mu.
Dispatch(t, mode) ==
  /\ dispatch = <<>>
  /\ Refuse(t) \/ Queue(t, mode) \/ StartTurn(t)

Send(t, mode) == pc[t] = "start" /\ sent < MaxSends /\ Dispatch(t, mode)

\* The status is emitted after the lock.
Tell(t) ==
  /\ pc[t] = "tell"
  /\ Emit
  /\ dispatch' = <<>>
  /\ local' = [local EXCEPT ![t] = NoLocal]
  /\ Goto(t, Rest(t))
  /\ UNCHANGED <<lockVars, cancelled, storeVars>>

\* appendUserMessage.
AddItem(t) ==
  /\ pc[t] = "add"
  /\ items' = Append(items, Number(t))
  /\ Counted(t)
  /\ local' = [local EXCEPT ![t].msg = 0]
  /\ Goto(t, "message")
  /\ UNCHANGED <<lockVars, cancelled, dispatch, lost, events, shownAt>>

EmitMessage(t) ==
  /\ pc[t] = "message"
  /\ EmitAt(local[t].turn, 0)
  /\ Goto(t, "meta")
  /\ UNCHANGED <<lockVars, cancelled, dispatch, storeVars, local>>

EmitMeta(t) ==
  /\ pc[t] = "meta"
  /\ Emit
  /\ Goto(t, "status")
  /\ UNCHANGED <<lockVars, cancelled, dispatch, storeVars, local>>

Announce(t) ==
  /\ pc[t] = "status"
  /\ Emit
  /\ Goto(t, "launch")
  /\ UNCHANGED <<lockVars, cancelled, dispatch, storeVars, local>>

\* go script(gen), for what the prompt asks, and Send returns.
Launch(t) ==
  /\ pc[t] = "launch"
  /\ LET turn == <<"script", local[t].turn>>
     IN /\ pc' = [pc EXCEPT ![t] = Rest(t), ![turn] = "script"]
        /\ \E kind \in Kinds :
             local' = [local EXCEPT ![t] = NoLocal,
                                    ![turn] = [NoLocal EXCEPT !.turn = local[t].turn,
                                                              !.pos = 1, !.kind = kind]]
  /\ dispatch' = <<>>
  /\ UNCHANGED <<lockVars, cancelled, storeVars, events, shownAt>>

Sending(t) == \/ Tell(t) \/ AddItem(t) \/ EmitMessage(t) \/ EmitMeta(t)
              \/ Announce(t) \/ Launch(t)

-----------------------------------------------------------------------------
(* The script of a turn. *)

Middle == [tool     |-> <<"tool_start", "tool_update", "pause", "tool_end", "keep">>,
           transfer |-> <<"transfer", "transfer">>,
           notice   |-> <<"notice">>,
           plain    |-> <<>>]

\* "pause" looks at the context, "keep" stores an item, the rest is emitted.
Script(kind) ==
  <<"message", "pause", "reasoning", "reasoning_end",
    "pause", "delta", "pause", "delta", "pause", "delta">>
  \o Middle[kind] \o <<"pause", "delta", "assistant_end", "keep", "usage">>

\* A pause at which the context is cancelled is the end of the script.
Play(t) ==
  /\ pc[t] = "script"
  /\ LET script == Script(local[t].kind)
         pos    == local[t].pos
         step   == script[pos]
         over   == \/ pos = Len(script)
                   \/ step = "pause" /\ local[t].turn \in cancelled
     IN /\ Goto(t, IF over THEN "settle" ELSE "script")
        /\ local' = [local EXCEPT ![t].pos = IF over THEN 0 ELSE pos + 1]
        /\ IF step \in {"pause", "keep"} THEN UNCHANGED <<events, shownAt>>
           ELSE EmitAt(local[t].turn, pos)
        /\ items' = IF step = "keep" THEN Append(items, 0) ELSE items
  /\ UNCHANGED <<lockVars, cancelled, dispatch, sent, lost>>

\* Of a turn that is not the chat's nothing is settled.
Stale(t) ==
  /\ local' = [local EXCEPT ![t] = NoLocal]
  /\ Goto(t, "done")
  /\ UNCHANGED <<lockVars, cancelled, dispatch, storeVars, events, shownAt>>

\* Mutant: the follow-up that is handed on stays in its queue.
SettledKeeps(t) ==
  /\ LET follow == queue["followup"]
         next   == IF follow = <<>> THEN 0 ELSE Head(follow)
     IN /\ queue' = [queue EXCEPT !["steer"] = <<>>]
        /\ shown' = [NoDepths EXCEPT !["followup"] = Len(follow)]
        /\ lost' = lost \cup Range(queue["steer"]) \cup (IF closed THEN {next} \ {0} ELSE {})
        /\ local' = [local EXCEPT ![t] = [NoLocal EXCEPT !.msg = IF closed THEN 0 ELSE next]]
  /\ run' = "idle" /\ cancel' = 0
  /\ Goto(t, IF closed THEN "done" ELSE "settled")
  /\ UNCHANGED <<gen, closed, cancelled, dispatch, items, sent, events, shownAt>>

\* The steering messages were for this turn, a follow-up is for the next.
Settled(t) ==
  /\ LET follow == queue["followup"]
         next   == IF follow = <<>> THEN 0 ELSE Head(follow)
         rest   == IF follow = <<>> THEN <<>> ELSE Tail(follow)
     IN /\ queue' = [queue EXCEPT !["steer"] = <<>>, !["followup"] = rest]
        /\ shown' = [NoDepths EXCEPT !["followup"] = Len(rest)]
        /\ lost' = lost \cup Range(queue["steer"]) \cup (IF closed THEN {next} \ {0} ELSE {})
        /\ local' = [local EXCEPT ![t] = [NoLocal EXCEPT !.msg = IF closed THEN 0 ELSE next]]
  /\ run' = "idle" /\ cancel' = 0
  /\ Goto(t, IF closed THEN "done" ELSE "settled")
  /\ UNCHANGED <<gen, closed, cancelled, dispatch, items, sent, events, shownAt>>

\* Mutant: a turn that is being stopped is not settled.
SettleRunning(t) ==
  /\ pc[t] = "settle"
  /\ IF gen = local[t].turn /\ run = "running" THEN Settled(t) ELSE Stale(t)

Settle(t) == /\ pc[t] = "settle"
             /\ IF gen = local[t].turn THEN Settled(t) ELSE Stale(t)

EmitIdle(t) ==
  /\ pc[t] = "settled"
  /\ Emit
  /\ Goto(t, IF local[t].msg = 0 THEN "done" ELSE "resend")
  /\ UNCHANGED <<lockVars, cancelled, dispatch, storeVars, local>>

\* The follow-up goes through Send like any other message.
Resend(t) == pc[t] = "resend" /\ Dispatch(t, "normal")

Settling(t) == Settle(t) \/ EmitIdle(t) \/ Resend(t)

-----------------------------------------------------------------------------
(* Abort and Close. *)

\* Mutant: Abort reports the chat idle at once.
AbortIdle(t) ==
  /\ pc[t] = "start"
  /\ run' = "idle"
  /\ UNCHANGED <<queue, shown, lost>>
  /\ local' = [local EXCEPT ![t].turn = cancel]
  /\ Goto(t, "stop")
  /\ UNCHANGED <<gen, cancel, closed, cancelled, dispatch, items, sent, events, shownAt>>

\* A running turn is stopping, and what is queued is dropped.
Abort(t) ==
  /\ pc[t] = "start"
  /\ IF run = "running"
     THEN /\ run' = "stopping"
          /\ queue' = [q \in Queues |-> <<>>] /\ shown' = NoDepths
          /\ lost' = lost \cup UNION {Range(queue[q]) : q \in Queues}
     ELSE UNCHANGED <<run, queue, shown, lost>>
  /\ local' = [local EXCEPT ![t].turn = cancel]
  /\ Goto(t, "stop")
  /\ UNCHANGED <<gen, cancel, closed, cancelled, dispatch, items, sent, events, shownAt>>

EmitStop(t) ==
  /\ pc[t] = "stop"
  /\ Emit
  /\ Goto(t, "cancel")
  /\ UNCHANGED <<lockVars, cancelled, dispatch, storeVars, local>>

\* The cancel function that was read under the lock is called.
Cancel(t) ==
  /\ pc[t] = "cancel"
  /\ cancelled' = cancelled \cup ({local[t].turn} \ {0})
  /\ local' = [local EXCEPT ![t] = NoLocal]
  /\ Goto(t, IF t \in Close_ THEN "close" ELSE "done")
  /\ UNCHANGED <<lockVars, dispatch, storeVars, events, shownAt>>

\* The channel is closed once.
Close(t) ==
  /\ pc[t] = "close"
  /\ closed' = TRUE
  /\ Goto(t, "done")
  /\ UNCHANGED <<run, shown, gen, cancel, queue, cancelled, dispatch, storeVars,
                 local, events, shownAt>>

Stopping(t) == EmitStop(t) \/ Cancel(t) \/ Close(t)

-----------------------------------------------------------------------------
(* SetModel, SetThinking and Compact look for an idle chat first. *)

CheckIdle(t) ==
  /\ pc[t] = "start" /\ run = "idle"
  /\ Goto(t, "write")
  /\ UNCHANGED <<lockVars, cancelled, dispatch, storeVars, local, events, shownAt>>

\* A turn may have begun meanwhile.  Retitle comes here at once.
Configure(t) ==
  /\ pc[t] \in {"start", "write"}
  /\ items' \in {items} \cup (IF pc[t] = "write" THEN {Append(items, 0)} ELSE {})
  /\ Goto(t, "notify")
  /\ UNCHANGED <<lockVars, cancelled, dispatch, sent, lost, local, events, shownAt>>

Notify(t) ==
  /\ pc[t] = "notify"
  /\ Emit
  /\ Goto(t, "done")
  /\ UNCHANGED <<lockVars, cancelled, dispatch, storeVars, local>>

-----------------------------------------------------------------------------
\* Whoever reads Events takes one.
Take ==
  /\ events > 0
  /\ events' = events - 1
  /\ UNCHANGED <<lockVars, cancelled, dispatch, storeVars, pc, local, shownAt>>

Next == \/ \E t \in Send_, mode \in Queues \cup {"normal"} : Send(t, mode)
        \/ \E t \in Send_ \cup Scripts : Sending(t)
        \/ \E t \in Scripts : Play(t) \/ Settling(t)
        \/ \E t \in Abort_ \cup Close_ : Abort(t) \/ Stopping(t)
        \/ \E t \in Config_ : CheckIdle(t) \/ Configure(t) \/ Notify(t)
        \/ Take

Spec == Init /\ [][Next]_vars

\* Goroutines run.
Fairness == /\ \A t \in Send_ \cup Scripts : WF_vars(Sending(t))
            /\ \A t \in Scripts : WF_vars(Play(t)) /\ WF_vars(Settling(t))
            /\ \A t \in Abort_ \cup Close_ : WF_vars(Stopping(t))

FairSpec == Spec /\ Fairness

-----------------------------------------------------------------------------
(* Properties. *)

Labels == {"start", "tell", "add", "message", "meta", "status", "launch",
           "script", "settle", "settled", "resend", "stop", "cancel", "close",
           "write", "notify", "done"}
Local == [msg : Nat, turn : Nat, pos : Nat, kind : Kinds \cup {"plain"}]

TypeOK ==
  /\ run \in States /\ shown \in [Queues -> Nat]
  /\ gen \in Nat /\ cancel \in Nat /\ cancelled \subseteq Nat /\ closed \in BOOLEAN
  /\ dispatch \in Send_ \cup Scripts \cup {<<>>}
  /\ queue \in [Queues -> Seq(Nat \ {0})]
  /\ items \in Seq(Nat) /\ sent \in Nat /\ lost \subseteq Nat \ {0}
  /\ pc \in [Threads -> Labels] /\ local \in [Threads -> Local]
  /\ events \in 0..EventCapacity
  /\ shownAt \in Nat \X Nat

\* A turn has begun, its script is not over, or it has not settled.
Drives(t) == pc[t] \in {"add", "message", "meta", "status", "launch",
                        "script", "settle"}
Driving == \E t \in Threads : Drives(t)

\* A message waits in a queue or with the goroutine that is to send it.
Waiting == Range(queue["steer"]) \cup Range(queue["followup"])
           \cup ({local[t].msg : t \in Scripts} \ {0})

Contract == INSTANCE ChatContract WITH
  Messages <- 1..MaxSends, driving <- Driving, waiting <- Waiting,
  delivered <- Range(items) \ {0}

\* The double keeps the contract of adapter.Chat: one turn at a time, idle when
\* nothing drives the session, messages delivered at most once and during a turn
\* (Send, settle, Abort).
ContractKept == Contract!Spec

Before(p, q) == p[1] < q[1] \/ (p[1] = q[1] /\ p[2] < q[2])

\* What a turn shows comes in the order of its script and after all of the turn
\* before it, however turns are stopped, settled and followed by others (script,
\* settle, Send).
EventsInOrder == [][shownAt' # shownAt => Before(shownAt, shownAt')]_vars

=============================================================================

------------------------------ MODULE RemoteStream ------------------------------
(***************************************************************************)
(* The events of a chat that runs in a sandbox: the runner's handler takes *)
(* them from the chat's channel (internal/runnerapi) and writes them to a  *)
(* connection that the host's adapter reads, and opens again when it breaks*)
(* (internal/adapter/remote).  Only changes of the run state are kept; they*)
(* are numbered, the odd ones "running" and the even ones "idle".          *)
(*                                                                         *)
(* chat.run of the adapter is left out.  Each snapshot overwrites it, one  *)
(* that failed with nothing, and Snapshot does so a second time while the  *)
(* live chat is being opened; but nobody on the host reads it.             *)
(***************************************************************************)
EXTENDS Naturals, Sequences

CONSTANTS MaxChanges,      \* bound: changes of the run state
          MaxConns,        \* bound: connections
          RunnerCapacity,  \* events the runner's channel holds (512)
          HostCapacity     \* events the host's channel holds (512)

VARIABLES state,     \* the run state of the chat in the runner
          queue,     \* its channel of events
          conn,      \* conn[i]: "none", "open", "left" by the host, or "done"
          wire,      \* wire[i]: events written to connection i and not yet read
          at,        \* where stream and streamOnce stand
          cur,       \* the connection they read, 0 for none yet
          snap,      \* the state of the last snapshot
          events,    \* chat.events of the adapter
          live,      \* the run state of the live chat
          dropped,   \* the last event that found the runner's channel full
          stolen     \* the last one written to a connection the host had left,
                     \* since the snapshot

streamVars == <<state, queue, conn, wire, at, cur, snap, events, live, dropped, stolen>>
hostVars == <<at, cur, snap, events, live>>
Conns == 1..MaxConns

Init ==
  /\ state = 0 /\ queue = <<>>
  /\ conn = [i \in Conns |-> "none"] /\ wire = [i \in Conns |-> <<>>]
  /\ at = "snapshot" /\ cur = 0 /\ snap = 0 /\ events = <<>> /\ live = 0
  /\ dropped = 0 /\ stolen = 0

-----------------------------------------------------------------------------
(* The runner.                                                               *)

FitsOneMore == Len(queue) <= RunnerCapacity  \* Mutant: one event too many
Fits == Len(queue) < RunnerCapacity

\* A turn starts or ends; the event is dropped at a full channel.
Change ==
  /\ state < MaxChanges /\ at # "closed"
  /\ state' = state + 1
  /\ IF Fits
     THEN queue' = Append(queue, state + 1) /\ UNCHANGED dropped
     ELSE dropped' = state + 1 /\ UNCHANGED queue
  /\ UNCHANGED <<conn, wire, hostVars, stolen>>

\* Server.events: an event is taken and then written, whoever reads it.
Take(i) ==
  /\ conn[i] \in {"open", "left"} /\ queue # <<>>
  /\ queue' = Tail(queue)
  /\ IF conn[i] = "open"
     THEN wire' = [wire EXCEPT ![i] = Append(@, Head(queue))] /\ UNCHANGED <<conn, stolen>>
     ELSE /\ stolen' = Head(queue) /\ UNCHANGED wire
          /\ conn' \in {conn, [conn EXCEPT ![i] = "done"]}  \* the write may fail
  /\ UNCHANGED <<state, hostVars, dropped>>

\* The context of the request ends the handler.
Notice(i) ==
  /\ conn[i] = "left"
  /\ conn' = [conn EXCEPT ![i] = "done"]
  /\ UNCHANGED <<state, queue, wire, hostVars, dropped, stolen>>

\* The connection breaks; what was on its way arrives in part.
Break(i) ==
  /\ conn[i] = "open"
  /\ conn' = [conn EXCEPT ![i] = "left"]
  /\ \E n \in 0..Len(wire[i]) : wire' = [wire EXCEPT ![i] = SubSeq(@, 1, n)]
  /\ UNCHANGED <<state, queue, hostVars, dropped, stolen>>

-----------------------------------------------------------------------------
(* streamOnce.                                                               *)

Goto(from, to) == at = from /\ at' = to
Fails(from) == Goto(from, "wait") /\ UNCHANGED <<snap, stolen>>

ReadSnapshot ==
  /\ \/ Goto("snapshot", "reconcile") /\ snap' = state /\ stolen' = 0
     \/ Fails("snapshot")
  /\ UNCHANGED <<state, queue, conn, wire, cur, events, live, dropped>>

ReconcileNot ==  \* Mutant: the stream is opened again and that is all
  /\ Goto("reconcile", "subscribe")
  /\ UNCHANGED <<state, queue, conn, wire, cur, snap, events, live, dropped, stolen>>

Reconcile ==
  /\ Goto("reconcile", "subscribe")
  /\ Len(events) < HostCapacity
  /\ events' = Append(events, snap)
  /\ UNCHANGED <<state, queue, conn, wire, cur, snap, live, dropped, stolen>>

Subscribe ==
  /\ cur < MaxConns
  /\ \/ /\ Goto("subscribe", "read")
        /\ cur' = cur + 1 /\ conn' = [conn EXCEPT ![cur + 1] = "open"]
     \/ Goto("subscribe", "wait") /\ UNCHANGED <<cur, conn>>
  /\ UNCHANGED <<state, queue, wire, snap, events, live, dropped, stolen>>

Read ==
  /\ at = "read" /\ wire[cur] # <<>> /\ Len(events) < HostCapacity
  /\ wire' = [wire EXCEPT ![cur] = Tail(@)]
  /\ events' = Append(events, Head(wire[cur]))
  /\ UNCHANGED <<state, queue, conn, at, cur, snap, live, dropped, stolen>>

ReadEnd ==
  /\ Goto("read", "wait") /\ wire[cur] = <<>> /\ conn[cur] # "open"
  /\ UNCHANGED <<state, queue, conn, wire, cur, snap, events, live, dropped, stolen>>

\* stream: after a delay it starts again, for as long as the chat is open.
Retry ==
  /\ Goto("wait", "snapshot")
  /\ UNCHANGED <<state, queue, conn, wire, cur, snap, events, live, dropped, stolen>>

\* liveChat.pump
Pump ==
  /\ events # <<>>
  /\ live' = Head(events) /\ events' = Tail(events)
  /\ UNCHANGED <<state, queue, conn, wire, at, cur, snap, dropped, stolen>>

\* Close: the runner's chat is closed, then the stream cancelled.
Close ==
  /\ at # "closed" /\ at' = "closed"
  /\ conn' = [i \in Conns |-> IF conn[i] = "open" THEN "left" ELSE conn[i]]
  /\ queue' = <<>>
  /\ UNCHANGED <<state, wire, cur, snap, events, live, dropped, stolen>>

Next ==
  \/ Change \/ ReadSnapshot \/ Reconcile \/ Subscribe \/ Read \/ ReadEnd \/ Retry \/ Pump \/ Close
  \/ \E i \in Conns : Take(i) \/ Notice(i) \/ Break(i)

Spec == Init /\ [][Next]_streamVars

-----------------------------------------------------------------------------
TypeOK ==
  /\ state \in 0..MaxChanges /\ Len(queue) <= RunnerCapacity
  /\ conn \in [Conns -> {"none", "open", "left", "done"}] /\ cur \in 0..MaxConns
  /\ {snap, live, dropped, stolen} \subseteq 0..state /\ Len(events) <= HostCapacity

Quiet == queue = <<>> /\ events = <<>> /\ at = "read" /\ wire[cur] = <<>> /\ conn[cur] = "open"

(* A host that is connected and has read everything knows the state of the run, also
   when connections broke with events on their way (streamOnce reconciles before it
   subscribes).  Two ways out are left: the event was dropped at a full channel, or
   the handler of a connection that the host had left has taken it.          *)
HostKnowsRun ==
  Quiet /\ dropped # state /\ stolen # state => live = state
=============================================================================

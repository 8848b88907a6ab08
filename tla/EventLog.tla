------------------------------ MODULE EventLog ------------------------------
(***************************************************************************)
(* The event log of one live chat and the browsers that follow it:        *)
(* liveChat.publish / subscribe / unsubscribe / snapshot / close and the  *)
(* pump (internal/httpapi/chat.go), the SSE handler (handlers_events.go)  *)
(* and the browser's side of the stream, useChat.ts and the sequence      *)
(* filter of reducer.ts.                                                   *)
(*                                                                         *)
(* Every critical section of liveChat.mu is one action.  What the code    *)
(* does between two of them is not: a handler writes its replay, asks for *)
(* its snapshot and drains its channel in steps of its own, and close()   *)
(* says farewell to each subscriber after it has released the lock.       *)
(*                                                                         *)
(* An event is identified by its sequence number and the reduced state of *)
(* a timeline is the sequence of the events reduced into it.  A client    *)
(* has one request at a time; the part of inbox[c] that has not reached   *)
(* the browser yet and the batch useChat keeps for the next animation     *)
(* frame are one queue.                                                    *)
(***************************************************************************)
EXTENDS Naturals, Sequences

CONSTANTS Clients,       \* browsers following the chat
          LogCapacity,   \* eventLogCapacity
          ChanCapacity,  \* the buffer of a subscriber's channel
          WireCapacity,  \* bound: messages written and not reduced yet
          MaxSeq,        \* bound: events published before the chat closes
          MaxLosses      \* bound: connections lost by network or browser

ASSUME CapacityAssumption == /\ LogCapacity \in Nat \ {0}
                             /\ ChanCapacity \in Nat \ {0}
ASSUME BoundAssumption == /\ WireCapacity \in Nat
                          /\ MaxSeq \in Nat
                          /\ MaxLosses \in Nat

VARIABLES
  stage,     \* the chat: "open", "removed" from the registry, "invalidated"
             \* (generation bumped), "closed"
  seq,       \* liveChat.seq
  timeline,  \* liveChat.items: the events applied so far
  buf,       \* liveChat.buf
  subs,      \* liveChat.subs
  farewell,  \* the subscribers close() has yet to notify, after unlocking
  pumped,    \* pump holds an event that has passed the staleness check
  chan,      \* chan[c]: the channel of c's subscriber
  handler,   \* handler[c]: where c's SSE request stands
  asked,     \* asked[c]: the lastEventId of that request
  replay,    \* replay[c]: what the handler still has to replay
  inbox,     \* inbox[c]: written to c and not reduced yet
  cseq,      \* ChatState.seq of the client
  view,      \* ChatState.items of the client
  ended,     \* ChatState.closed of the client
  losses     \* connections lost so far

logVars    == <<stage, seq, timeline, buf, subs, farewell, pumped>>
serveVars  == <<chan, handler, asked, replay>>
clientVars == <<cseq, view, ended>>
vars == <<logVars, serveVars, inbox, clientVars, losses>>

-----------------------------------------------------------------------------
Event    == [type : {"item", "chat_closed"}, seq : Nat]
Snapshot == [type : {"snapshot"}, seq : Nat, items : Seq(Nat)]
Gap      == [type |-> "gap", seq |-> 0]
Message  == Event \cup Snapshot \cup {Gap}

Closed == stage = "closed"

TypeOK ==
  /\ stage \in {"open", "removed", "invalidated", "closed"}
  /\ seq \in Nat
  /\ timeline \in Seq(Nat)
  /\ buf \in Seq(Event)
  /\ subs \subseteq Clients
  /\ farewell \subseteq Clients
  /\ pumped \in BOOLEAN
  /\ chan \in [Clients -> Seq(Event)]
  /\ handler \in [Clients ->
       {"none", "found", "replay", "gap", "snapshot", "live", "cut"}]
  /\ asked \in [Clients -> Nat]
  /\ replay \in [Clients -> Seq(Event)]
  /\ inbox \in [Clients -> Seq(Message)]
  /\ cseq \in [Clients -> Nat]
  /\ view \in [Clients -> Seq(Nat)]
  /\ ended \in [Clients -> BOOLEAN]
  /\ losses \in Nat

Init ==
  /\ stage = "open" /\ seq = 0 /\ timeline = <<>> /\ buf = <<>>
  /\ subs = {} /\ farewell = {} /\ pumped = FALSE
  /\ chan = [c \in Clients |-> <<>>]
  /\ handler = [c \in Clients |-> "none"]
  /\ asked = [c \in Clients |-> 0]
  /\ replay = [c \in Clients |-> <<>>]
  /\ inbox = [c \in Clients |-> <<>>]
  /\ cseq = [c \in Clients |-> 0]
  /\ view = [c \in Clients |-> <<>>]
  /\ ended = [c \in Clients |-> FALSE]
  /\ losses = 0

-----------------------------------------------------------------------------
(* The chat's side: publishing and closing. *)

\* Mutant: the copy-down keeps one event too many.
TrimmedLate(b) == IF Len(b) > LogCapacity + 1
                  THEN SubSeq(b, Len(b) - LogCapacity, Len(b))
                  ELSE b

\* The last LogCapacity events of b: the copy-down of publish.
Trimmed(b) == IF Len(b) > LogCapacity
              THEN SubSeq(b, Len(b) - LogCapacity + 1, Len(b))
              ELSE b

HasRoom(c) == Len(chan[c]) < ChanCapacity

\* Mutant: a full channel costs the event and not the subscription.
PublishLossy ==
  LET ev == [type |-> "item", seq |-> seq + 1]
  IN /\ seq' = seq + 1
     /\ timeline' = Append(timeline, seq + 1)
     /\ buf' = Trimmed(Append(buf, ev))
     /\ subs' = subs
     /\ chan' = [c \in Clients |-> IF c \in subs /\ HasRoom(c)
                                   THEN Append(chan[c], ev) ELSE chan[c]]

\* One event is applied, numbered, buffered and fanned out.  A subscriber
\* whose channel is full is dropped: removed from subs, its channel closed.
Publish ==
  LET ev == [type |-> "item", seq |-> seq + 1]
      kept == {c \in subs : HasRoom(c)}
  IN /\ seq' = seq + 1
     /\ timeline' = Append(timeline, seq + 1)
     /\ buf' = Trimmed(Append(buf, ev))
     /\ subs' = kept
     /\ chan' = [c \in Clients |-> IF c \in kept THEN Append(chan[c], ev)
                                                 ELSE chan[c]]

\* pump takes an event from the adapter; a stale one is thrown away here.
PumpTake ==
  /\ ~pumped
  /\ stage \in {"open", "removed"}
  /\ seq < MaxSeq
  /\ pumped' = TRUE
  /\ UNCHANGED <<stage, seq, timeline, buf, subs, farewell,
                 serveVars, inbox, clientVars, losses>>

\* Mutant: publish does not look at closed.
PumpPublishLate ==
  /\ pumped
  /\ pumped' = FALSE
  /\ Publish
  /\ UNCHANGED <<stage, farewell, handler, asked, replay, inbox, clientVars,
                 losses>>

\* ... and publishes it in a second critical section, where only closed is
\* looked at again.
PumpPublish ==
  /\ pumped
  /\ pumped' = FALSE
  /\ IF Closed THEN UNCHANGED <<seq, timeline, buf, subs, chan>> ELSE Publish
  /\ UNCHANGED <<stage, farewell, handler, asked, replay, inbox, clientVars,
                 losses>>

\* handleConfig publishes the new metadata from a request of its own.
ConfigPublish ==
  /\ ~Closed
  /\ seq < MaxSeq
  /\ Publish
  /\ UNCHANGED <<stage, farewell, pumped, handler, asked, replay, inbox,
                 clientVars, losses>>

\* disposeChat takes the chat out of the registry; there is one such caller.
Remove ==
  /\ stage = "open"
  /\ stage' = "removed"
  /\ UNCHANGED <<seq, timeline, buf, subs, farewell, pumped, serveVars, inbox,
                 clientVars, losses>>

\* close, first critical section: generation++, and then chat.Close.
Invalidate ==
  /\ stage = "removed"
  /\ stage' = "invalidated"
  /\ UNCHANGED <<seq, timeline, buf, subs, farewell, pumped, serveVars, inbox,
                 clientVars, losses>>

\* Mutant: the subscribers are collected and stay registered.
CloseKeeps ==
  /\ stage = "invalidated"
  /\ stage' = "closed"
  /\ seq' = seq + 1
  /\ buf' = Append(buf, [type |-> "chat_closed", seq |-> seq + 1])
  /\ farewell' = subs
  /\ UNCHANGED <<timeline, subs, pumped, serveVars, inbox, clientVars, losses>>

\* close, second critical section: chat_closed is logged, the subscribers are
\* collected.
Close ==
  /\ stage = "invalidated"
  /\ stage' = "closed"
  /\ seq' = seq + 1
  /\ buf' = Append(buf, [type |-> "chat_closed", seq |-> seq + 1])
  /\ farewell' = subs
  /\ subs' = {}
  /\ UNCHANGED <<timeline, pumped, serveVars, inbox, clientVars, losses>>

\* close, after unlocking: each subscriber gets chat_closed if its channel has
\* room, and its channel is closed.
Farewell(c) ==
  /\ c \in farewell
  /\ farewell' = farewell \ {c}
  /\ chan' = IF HasRoom(c)
             THEN [chan EXCEPT ![c] =
                     Append(@, [type |-> "chat_closed", seq |-> seq])]
             ELSE chan
  /\ UNCHANGED <<stage, seq, timeline, buf, subs, pumped, handler, asked,
                 replay, inbox, clientVars, losses>>

-----------------------------------------------------------------------------
(* The SSE handler. *)

\* The browser opens an EventSource with its lastSeq; mustChat finds the chat.
Connect(c) ==
  /\ stage = "open"
  /\ handler[c] = "none"
  /\ handler' = [handler EXCEPT ![c] = "found"]
  /\ asked' = [asked EXCEPT ![c] = cseq[c]]
  /\ UNCHANGED <<logVars, chan, replay, inbox, clientVars, losses>>

\* Mutant: the first event of the log may be one too late.
ResumableLate(n) ==
  /\ n > 0
  /\ buf # <<>>
  /\ buf[1].seq <= n + 2
  /\ n <= seq

\* Can the log be resumed after event n?
Resumable(n) ==
  /\ n > 0
  /\ buf # <<>>
  /\ buf[1].seq <= n + 1
  /\ n <= seq

\* The events of the log after n; buf is in order of seq (LogIsContiguous).
IsReplay(events, n) ==
  \E k \in 0..Len(buf) :
    /\ \A i \in 1..k : buf[i].seq <= n
    /\ \A i \in (k + 1)..Len(buf) : buf[i].seq > n
    /\ events = SubSeq(buf, k + 1, Len(buf))

\* subscribe: the channel is registered and the replay is copied under one
\* lock.  A closed chat hands out a closed channel and asks for a snapshot.
Subscribe(c) ==
  /\ handler[c] = "found"
  /\ chan' = [chan EXCEPT ![c] = <<>>]
  /\ subs' = IF Closed THEN subs ELSE subs \cup {c}
  /\ \/ /\ ~Closed /\ Resumable(asked[c])
        /\ \E k \in 0..Len(buf) :
             /\ replay' = [replay EXCEPT ![c] = SubSeq(buf, k + 1, Len(buf))]
             /\ IsReplay(replay'[c], asked[c])
        /\ handler' = [handler EXCEPT ![c] = "replay"]
     \/ /\ Closed \/ ~Resumable(asked[c])
        /\ handler' = [handler EXCEPT ![c] = IF asked[c] > 0 THEN "gap"
                                                             ELSE "snapshot"]
        /\ UNCHANGED replay
  /\ UNCHANGED <<stage, seq, timeline, buf, farewell, pumped, asked, inbox,
                 clientVars, losses>>

\* A write blocks while the browser does not read.
Write(c, m) ==
  /\ Len(inbox[c]) < WireCapacity
  /\ inbox' = [inbox EXCEPT ![c] = Append(@, m)]

WriteReplay(c) ==
  /\ handler[c] = "replay"
  /\ replay[c] # <<>>
  /\ Write(c, Head(replay[c]))
  /\ replay' = [replay EXCEPT ![c] = Tail(@)]
  /\ UNCHANGED <<logVars, chan, handler, asked, clientVars, losses>>

ReplayDone(c) ==
  /\ handler[c] = "replay"
  /\ replay[c] = <<>>
  /\ handler' = [handler EXCEPT ![c] = "live"]
  /\ UNCHANGED <<logVars, chan, asked, replay, inbox, clientVars, losses>>

\* Mutant: the gap message carries the number the client asked for.
WriteGapNumbered(c) ==
  /\ handler[c] = "gap"
  /\ Write(c, [type |-> "gap", seq |-> asked[c]])
  /\ handler' = [handler EXCEPT ![c] = "snapshot"]
  /\ UNCHANGED <<logVars, chan, asked, replay, clientVars, losses>>

WriteGap(c) ==
  /\ handler[c] = "gap"
  /\ Write(c, Gap)
  /\ handler' = [handler EXCEPT ![c] = "snapshot"]
  /\ UNCHANGED <<logVars, chan, asked, replay, clientVars, losses>>

\* snapshot() locks again: events published since subscribe are in it and in
\* the channel.
WriteSnapshot(c) ==
  /\ handler[c] = "snapshot"
  /\ Write(c, [type |-> "snapshot", seq |-> seq, items |-> timeline])
  /\ handler' = [handler EXCEPT ![c] = "live"]
  /\ UNCHANGED <<logVars, chan, asked, replay, clientVars, losses>>

WriteEvent(c) ==
  /\ handler[c] = "live"
  /\ chan[c] # <<>>
  /\ Write(c, Head(chan[c]))
  /\ chan' = [chan EXCEPT ![c] = Tail(@)]
  /\ UNCHANGED <<logVars, handler, asked, replay, clientVars, losses>>

\* The handler returns: the request was cut, or its channel is closed and
\* drained.  The deferred unsubscribe runs either way.
ChannelClosed(c) == c \notin subs /\ c \notin farewell

\* Mutant: no deferred unsubscribe.
HandlerReturnLeaky(c) ==
  /\ \/ handler[c] = "cut"
     \/ handler[c] = "live" /\ chan[c] = <<>> /\ ChannelClosed(c)
  /\ handler' = [handler EXCEPT ![c] = "none"]
  /\ chan' = [chan EXCEPT ![c] = <<>>]
  /\ replay' = [replay EXCEPT ![c] = <<>>]
  /\ UNCHANGED <<logVars, asked, inbox, clientVars, losses>>

\* Mutant: a closed channel does not end the request.
HandlerReturnDeaf(c) ==
  /\ handler[c] = "cut"
  /\ handler' = [handler EXCEPT ![c] = "none"]
  /\ subs' = subs \ {c}
  /\ chan' = [chan EXCEPT ![c] = <<>>]
  /\ replay' = [replay EXCEPT ![c] = <<>>]
  /\ UNCHANGED <<stage, seq, timeline, buf, farewell, pumped, asked, inbox,
                 clientVars, losses>>

HandlerReturn(c) ==
  /\ \/ handler[c] = "cut"
     \/ handler[c] = "live" /\ chan[c] = <<>> /\ ChannelClosed(c)
  /\ handler' = [handler EXCEPT ![c] = "none"]
  /\ subs' = subs \ {c}
  /\ chan' = [chan EXCEPT ![c] = <<>>]
  /\ replay' = [replay EXCEPT ![c] = <<>>]
  /\ UNCHANGED <<stage, seq, timeline, buf, farewell, pumped, asked, inbox,
                 clientVars, losses>>

-----------------------------------------------------------------------------
(* The browser. *)

\* The network breaks, or the user leaves the chat: es.close(), a cancelled
\* frame, an emptied batch.  What had not been reduced is lost from some point.
Disconnect(c) ==
  /\ handler[c] \notin {"none", "cut"}
  /\ losses < MaxLosses
  /\ losses' = losses + 1
  /\ handler' = [handler EXCEPT ![c] = "cut"]
  /\ \E n \in 0..Len(inbox[c]) :
       inbox' = [inbox EXCEPT ![c] = SubSeq(@, 1, n)]
  /\ UNCHANGED <<logVars, chan, asked, replay, clientVars>>

\* Mutant: replayed events are not filtered.
StaleNever(c, m) == FALSE

\* A numbered event the client has already seen.
Stale(c, m) == m.type # "snapshot" /\ m.seq > 0 /\ m.seq <= cseq[c]

\* reduce() on the oldest message of the batch.
Reduce(c) ==
  LET m == Head(inbox[c])
  IN /\ inbox[c] # <<>>
     /\ inbox' = [inbox EXCEPT ![c] = Tail(@)]
     /\ \/ /\ m.type = "gap" \/ Stale(c, m)
           /\ UNCHANGED clientVars
        \/ /\ m.type = "snapshot"
           /\ cseq' = [cseq EXCEPT ![c] = m.seq]
           /\ view' = [view EXCEPT ![c] = m.items]
           /\ ended' = [ended EXCEPT ![c] = FALSE]
        \/ /\ m.type = "item" /\ ~Stale(c, m)
           /\ cseq' = [cseq EXCEPT ![c] = m.seq]
           /\ view' = [view EXCEPT ![c] = Append(@, m.seq)]
           /\ UNCHANGED ended
        \/ /\ m.type = "chat_closed" /\ ~Stale(c, m)
           /\ cseq' = [cseq EXCEPT ![c] = m.seq]
           /\ ended' = [ended EXCEPT ![c] = TRUE]
           /\ UNCHANGED view
     /\ UNCHANGED <<logVars, serveVars, losses>>

-----------------------------------------------------------------------------
Chat == PumpTake \/ PumpPublish \/ ConfigPublish \/ Remove \/ Invalidate \/ Close

Serve(c) == \/ Subscribe(c) \/ WriteReplay(c) \/ ReplayDone(c) \/ WriteGap(c)
            \/ WriteSnapshot(c) \/ WriteEvent(c) \/ HandlerReturn(c)

Next == \/ Chat
        \/ \E c \in Clients : \/ Farewell(c) \/ Connect(c) \/ Serve(c)
                              \/ Disconnect(c) \/ Reduce(c)

Spec == Init /\ [][Next]_vars

\* The goroutines of the server run, the browser paints its frames and its
\* retry timer is always armed again.  Nothing obliges the user to dispose the
\* chat, the runtime to emit an event or a connection to break.
Fairness == /\ WF_vars(PumpPublish)
            /\ WF_vars(Invalidate)
            /\ WF_vars(Close)
            /\ \A c \in Clients : /\ WF_vars(Farewell(c))
                                  /\ WF_vars(Connect(c))
                                  /\ WF_vars(Serve(c))
                                  /\ WF_vars(Reduce(c))

FairSpec == Spec /\ Fairness

-----------------------------------------------------------------------------
(* Properties. *)

\* The events a client with sequence number n has seen: chat_closed takes a
\* number and is not an item.
ItemsUpTo(n) == SubSeq(timeline, 1, IF n <= Len(timeline) THEN n
                                                          ELSE Len(timeline))

\* What a client shows is exactly the timeline up to its sequence number: no
\* event is missing, none is reduced twice, none is out of order, whatever was
\* evicted, dropped, cut, replayed or snapshotted in between (publish,
\* subscribe, handleEvents, reduce).
ViewIsPrefix == \A c \in Clients : view[c] = ItemsUpTo(cseq[c])

\* The ring buffer holds the latest events and no hole, so that "the first one
\* is not after lastEventID+1" is enough for subscribe to resume.
LogIsContiguous ==
  /\ Len(buf) <= LogCapacity + (IF Closed THEN 1 ELSE 0)
  /\ seq <= Len(buf) \/ Len(buf) >= LogCapacity
  /\ \A i \in 1..Len(buf) : buf[i].seq = seq - Len(buf) + i

\* A client that shows the chat as closed has the whole of it: no item can be
\* published behind chat_closed (pump and handleConfig against close).
ClosedViewIsComplete ==
  \A c \in Clients : ended[c] => Closed /\ view[c] = timeline

\* A client never loses what it shows and its sequence number never goes back,
\* not even when it is sent a snapshot (reduce lets every snapshot through).
NeverBack == [][\A c \in Clients : /\ cseq'[c] >= cseq[c]
                                   /\ Len(view'[c]) >= Len(view[c])]_vars

\* Who closes the channel of a subscriber is settled by who takes it out of
\* subs: publish when it is full, unsubscribe, or close.  So publish writes
\* only to subscribers whose request is not over, no channel is closed twice
\* or written after it was closed (either would panic), and a closed chat has
\* no subscriber, whose stream would never end.  close itself may still offer
\* chat_closed to a channel it has collected and nobody reads any more: its
\* handler was cut and found nothing to unsubscribe (chat.go, close and
\* unsubscribe).  The offer does not block.
NoGhostSubscriber ==
  /\ \A c \in subs : handler[c] \in {"replay", "gap", "snapshot", "live", "cut"}
  /\ subs \cap farewell = {}
  /\ Closed => subs = {}

\* Every event reaches every browser, through any number of drops and
\* reconnects, unless the chat is disposed first.
EveryEventArrives ==
  \A c \in Clients, n \in 1..MaxSeq :
    seq >= n ~> (cseq[c] >= n \/ stage # "open")

\* The stream keeps what OrderedFeed promises.
Feed == INSTANCE OrderedFeed WITH history <- timeline
FeedSpec == Feed!Spec
=============================================================================

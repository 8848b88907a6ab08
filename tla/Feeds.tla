---------------------------------- MODULE Feeds ----------------------------------
(***************************************************************************)
(* The two feeds of hints: the events of the dashboard (dashboardEvents,   *)
(* handleDashboardEvents, useDashboardEvents) and those of a plugin        *)
(* (pluginEventHub, handlePluginEvents), which its frontend follows        *)
(* through plugin-events.ts ("managed") or with an EventSource ("page").   *)
(* One client is followed; handlers whose client has gone change nothing.  *)
(* Events are numbered for ever; their seq starts again with the server.   *)
(***************************************************************************)
EXTENDS Naturals, Sequences

CONSTANTS Kinds,         \* a subset of {"dashboard", "managed", "page"}
          LogCapacity,   \* events kept for a replay (256)
          ChanCapacity,  \* events a subscriber's channel holds (64)
          MaxEvents, MaxBreaks, MaxRestarts  \* bounds

VARIABLES kind,      \* the client that is followed
          version,   \* events published
          base,      \* of them, those of earlier servers: seq = number - base
          chan,      \* the subscriber's channel
          sub,       \* "none", "on", or "closed": removed, what it holds is still read
          frames,    \* what the handler writes before it reads the channel
          inbox,     \* written and not received yet
          up,        \* the client has a connection
          saved,     \* the last seq it saw, and the base of that server
          wanted,    \* the next event it has been promised, 0 if it missed one
          pending,   \* the refetch timer of the dashboard runs
          fetched,   \* what was published when it last refetched
          unlucky,   \* nothing has told the client of what it missed (Connect)
          breaks, restarts   \* connections lost, restarts so far

feedVars == <<kind, version, base, chan, sub, frames, inbox, up, saved, wanted, pending,
              fetched, unlucky, breaks, restarts>>
clientVars == <<up, saved, wanted, pending, fetched, unlucky>>
faultVars == <<kind, breaks, restarts>>

NotConnected == 0
Event(n) == [type |-> "event", seq |-> n - base, number |-> n]

Started(k) ==
  /\ kind = k
  /\ version = 0 /\ base = 0 /\ chan = <<>> /\ sub = "none" /\ frames = <<>> /\ inbox = <<>>
  /\ up = FALSE /\ saved = [seq |-> 0, base |-> 0] /\ wanted = NotConnected
  /\ pending = FALSE /\ fetched = 0 /\ unlucky = FALSE /\ breaks = 0 /\ restarts = 0

Init == \E k \in Kinds : Started(k)

-----------------------------------------------------------------------------
(* The log.                                                                  *)

First == (IF base + LogCapacity < version THEN version - LogCapacity ELSE base) + 1  \* number of the oldest event kept

DropOnly(n) ==  \* Mutant: an event that does not fit is dropped, and that is all
  chan' = (IF sub = "on" /\ Len(chan) < ChanCapacity THEN Append(chan, n) ELSE chan) /\ UNCHANGED sub

\* A subscriber whose channel is full is removed, and its channel closed.
Deliver(n) ==
  IF sub = "on" /\ Len(chan) < ChanCapacity
  THEN chan' = Append(chan, n) /\ UNCHANGED sub
  ELSE sub' = (IF sub = "on" THEN "closed" ELSE sub) /\ UNCHANGED chan

Publish ==
  /\ version < MaxEvents /\ version' = version + 1
  /\ Deliver(version + 1)
  /\ UNCHANGED <<faultVars, clientVars, base, frames, inbox>>

\* subscribe: is everything after the event with this seq in the log?
InLog(last) == /\ First <= version
               /\ First - base <= last + 1 /\ last <= version - base
Replay(last) == [i \in 1..(version - base - last) |-> Event(base + last + i)]

\* number: what is published when the client is told to refetch
Gap(last) == [type |-> "gap", seq |-> last, number |-> version]
Snapshot == [type |-> "snapshot", seq |-> version - base, number |-> version]

DashboardFrames(last) ==
  IF last > 0 /\ InLog(last) THEN Replay(last)
  ELSE (IF last > 0 THEN <<Gap(0)>> ELSE <<>>) \o <<Snapshot>>

\* The handler of a plugin's stream reads the query, and not the header that an
\* EventSource sends when it connects again.
PluginFrames(last) ==
  IF last = 0 THEN <<>> ELSE IF InLog(last) THEN Replay(last) ELSE <<Gap(last)>>

LastId == IF kind = "page" THEN 0 ELSE saved.seq

-----------------------------------------------------------------------------
(* The client and its handler.                                               *)

\* A client of a plugin that has seen no event yet asks for nothing, and a seq of an
\* earlier server may be one of the present server: neither is noticed.
Connect ==
  /\ ~up /\ up' = TRUE
  /\ inbox' = <<>>  \* an EventSource that was closed receives no more
  /\ sub' = "on" /\ chan' = <<>>
  /\ frames' = IF kind = "dashboard" THEN DashboardFrames(LastId) ELSE PluginFrames(LastId)
  /\ wanted' = IF wanted = NotConnected THEN version + 1 ELSE wanted
  /\ unlucky' = \/ unlucky
                \/ kind # "dashboard" /\ saved.seq = 0 /\ wanted \notin {NotConnected, version + 1}
                \/ LastId > 0 /\ saved.base # base /\ InLog(LastId)
  /\ UNCHANGED <<faultVars, version, base, saved, pending, fetched>>

\* The snapshot takes its seq when it is written.
Write ==
  /\ sub # "none" /\ inbox = <<>>
  /\ \/ /\ frames # <<>> /\ frames' = Tail(frames)
        /\ inbox' = <<IF Head(frames).type = "snapshot" THEN Snapshot ELSE Head(frames)>>
        /\ UNCHANGED chan
     \/ /\ frames = <<>> /\ chan # <<>> /\ chan' = Tail(chan)
        /\ inbox' = <<Event(Head(chan))>>
        /\ UNCHANGED frames
  /\ UNCHANGED <<faultVars, clientVars, version, base, sub>>

\* onmessage.  The frame of a gap repeats the seq of the client, or has none.
Receive ==
  /\ inbox # <<>> /\ up /\ inbox' = <<>>
  /\ LET f == inbox[1] IN
     /\ saved' = IF f.type = "gap" \/ f.seq = 0 THEN saved ELSE [seq |-> f.seq, base |-> f.number - f.seq]
     /\ wanted' = IF f.type # "event" \/ f.number = wanted THEN f.number + 1 ELSE 0
     /\ unlucky' = (unlucky /\ f.type = "event" /\ kind # "dashboard")
  /\ pending' = (kind = "dashboard")
  /\ UNCHANGED <<faultVars, version, base, chan, sub, frames, up, fetched>>

\* schedule: the timer starts the refetch.
Flush ==
  /\ pending /\ pending' = FALSE /\ fetched' = version
  /\ UNCHANGED <<faultVars, version, base, chan, sub, frames, inbox, up, saved, wanted, unlucky>>

\* The handler ends, and the client, which may not have received everything, waits.
Cut == /\ up' = FALSE /\ sub' = "none" /\ chan' = <<>> /\ frames' = <<>> /\ inbox' = <<>>

\* A channel that was closed is read to its end first.
EndOfStream ==
  /\ sub = "closed" /\ frames = <<>> /\ chan = <<>> /\ inbox = <<>>
  /\ Cut
  /\ UNCHANGED <<faultVars, version, base, saved, wanted, pending, fetched, unlucky>>

Break ==
  /\ up /\ breaks < MaxBreaks /\ breaks' = breaks + 1
  /\ Cut
  /\ UNCHANGED <<kind, restarts, version, base, saved, wanted, pending, fetched, unlucky>>

\* The page is loaded again: it fetches everything and keeps the seq (sessionStorage).
Reload ==
  /\ kind = "dashboard" /\ breaks < MaxBreaks /\ breaks' = breaks + 1
  /\ Cut
  /\ pending' = FALSE /\ fetched' = version
  /\ UNCHANGED <<kind, restarts, version, base, saved, wanted, unlucky>>

Restart ==
  /\ restarts < MaxRestarts /\ restarts' = restarts + 1
  /\ base' = version
  /\ Cut
  /\ UNCHANGED <<kind, breaks, version, saved, wanted, pending, fetched, unlucky>>

Next == \/ Publish \/ Connect \/ Write \/ Receive \/ Flush \/ EndOfStream
        \/ Break \/ Reload \/ Restart

Spec == Init /\ [][Next]_feedVars

-----------------------------------------------------------------------------
TypeOK ==
  /\ version \in 0..MaxEvents /\ base \in 0..version /\ Len(chan) <= ChanCapacity
  /\ sub \in {"none", "on", "closed"} /\ wanted \in 0..(MaxEvents + 1)
  /\ saved.seq \in 0..version /\ fetched \in 0..version

CaughtUp == up /\ sub = "on" /\ frames = <<>> /\ chan = <<>> /\ inbox = <<>> /\ ~pending

(* A client that is connected and has read everything has received every event in
   order, or was told of a gap, or has refetched since the last one - also when its
   channel overflowed, its connection broke or the server restarted (subscribe,
   publish).  The gaps that nobody notices are those that Connect names.          *)
GapsAreTold ==
  CaughtUp /\ ~unlucky => IF kind = "dashboard" THEN fetched = version ELSE wanted = version + 1
=============================================================================

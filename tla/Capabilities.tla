------------------------------ MODULE Capabilities ------------------------------
(***************************************************************************)
(* The opaque tokens that a chat is opened with: the execution location a  *)
(* plugin has reserved (internal/executionlocations), the context that     *)
(* names the chat to its tools (internal/sessioncontext), and the launch   *)
(* of its MCP server on the host (internal/mcpbridge), as openChat, the    *)
(* sandbox adapter and disposeChat use them.  A chat, its request, its     *)
(* context and its launch (of one MCP server) have one name; time is a     *)
(* counter.                                                                *)
(***************************************************************************)
EXTENDS Naturals, FiniteSets

CONSTANTS Chats, Locations, Workspaces, None,
          TTL,      \* lifetime of a location and of a launch
          MaxTime   \* bound: ticks

VARIABLES now,
          location,   \* location[l]: [workspace, expires], or None
          spent,      \* spent[l]: the requests that have been given l
          pc,         \* pc[c]: where openChat or disposeChat stands
          contexts,   \* sessioncontext.Service.contexts
          launches,   \* launches[c]: [expires, active], or None
          processes   \* processes[c]: MCP processes of c on the host

vars == <<now, location, spent, pc, contexts, launches, processes>>

Init ==
  /\ now = 0
  /\ location = [l \in Locations |-> None] /\ spent = [l \in Locations |-> {}]
  /\ pc = [c \in Chats |-> "idle"]
  /\ contexts = {} /\ launches = [c \in Chats |-> None]
  /\ processes = [c \in Chats |-> 0]

Goto(c, from, to) == pc[c] = from /\ pc' = [pc EXCEPT ![c] = to]
Live(c) == pc[c] = "live"

Tick == now < MaxTime /\ now' = now + 1
        /\ UNCHANGED <<location, spent, pc, contexts, launches, processes>>

-----------------------------------------------------------------------------
(* Execution locations.                                                      *)

\* pruneLocked
Unexpired(l) == location[l] # None /\ location[l].expires > now
Fresh == [l \in Locations |-> IF Unexpired(l) THEN location[l] ELSE None]

\* A backend reserves a directory; ids are never used twice.
RegisterLocation(l, w) ==
  /\ location[l] = None /\ spent[l] = {}
  /\ location' = [Fresh EXCEPT ![l] = [workspace |-> w, expires |-> now + TTL]]
  /\ UNCHANGED <<now, spent, pc, contexts, launches, processes>>

\* Mutant: the claim looks at the location and leaves it
ConsumeKept(c, l, w) ==
  /\ location' = Fresh
  /\ IF Unexpired(l) /\ location[l].workspace = w
     THEN Goto(c, "idle", "located") /\ spent' = [spent EXCEPT ![l] = @ \cup {c}]
     ELSE Goto(c, "idle", "failed") /\ UNCHANGED spent
  /\ UNCHANGED <<now, contexts, launches, processes>>

\* openChat claims it; a wrong workspace leaves it to the right one.
Consume(c, l, w) ==
  /\ IF Unexpired(l) /\ location[l].workspace = w
     THEN /\ Goto(c, "idle", "located")
          /\ location' = [Fresh EXCEPT ![l] = None]
          /\ spent' = [spent EXCEPT ![l] = @ \cup {c}]
     ELSE /\ Goto(c, "idle", "failed")
          /\ location' = Fresh
          /\ UNCHANGED spent
  /\ UNCHANGED <<now, contexts, launches, processes>>

-----------------------------------------------------------------------------
(* openChat and disposeChat.                                                 *)

\* A new chat in the workspace itself, or a child of a live chat whose context
\* a plugin has passed on.
Begin(c, parent) ==
  /\ parent # None => parent \in contexts /\ Live(parent)
  /\ Goto(c, "idle", "located")
  /\ UNCHANGED <<now, location, spent, contexts, launches, processes>>

\* The execution target is not available, after the location was claimed.
BadTarget(c) ==
  /\ Goto(c, "located", "failed")
  /\ UNCHANGED <<now, location, spent, contexts, launches, processes>>

Issue(c) ==
  /\ Goto(c, "located", "issued")
  /\ contexts' = contexts \cup {c}
  /\ UNCHANGED <<now, location, spent, launches, processes>>

\* Bridge.register, which also drops what has expired, the running included.
Prepare(c) ==
  /\ Goto(c, "issued", "prepared")
  /\ launches' = [d \in Chats |->
       IF d = c THEN [expires |-> now + TTL, active |-> FALSE]
       ELSE IF launches[d] # None /\ now > launches[d].expires THEN None ELSE launches[d]]
  /\ UNCHANGED <<now, location, spent, contexts, processes>>

Opened(c) ==
  /\ Goto(c, "prepared", "live")
  /\ UNCHANGED <<now, location, spent, contexts, launches, processes>>

RevokeLaunch(c) == launches' = [launches EXCEPT ![c] = None]
KeepLaunch(c) == UNCHANGED launches

\* The adapter fails: its deferred function revokes the launch, then openChat the
\* context.  A session that another request has opened meanwhile, and a history
\* that cannot be read, end the same way.
OpenFails(c) ==
  /\ Goto(c, "prepared", "refused")
  /\ RevokeLaunch(c)
  /\ UNCHANGED <<now, location, spent, contexts, processes>>

\* Mutant: the loser of the registration keeps its context
RefuseOnly(c) ==
  /\ Goto(c, "refused", "failed")
  /\ UNCHANGED <<now, location, spent, contexts, launches, processes>>

Refuse(c) ==
  /\ Goto(c, "refused", "failed")
  /\ contexts' = contexts \ {c}
  /\ UNCHANGED <<now, location, spent, launches, processes>>

\* disposeChat: the context goes first, the launch when the runtime is closed.
Dispose(c) ==
  /\ Goto(c, "live", "closing")
  /\ contexts' = contexts \ {c}
  /\ UNCHANGED <<now, location, spent, launches, processes>>

Closed(c) ==
  /\ Goto(c, "closing", "closed")
  /\ RevokeLaunch(c)
  /\ UNCHANGED <<now, location, spent, contexts, processes>>

-----------------------------------------------------------------------------
(* The relay of a sandbox connects and disconnects at any time.              *)

AcquireAnyway(c) ==  \* Mutant: an active launch is given out again
  launches[c] # None /\ now <= launches[c].expires
Acquirable(c) == launches[c] # None /\ now <= launches[c].expires /\ ~launches[c].active

Acquire(c) ==
  /\ launches[c] # None
  /\ IF Acquirable(c)
     THEN /\ launches' = [launches EXCEPT ![c].active = TRUE]
          /\ processes' = [processes EXCEPT ![c] = @ + 1]
     ELSE /\ launches' = [launches EXCEPT ![c] = IF now > @.expires THEN None ELSE @]
          /\ UNCHANGED processes
  /\ UNCHANGED <<now, location, spent, pc, contexts>>

ReleaseAlways(c) ==  \* Mutant: the launch is put back without looking
  /\ processes[c] > 0
  /\ processes' = [processes EXCEPT ![c] = @ - 1]
  /\ launches' = [launches EXCEPT ![c] = [expires |-> now + TTL, active |-> FALSE]]
  /\ UNCHANGED <<now, location, spent, pc, contexts>>

\* The process has ended: its launch may be used again, and for a full lifetime.
Release(c) ==
  /\ processes[c] > 0
  /\ processes' = [processes EXCEPT ![c] = @ - 1]
  /\ launches' = [launches EXCEPT ![c] =
       IF @ = None THEN None ELSE [expires |-> now + TTL, active |-> FALSE]]
  /\ UNCHANGED <<now, location, spent, pc, contexts>>

Next ==
  \/ Tick
  \/ \E l \in Locations, w \in Workspaces :
       RegisterLocation(l, w) \/ \E c \in Chats : Consume(c, l, w)
  \/ \E c \in Chats :
       \/ \E p \in Chats \cup {None} : Begin(c, p)
       \/ BadTarget(c) \/ Issue(c) \/ Prepare(c) \/ Opened(c) \/ OpenFails(c) \/ Refuse(c)
       \/ Dispose(c) \/ Closed(c) \/ Acquire(c) \/ Release(c)

Spec == Init /\ [][Next]_vars

-----------------------------------------------------------------------------
TypeOK ==
  /\ now \in 0..MaxTime /\ contexts \subseteq Chats
  /\ spent \in [Locations -> SUBSET Chats]
  /\ pc \in [Chats -> {"idle", "located", "issued", "prepared", "live", "refused",
                       "failed", "closing", "closed"}]
  /\ processes \in [Chats -> 0..1]

Over(c) == pc[c] \in {"failed", "closed"}

(* However many requests name a location, one gets it (Service.Consume).     *)
LocationUsedOnce == \A l \in Locations : Cardinality(spent[l]) <= 1

(* A context can be resolved only while its chat is being opened or is there:
   every way out of openChat and disposeChat revokes it.                     *)
ContextsOwned == \A c \in contexts : ~Over(c)

(* A launch that was revoked does not come back, whatever the relay does when
   (Bridge.release, which may come long after Revoke).                       *)
LaunchesOwned == \A c \in Chats : launches[c] # None => ~Over(c)

(* A launch never runs two processes at once, not even across its expiry, its
   release and its second use (Bridge.acquire).                              *)
OneProcess == \A c \in Chats :
  processes[c] > 0 => launches[c] = None \/ launches[c].active
=============================================================================

---------------------------- MODULE ChatRegistry ----------------------------
(***************************************************************************)
(* Which chats a server has: openChat, the registry that lets one chat    *)
(* drive a session, disposeChat, and the draining of a server whose       *)
(* desktop has detached (internal/httpapi/handlers_chats.go,              *)
(* chat_registry.go, server.go).                                           *)
(*                                                                         *)
(* The registry's mutex, lifecycleMu and liveChat.mu are held for one     *)
(* lookup or one update each; opening a runtime, reading its history,     *)
(* closing it, and every decision taken on what was looked up, are steps  *)
(* of their own.  Each open request has the chat it would create for      *)
(* identity.  A runtime here has a turn or not, and reports it through    *)
(* its event channel in order: DagentChat says what it does in between.   *)
(* EventLog says how close() reaches the browsers.                         *)
(***************************************************************************)
EXTENDS Naturals, Sequences, FiniteSets

CONSTANTS Sessions,    \* sessions of the store
          Opens,       \* requests to open a session, and the chats they create
          None,
          MaxTurns,    \* bound: turns started
          MaxDisposals, \* bound: chats closed by a user
          MaxDetaches   \* bound: times the desktop detaches

ASSUME RegistryAssumption == /\ None \notin Opens \cup Sessions
                             /\ MaxTurns \in Nat
                             /\ MaxDisposals \in Nat
                             /\ MaxDetaches \in Nat

VARIABLES
  chats,      \* chatRegistry.chats: the registered chats
  bySession,  \* chatRegistry.bySession
  session,    \* session[o]: the session a request asks for
  open,       \* open[o]: where the request stands
  runtime,    \* runtime[o]: "none", "open" or "closed"
  turn,       \* turn[o]: a stream of this runtime drives the session
  events,     \* events[o]: the run states on their way to the server
  known,      \* known[o]: liveChat.run.State
  pump,       \* pump[o]: where the chat's pump goroutine stands
  closing,    \* closing[o]: how far disposeChat has got
  draining,   \* Server.draining
  detach,     \* where beginDrain stands
  todo,       \* the chats it has still to look at
  victim,     \* the chat it disposes of
  timers,     \* retirement timers that run
  retired,    \* Server.retire is closed
  turns,      \* turns started so far
  disposals,  \* chats closed by a user so far
  detaches    \* detachments so far

registryVars == <<chats, bySession>>
openVars == <<session, open>>
chatVars == <<runtime, turn, events, known, pump>>
drainVars == <<draining, detach, todo, victim, timers, retired>>
bounds == <<turns, disposals, detaches>>
vars == <<registryVars, openVars, chatVars, closing, drainVars, bounds>>

Init ==
  /\ chats = {} /\ bySession = [s \in Sessions |-> None]
  /\ session = [o \in Opens |-> None] /\ open = [o \in Opens |-> "start"]
  /\ runtime = [o \in Opens |-> "none"] /\ turn = [o \in Opens |-> FALSE]
  /\ events = [o \in Opens |-> <<>>] /\ known = [o \in Opens |-> "idle"]
  /\ pump = [o \in Opens |-> "off"] /\ closing = [o \in Opens |-> "no"]
  /\ draining = FALSE /\ detach = "none" /\ todo = {} /\ victim = None
  /\ timers = 0 /\ retired = FALSE
  /\ turns = 0 /\ disposals = 0 /\ detaches = 0

-----------------------------------------------------------------------------
(* openChat. *)

GoOpen(o, label) == open' = [open EXCEPT ![o] = label]

\* The session has a live chat: the browser is given that one.
Attach(o, s) ==
  /\ open[o] = "start"
  /\ bySession[s] # None
  /\ GoOpen(o, "attached")
  /\ UNCHANGED <<registryVars, session, chatVars, closing, drainVars, bounds>>

\* It has none, says a lookup that nothing makes last.
BeginOpen(o, s) ==
  /\ open[o] = "start"
  /\ bySession[s] = None
  /\ session' = [session EXCEPT ![o] = s]
  /\ GoOpen(o, "opening")
  /\ UNCHANGED <<registryVars, chatVars, closing, drainVars, bounds>>

OpenRuntime(o) ==
  /\ open[o] = "opening"
  /\ runtime' = [runtime EXCEPT ![o] = "open"]
  /\ GoOpen(o, "register")
  /\ UNCHANGED <<registryVars, session, turn, events, known, pump, closing,
                 drainVars, bounds>>

OpenFails(o) ==
  /\ open[o] = "opening"
  /\ GoOpen(o, "failed")
  /\ UNCHANGED <<registryVars, session, chatVars, closing, drainVars, bounds>>

\* Mutant: the later of two opens takes the session over.
RegisterOver(o) ==
  /\ open[o] = "register"
  /\ chats' = chats \cup {o}
  /\ bySession' = [bySession EXCEPT ![session[o]] = o]
  /\ GoOpen(o, "hydrate")
  /\ UNCHANGED <<session, chatVars, closing, drainVars, bounds>>

\* register: the session is claimed, or belongs to whoever was faster.
Register(o) ==
  /\ open[o] = "register"
  /\ IF bySession[session[o]] = None
     THEN /\ chats' = chats \cup {o}
          /\ bySession' = [bySession EXCEPT ![session[o]] = o]
          /\ GoOpen(o, "hydrate")
     ELSE /\ GoOpen(o, "lost")
          /\ UNCHANGED registryVars
  /\ UNCHANGED <<session, chatVars, closing, drainVars, bounds>>

\* Mutant: the loser answers without closing what it has opened.
LoserLeaves(o) ==
  /\ open[o] = "lost"
  /\ GoOpen(o, "attached")
  /\ UNCHANGED <<registryVars, session, chatVars, closing, drainVars, bounds>>

LoserCloses(o) ==
  /\ open[o] = "lost"
  /\ runtime' = [runtime EXCEPT ![o] = "closed"]
  /\ GoOpen(o, "attached")
  /\ UNCHANGED <<registryVars, session, turn, events, known, pump, closing,
                 drainVars, bounds>>

\* chatRegistry.remove, which gives the chat to one of those who ask for it.
Remove(o) ==
  /\ chats' = chats \ {o}
  /\ bySession' = [bySession EXCEPT ![session[o]] = None]
  /\ closing' = [closing EXCEPT ![o] = "removed"]

\* The request disposes of a chat that is registered, unless somebody has.
HydrateFails(o) ==
  /\ open[o] = "hydrate"
  /\ IF o \in chats THEN Remove(o) ELSE UNCHANGED <<registryVars, closing>>
  /\ GoOpen(o, "failed")
  /\ UNCHANGED <<session, chatVars, drainVars, bounds>>

Hydrate(o) ==
  /\ open[o] = "hydrate"
  /\ GoOpen(o, "pump")
  /\ UNCHANGED <<registryVars, session, chatVars, closing, drainVars, bounds>>

StartPump(o) ==
  /\ open[o] = "pump"
  /\ pump' = [pump EXCEPT ![o] = "read"]
  /\ GoOpen(o, "open")
  /\ UNCHANGED <<registryVars, session, runtime, turn, events, known, closing,
                 drainVars, bounds>>

Opening(o) == \/ OpenRuntime(o) \/ OpenFails(o) \/ Register(o) \/ LoserCloses(o)
              \/ HydrateFails(o) \/ Hydrate(o) \/ StartPump(o)

-----------------------------------------------------------------------------
(* A turn, and what the server hears of it. *)

\* handleMessages: whoever has found a chat in the registry may send to it, until
\* its runtime is closed.
StartTurn(o) ==
  /\ open[o] \in {"hydrate", "pump", "open"}
  /\ runtime[o] = "open"
  /\ ~turn[o]
  /\ turns < MaxTurns
  /\ turns' = turns + 1
  /\ turn' = [turn EXCEPT ![o] = TRUE]
  /\ events' = [events EXCEPT ![o] = Append(@, "running")]
  /\ UNCHANGED <<registryVars, openVars, runtime, known, pump, closing, drainVars,
                 disposals, detaches>>

\* The stream ends, by itself or because the runtime was closed; a closed chat
\* emits nothing.
EndTurn(o) ==
  /\ turn[o]
  /\ turn' = [turn EXCEPT ![o] = FALSE]
  /\ events' = [events EXCEPT ![o] = IF runtime[o] = "open"
                                     THEN Append(@, "idle") ELSE @]
  /\ UNCHANGED <<registryVars, openVars, runtime, known, pump, closing, drainVars,
                 bounds>>

GoPump(o, label) == pump' = [pump EXCEPT ![o] = label]

\* pump and publish: a stale event is skipped, another one is applied and then
\* reported to the server.
Pump(o) ==
  /\ pump[o] = "read"
  /\ events[o] # <<>>
  /\ events' = [events EXCEPT ![o] = Tail(@)]
  /\ IF closing[o] \in {"invalidated", "closed"}
     THEN UNCHANGED <<known, pump>>
     ELSE /\ known' = [known EXCEPT ![o] = Head(events[o])]
          /\ GoPump(o, "drain")
  /\ UNCHANGED <<registryVars, openVars, runtime, turn, closing, drainVars, bounds>>

-----------------------------------------------------------------------------
(* disposeChat, after the registry has given the chat away. *)

Invalidate(o) ==
  /\ closing[o] = "removed"
  /\ closing' = [closing EXCEPT ![o] = "invalidated"]
  /\ UNCHANGED <<registryVars, openVars, chatVars, drainVars, bounds>>

\* The adapter's chat is closed; its stream is cancelled and not waited for.
CloseRuntime(o) ==
  /\ closing[o] = "invalidated"
  /\ closing' = [closing EXCEPT ![o] = "closed"]
  /\ runtime' = [runtime EXCEPT ![o] = "closed"]
  /\ UNCHANGED <<registryVars, openVars, turn, events, known, pump, drainVars,
                 bounds>>

\* handleDispose.
Dispose(o) ==
  /\ o \in chats
  /\ disposals < MaxDisposals
  /\ disposals' = disposals + 1
  /\ Remove(o)
  /\ UNCHANGED <<openVars, chatVars, drainVars, turns, detaches>>

-----------------------------------------------------------------------------
(* Draining. *)

\* retireIfDrained: a timer is started when nothing is left.
RetireIfDrained == timers' = IF draining /\ chats = {} THEN timers + 1 ELSE timers

\* disposeIfDraining, called by the pump: lifecycleMu ...
PumpDraining(o) ==
  /\ pump[o] = "drain"
  /\ GoPump(o, IF draining THEN "find" ELSE "read")
  /\ UNCHANGED <<registryVars, openVars, runtime, turn, events, known, closing,
                 drainVars, bounds>>

\* ... the registry and the state of the chat ...
PumpFind(o) ==
  /\ pump[o] = "find"
  /\ GoPump(o, IF o \in chats /\ known[o] = "idle" THEN "dispose" ELSE "retire")
  /\ UNCHANGED <<registryVars, openVars, runtime, turn, events, known, closing,
                 drainVars, bounds>>

\* ... disposeChat ...
PumpDispose(o) ==
  /\ pump[o] = "dispose"
  /\ IF o \in chats
     THEN Remove(o) /\ GoPump(o, "closing")
     ELSE GoPump(o, "retire") /\ UNCHANGED <<registryVars, closing>>
  /\ UNCHANGED <<openVars, runtime, turn, events, known, drainVars, bounds>>

PumpClosed(o) ==
  /\ pump[o] = "closing"
  /\ closing[o] = "closed"
  /\ GoPump(o, "retire")
  /\ UNCHANGED <<registryVars, openVars, runtime, turn, events, known, closing,
                 drainVars, bounds>>

\* Mutant: the pump leaves it to the detach request to retire the server.
PumpRetireNot(o) ==
  /\ pump[o] = "retire"
  /\ GoPump(o, "read")
  /\ UNCHANGED <<registryVars, openVars, runtime, turn, events, known, closing,
                 drainVars, bounds>>

\* ... and retireIfDrained.
PumpRetire(o) ==
  /\ pump[o] = "retire"
  /\ RetireIfDrained
  /\ GoPump(o, "read")
  /\ UNCHANGED <<registryVars, openVars, runtime, turn, events, known, closing,
                 draining, detach, todo, victim, retired, bounds>>

\* beginDrain ...
Detach ==
  /\ detach = "none"
  /\ detaches < MaxDetaches
  /\ detaches' = detaches + 1
  /\ draining' = TRUE
  /\ detach' = "list"
  /\ UNCHANGED <<registryVars, openVars, chatVars, closing, todo, victim, timers,
                 retired, turns, disposals>>

\* ... takes the chats of the registry ...
DetachList ==
  /\ detach = "list"
  /\ todo' = chats
  /\ detach' = "each"
  /\ UNCHANGED <<registryVars, openVars, chatVars, closing, draining, victim, timers,
                 retired, bounds>>

\* ... looks at the run state of each ...
DetachFind(o) ==
  /\ detach = "each"
  /\ o \in todo
  /\ todo' = todo \ {o}
  /\ IF known[o] = "idle"
     THEN detach' = "dispose" /\ victim' = o
     ELSE UNCHANGED <<detach, victim>>
  /\ UNCHANGED <<registryVars, openVars, chatVars, closing, draining, timers,
                 retired, bounds>>

\* ... disposes of the idle ones ...
DetachDispose ==
  /\ detach = "dispose"
  /\ IF victim \in chats
     THEN Remove(victim) /\ detach' = "closing"
     ELSE detach' = "each" /\ UNCHANGED <<registryVars, closing>>
  /\ UNCHANGED <<openVars, chatVars, draining, todo, victim, timers, retired, bounds>>

DetachClosed ==
  /\ detach = "closing"
  /\ closing[victim] = "closed"
  /\ detach' = "each"
  /\ UNCHANGED <<registryVars, openVars, chatVars, closing, draining, todo, victim,
                 timers, retired, bounds>>

\* ... and ends in retireIfDrained.
DetachRetire ==
  /\ detach = "each"
  /\ todo = {}
  /\ RetireIfDrained
  /\ detach' = "none"
  /\ victim' = None
  /\ UNCHANGED <<registryVars, openVars, chatVars, closing, draining, todo, retired,
                 bounds>>

\* handleBootstrap: a desktop has come back.
Bootstrap ==
  /\ draining
  /\ draining' = FALSE
  /\ UNCHANGED <<registryVars, openVars, chatVars, closing, detach, todo, victim,
                 timers, retired, bounds>>

\* Mutant: a timer fires that nobody has started.
TimerUnset ==
  /\ timers' = timers - 1
  /\ retired' = (retired \/ (draining /\ chats = {}))
  /\ UNCHANGED <<registryVars, openVars, chatVars, closing, draining, detach, todo,
                 victim, bounds>>

\* The timer looks again, with lifecycleMu held.
Timer ==
  /\ timers > 0
  /\ timers' = timers - 1
  /\ retired' = (retired \/ (draining /\ chats = {}))
  /\ UNCHANGED <<registryVars, openVars, chatVars, closing, draining, detach, todo,
                 victim, bounds>>

Pumping(o) == \/ Pump(o) \/ PumpDraining(o) \/ PumpFind(o) \/ PumpDispose(o)
              \/ PumpClosed(o) \/ PumpRetire(o)

Closing(o) == Invalidate(o) \/ CloseRuntime(o)

Detaching == \/ DetachList \/ DetachDispose \/ DetachClosed \/ DetachRetire
             \/ \E o \in Opens : DetachFind(o)

Next == \/ \E o \in Opens : \/ \E s \in Sessions : Attach(o, s) \/ BeginOpen(o, s)
                             \/ Opening(o) \/ StartTurn(o) \/ EndTurn(o)
                             \/ Pumping(o) \/ Closing(o) \/ Dispose(o)
        \/ Detach \/ Detaching \/ Bootstrap \/ Timer

Spec == Init /\ [][Next]_vars

\* Goroutines and timers run, and every turn ends: no user closes a chat, and no
\* desktop comes back, unless it wants to.
Fairness == /\ \A o \in Opens : /\ WF_vars(Opening(o))
                                /\ WF_vars(Pumping(o))
                                /\ WF_vars(Closing(o))
                                /\ WF_vars(EndTurn(o))
            /\ WF_vars(Detaching)
            /\ WF_vars(Timer)

FairSpec == Spec /\ Fairness

-----------------------------------------------------------------------------
(* Properties. *)

TypeOK ==
  /\ chats \subseteq Opens
  /\ bySession \in [Sessions -> Opens \cup {None}]
  /\ session \in [Opens -> Sessions \cup {None}]
  /\ open \in [Opens -> {"start", "opening", "register", "lost", "hydrate", "pump",
                         "open", "attached", "failed"}]
  /\ runtime \in [Opens -> {"none", "open", "closed"}]
  /\ turn \in [Opens -> BOOLEAN]
  /\ events \in [Opens -> Seq({"running", "idle"})]
  /\ known \in [Opens -> {"running", "idle"}]
  /\ pump \in [Opens -> {"off", "read", "drain", "find", "dispose", "closing",
                         "retire"}]
  /\ closing \in [Opens -> {"no", "removed", "invalidated", "closed"}]
  /\ draining \in BOOLEAN /\ retired \in BOOLEAN
  /\ detach \in {"none", "list", "each", "dispose", "closing"}
  /\ todo \subseteq Opens /\ victim \in Opens \cup {None}
  /\ timers \in Nat /\ turns \in Nat
  /\ disposals \in Nat /\ detaches \in Nat

\* The two maps of the registry agree: a session leads to the registered chat
\* that drives it, and every registered chat is led to, by exactly one session
\* (register, remove).
RegistryConsistent ==
  /\ \A o \in chats : session[o] # None /\ bySession[session[o]] = o
  /\ \A s \in Sessions : bySession[s] # None =>
       bySession[s] \in chats /\ session[bySession[s]] = s

\* A runtime that is open belongs to a request that has just opened it, to a
\* registered chat, or to whoever is closing it: the losers of a race, failed
\* hydrations and concurrent disposals leave none behind (openChat, disposeChat).
NoOrphanRuntime ==
  \A o \in Opens : runtime[o] = "open" =>
    \/ open[o] \in {"register", "lost"}
    \/ o \in chats
    \/ closing[o] \in {"removed", "invalidated"}

OpenInFlight == \E o \in Opens :
  open[o] \in {"opening", "register", "lost", "hydrate", "pump"}

\* A detached server whose chats are all busy retires once their turns are over,
\* unless a chat is opened or a user closes one, although beginDrain and the pumps look at draining, the registry and the run
\* states in steps of their own (beginDrain, disposeIfDraining, retireIfDrained).
SettledTurnsRetire ==
  (draining /\ ~OpenInFlight /\ chats # {} /\ \A o \in chats : turn[o])
     ~> (retired \/ ~draining \/ OpenInFlight \/ disposals > 0)

-----------------------------------------------------------------------------
(* What the code says of itself and does not do. *)

\* "Only one runtime ever drives a session" (docs/architecture.md).
OneDriver ==
  \A o, p \in Opens : turn[o] /\ turn[p] /\ session[o] = session[p] => o = p

\* "Retire is closed after the desktop detaches and all running turns have
\* settled" (Server.Retire).
DetachRetires == draining ~> (retired \/ ~draining)
=============================================================================

------------------------- MODULE ChatRegistryProofs -------------------------
(***************************************************************************)
(* The registry stays consistent, no runtime is left without an owner, and *)
(* what the registry hands out is never a closed runtime, for any sessions,*)
(* any number of concurrent requests and any bounds.                       *)
(*                                                                         *)
(* The two maps say nothing of the requests that are between two steps of  *)
(* openChat.  The strengthening ties a chat's place in the registry, the   *)
(* label its request stands at and how far its disposal has got to each    *)
(* other: a chat is registered once, and given away once.                  *)
(***************************************************************************)
EXTENDS ChatRegistry, TLAPS

-----------------------------------------------------------------------------
(* The inductive invariant. *)

\* A request that has a session to open keeps it.
Asking == {"opening", "register", "lost", "hydrate", "pump", "open"}

RequestInv ==
  \A o \in Opens :
    /\ open[o] \in Asking => session[o] # None
    /\ open[o] \in {"start", "opening"} => runtime[o] = "none"
    /\ open[o] \in {"register", "lost"} => runtime[o] = "open"
    /\ open[o] \in {"start", "opening", "register", "lost", "attached"} =>
         closing[o] = "no"

\* What is in the registry has been put there by a request that is past register,
\* and nobody has begun to close it.
RegisteredIsLive ==
  \A o \in chats : /\ open[o] \in {"hydrate", "pump", "open"}
                   /\ runtime[o] = "open"
                   /\ closing[o] = "no"

DriveInv == detach \in {"dispose", "closing"} => victim \in Opens

IInv == /\ TypeOK /\ RequestInv /\ RegisteredIsLive /\ DriveInv
        /\ RegistryConsistent /\ NoOrphanRuntime

-----------------------------------------------------------------------------
(* Types. *)

LEMMA InitType == Init => TypeOK
<1> SUFFICES ASSUME Init PROVE TypeOK
  OBVIOUS
<1>1. events \in [Opens -> Seq({"running", "idle"})]
  BY DEF Init
<1>2. turn \in [Opens -> BOOLEAN]
  BY Zenon DEF Init
<1> QED BY <1>1, <1>2 DEF Init, TypeOK

\* remove keeps the types.
LEMMA RemoveType ==
  ASSUME TypeOK, NEW o \in Opens, Remove(o)
  PROVE  /\ chats' \subseteq Opens
         /\ bySession' \in [Sessions -> Opens \cup {None}]
         /\ closing' \in [Opens -> {"no", "removed", "invalidated", "closed"}]
BY DEF TypeOK, Remove

\* One lemma per group of actions; a step says what it changes.
LEMMA OpeningType ==
  ASSUME TypeOK, RequestInv, NEW o \in Opens,
         Opening(o) \/ \E s \in Sessions : Attach(o, s) \/ BeginOpen(o, s)
  PROVE  TypeOK'
<1> USE DEF TypeOK, GoOpen, registryVars, openVars, chatVars, drainVars, bounds
<1>1. ASSUME NEW s \in Sessions, Attach(o, s) PROVE TypeOK'
  BY <1>1 DEF Attach
<1>2. ASSUME NEW s \in Sessions, BeginOpen(o, s) PROVE TypeOK'
  BY <1>2 DEF BeginOpen
<1>3. CASE OpenRuntime(o)
  BY <1>3 DEF OpenRuntime
<1>4. CASE OpenFails(o)
  BY <1>4 DEF OpenFails
<1>5. CASE Register(o)
  <2>. session[o] \in Sessions
    BY <1>5 DEF Register, RequestInv, Asking
  <2>1. CASE bySession[session[o]] = None
    <3>1. /\ chats' = chats \cup {o} /\ bySession' = [bySession EXCEPT ![session[o]] = o]
          /\ open' = [open EXCEPT ![o] = "hydrate"]
      BY <1>5, <2>1 DEF Register
    <3>2. UNCHANGED <<session, chatVars, closing, drainVars, bounds>>
      BY <1>5 DEF Register
    <3> QED BY <3>1, <3>2
  <2>2. CASE bySession[session[o]] # None
    BY <1>5, <2>2 DEF Register
  <2> QED BY <2>1, <2>2
<1>6. CASE LoserCloses(o)
  BY <1>6 DEF LoserCloses
<1>7. CASE Hydrate(o)
  BY <1>7 DEF Hydrate
<1>8. CASE StartPump(o)
  BY <1>8 DEF StartPump
<1>9. CASE HydrateFails(o)
  BY <1>9, RemoveType DEF HydrateFails
<1> QED BY <1>1, <1>2, <1>3, <1>4, <1>5, <1>6, <1>7, <1>8, <1>9 DEF Opening

LEMMA TurnType ==
  ASSUME TypeOK, NEW o \in Opens, StartTurn(o) \/ EndTurn(o)
  PROVE  TypeOK'
<1> USE DEF TypeOK, registryVars, openVars, drainVars, bounds
<1>1. CASE StartTurn(o)
  <2>1. events' \in [Opens -> Seq({"running", "idle"})]
    BY <1>1 DEF StartTurn
  <2>2. turn' \in [Opens -> BOOLEAN]
    BY <1>1 DEF StartTurn
  <2> QED BY <1>1, <2>1, <2>2 DEF StartTurn
<1>2. CASE EndTurn(o)
  <2>1. events' \in [Opens -> Seq({"running", "idle"})]
    BY <1>2 DEF EndTurn
  <2>2. turn' \in [Opens -> BOOLEAN]
    BY <1>2 DEF EndTurn
  <2> QED BY <1>2, <2>1, <2>2 DEF EndTurn
<1> QED BY <1>1, <1>2

LEMMA PumpingType ==
  ASSUME TypeOK, NEW o \in Opens, Pumping(o)
  PROVE  TypeOK'
<1> USE DEF TypeOK, GoPump, registryVars, openVars, drainVars, bounds
<1>1. CASE Pump(o)
  <2>1. events[o] \in Seq({"running", "idle"}) /\ events[o] # <<>>
    BY <1>1 DEF Pump
  <2>2. /\ Head(events[o]) \in {"running", "idle"}
        /\ Tail(events[o]) \in Seq({"running", "idle"})
    BY <2>1
  <2>3. events' \in [Opens -> Seq({"running", "idle"})]
    BY <1>1, <2>2 DEF Pump
  <2>4. /\ known' \in [Opens -> {"running", "idle"}]
        /\ pump' \in [Opens -> {"off", "read", "drain", "find", "dispose", "closing",
                                "retire"}]
    BY ZenonT(40), <1>1, <2>2 DEF Pump
  <2> QED BY <1>1, <2>3, <2>4 DEF Pump
<1>2. CASE PumpDraining(o)
  BY <1>2 DEF PumpDraining
<1>3. CASE PumpFind(o)
  BY <1>3 DEF PumpFind
<1>4. CASE PumpDispose(o)
  BY ZenonT(40), <1>4, RemoveType DEF PumpDispose
<1>5. CASE PumpClosed(o)
  BY <1>5 DEF PumpClosed
<1>6. CASE PumpRetire(o)
  BY <1>6 DEF PumpRetire, RetireIfDrained
<1> QED BY <1>1, <1>2, <1>3, <1>4, <1>5, <1>6 DEF Pumping

LEMMA ClosingType ==
  ASSUME TypeOK, NEW o \in Opens, Closing(o) \/ Dispose(o)
  PROVE  TypeOK'
<1> USE DEF TypeOK, registryVars, openVars, chatVars, drainVars, bounds
<1>1. CASE Invalidate(o)
  BY <1>1 DEF Invalidate
<1>2. CASE CloseRuntime(o)
  BY <1>2 DEF CloseRuntime
<1>3. CASE Dispose(o)
  BY <1>3, RemoveType DEF Dispose
<1> QED BY <1>1, <1>2, <1>3 DEF Closing

LEMMA DrainType ==
  ASSUME TypeOK, DriveInv, Detach \/ Detaching \/ Bootstrap \/ Timer
  PROVE  TypeOK'
<1> USE DEF TypeOK, registryVars, openVars, chatVars, bounds
<1>1. CASE Detach
  BY <1>1 DEF Detach
<1>2. CASE Bootstrap
  BY <1>2 DEF Bootstrap
<1>3. CASE Timer
  <2>1. retired' \in BOOLEAN
    BY <1>3, Zenon DEF Timer
  <2>2. timers' \in Nat
    BY <1>3 DEF Timer
  <2> QED BY <1>3, <2>1, <2>2 DEF Timer
<1>4. CASE DetachList
  BY <1>4 DEF DetachList
<1>5. CASE DetachDispose
  BY <1>5, RemoveType DEF DetachDispose, DriveInv
<1>6. CASE DetachClosed
  BY <1>6 DEF DetachClosed
<1>7. CASE DetachRetire
  BY <1>7 DEF DetachRetire, RetireIfDrained
<1>8. ASSUME NEW o \in Opens, DetachFind(o) PROVE TypeOK'
  BY <1>8 DEF DetachFind
<1> QED BY <1>1, <1>2, <1>3, <1>4, <1>5, <1>6, <1>7, <1>8 DEF Detaching
-----------------------------------------------------------------------------
(* The invariant holds initially, and one lemma per group of actions says that *)
(* it is kept.                                                                 *)

\* What the actions are about, apart from the types.
Owned == RequestInv /\ RegisteredIsLive /\ RegistryConsistent /\ NoOrphanRuntime

LEMMA InitInv == Init => IInv
<1> SUFFICES ASSUME Init PROVE IInv
  OBVIOUS
<1>1. TypeOK
  BY InitType
<1>2. RequestInv /\ RegisteredIsLive /\ DriveInv /\ RegistryConsistent
        /\ NoOrphanRuntime
  BY RegistryAssumption DEF Init, RequestInv, RegisteredIsLive, DriveInv, Asking,
                            RegistryConsistent, NoOrphanRuntime
<1> QED BY <1>1, <1>2 DEF IInv

\* remove takes a chat out of both maps.
LEMMA RemoveKeepsMaps ==
  ASSUME TypeOK, RegistryConsistent, NEW o \in chats, Remove(o), session' = session
  PROVE  RegistryConsistent'
<1>1. o \in Opens /\ session[o] \in Sessions /\ bySession[session[o]] = o
  BY DEF TypeOK, RegistryConsistent
<1>2. ASSUME NEW p \in chats' PROVE session'[p] # None /\ bySession'[session'[p]] = p
  BY <1>1, <1>2 DEF Remove, TypeOK, RegistryConsistent
<1>3. ASSUME NEW s \in Sessions, bySession'[s] # None
      PROVE  bySession'[s] \in chats' /\ session'[bySession'[s]] = s
  BY <1>1, <1>3, RegistryAssumption DEF Remove, TypeOK, RegistryConsistent
<1> QED BY <1>2, <1>3 DEF RegistryConsistent

\* ... and leaves it to be closed by the one who took it out.
LEMMA RemoveKeepsOwners ==
  ASSUME IInv, NEW o \in chats, Remove(o), UNCHANGED <<session, open, runtime>>
  PROVE  Owned'
<1>1. RegistryConsistent'
  BY RemoveKeepsMaps DEF IInv
<1>2. RequestInv'
  BY DEF IInv, TypeOK, Remove, RequestInv, RegisteredIsLive, Asking
<1>3. RegisteredIsLive' /\ NoOrphanRuntime'
  BY DEF IInv, TypeOK, Remove, RegisteredIsLive, NoOrphanRuntime
<1> QED BY <1>1, <1>2, <1>3 DEF Owned

\* A step that touches neither the maps nor a runtime nor a request.
LEMMA OthersKeepOwners ==
  ASSUME IInv, UNCHANGED <<chats, bySession, session, open, runtime, closing>>
  PROVE  Owned'
BY DEF IInv, Owned, RequestInv, RegisteredIsLive, RegistryConsistent,
       NoOrphanRuntime

LEMMA OpeningOwned ==
  ASSUME IInv, NEW o \in Opens,
         Opening(o) \/ \E s \in Sessions : Attach(o, s) \/ BeginOpen(o, s)
  PROVE  Owned'
<1> USE DEF IInv, Owned, TypeOK, GoOpen, registryVars, openVars, chatVars,
            RequestInv, RegisteredIsLive, NoOrphanRuntime, Asking
<1>1. ASSUME NEW s \in Sessions, Attach(o, s) PROVE Owned'
  BY <1>1 DEF Attach, RegistryConsistent
<1>2. ASSUME NEW s \in Sessions, BeginOpen(o, s) PROVE Owned'
  <2>1. o \notin chats
    BY <1>2 DEF BeginOpen
  <2>2. RegistryConsistent'
    BY <1>2, <2>1 DEF BeginOpen, RegistryConsistent
  <2> QED BY <1>2, <2>1, <2>2, RegistryAssumption DEF BeginOpen
<1>3. CASE OpenRuntime(o)
  BY <1>3 DEF OpenRuntime, RegistryConsistent
<1>4. CASE OpenFails(o)
  BY <1>4 DEF OpenFails, RegistryConsistent
<1>5. CASE Register(o)
  <2>1. session[o] \in Sessions /\ runtime[o] = "open" /\ closing[o] = "no"
    BY <1>5 DEF Register
  <2>2. CASE bySession[session[o]] = None
    <3>1. chats' = chats \cup {o} /\ bySession' = [bySession EXCEPT ![session[o]] = o]
          /\ session' = session
      BY <1>5, <2>2 DEF Register
    <3>2. RegistryConsistent'
      <4>1. \A p \in chats : session[p] \in Sessions /\ bySession[session[p]] = p
        BY DEF RegistryConsistent
      <4>2. \A p \in chats' : session[p] # None /\ bySession'[session[p]] = p
        BY <2>1, <2>2, <3>1, <4>1, RegistryAssumption
      <4>3. \A s \in Sessions : bySession'[s] # None =>
              bySession'[s] \in chats' /\ session[bySession'[s]] = s
        BY <2>1, <2>2, <3>1 DEF RegistryConsistent
      <4> QED BY <3>1, <4>2, <4>3 DEF RegistryConsistent
    <3> QED BY <1>5, <2>1, <2>2, <3>2 DEF Register
  <2>3. CASE bySession[session[o]] # None
    <3>1. /\ UNCHANGED <<registryVars, session, chatVars, closing>>
          /\ open' = [open EXCEPT ![o] = "lost"]
      BY <1>5, <2>3 DEF Register
    <3> QED BY <1>5, <2>1, <3>1 DEF Register, RegistryConsistent
  <2> QED BY <2>2, <2>3
<1>6. CASE LoserCloses(o)
  BY <1>6 DEF LoserCloses, RegistryConsistent
<1>7. CASE Hydrate(o)
  BY <1>7 DEF Hydrate, RegistryConsistent
<1>8. CASE StartPump(o)
  BY <1>8 DEF StartPump, RegistryConsistent
<1>9. CASE HydrateFails(o)
  <2>1. CASE o \in chats
    <3>1. RegistryConsistent'
      BY <1>9, <2>1, RemoveKeepsMaps DEF HydrateFails
    <3> QED BY <1>9, <2>1, <3>1 DEF HydrateFails, Remove
  <2>2. CASE o \notin chats
    BY <1>9, <2>2 DEF HydrateFails, RegistryConsistent
  <2> QED BY <2>1, <2>2
<1> QED BY <1>1, <1>2, <1>3, <1>4, <1>5, <1>6, <1>7, <1>8, <1>9 DEF Opening

\* Only the one who has removed a chat closes it.
LEMMA ClosingOwned ==
  ASSUME IInv, NEW o \in Opens, Closing(o) \/ Dispose(o)
  PROVE  Owned'
<1>1. CASE Invalidate(o)
  BY <1>1 DEF Invalidate, IInv, Owned, TypeOK, RequestInv, RegisteredIsLive,
              RegistryConsistent, NoOrphanRuntime, registryVars, openVars, chatVars
<1>2. CASE CloseRuntime(o)
  BY <1>2 DEF CloseRuntime, IInv, Owned, TypeOK, RequestInv, RegisteredIsLive,
              RegistryConsistent, NoOrphanRuntime, registryVars, openVars, Asking
<1>3. CASE Dispose(o)
  BY <1>3, RemoveKeepsOwners DEF Dispose, openVars, chatVars
<1> QED BY <1>1, <1>2, <1>3 DEF Closing

LEMMA TurnOwned ==
  ASSUME IInv, NEW o \in Opens, StartTurn(o) \/ EndTurn(o) \/ Pumping(o)
  PROVE  Owned'
<1>1. CASE PumpDispose(o) /\ o \in chats
  BY <1>1, RemoveKeepsOwners DEF PumpDispose, openVars
<1>2. CASE PumpDispose(o) /\ o \notin chats
  BY <1>2, OthersKeepOwners DEF PumpDispose, openVars, registryVars
<1>3. CASE StartTurn(o) \/ EndTurn(o) \/ Pump(o) \/ PumpDraining(o) \/ PumpFind(o)
           \/ PumpClosed(o) \/ PumpRetire(o)
  BY <1>3, OthersKeepOwners DEF StartTurn, EndTurn, Pump, PumpDraining, PumpFind,
                                PumpClosed, PumpRetire, openVars, registryVars
<1> QED BY <1>1, <1>2, <1>3 DEF Pumping

LEMMA DrainOwned ==
  ASSUME IInv, Detach \/ Detaching \/ Bootstrap \/ Timer
  PROVE  Owned'
<1>1. CASE DetachDispose /\ victim \in chats
  BY <1>1, RemoveKeepsOwners DEF DetachDispose, openVars, chatVars
<1>2. CASE DetachDispose /\ victim \notin chats
  BY <1>2, OthersKeepOwners DEF DetachDispose, openVars, chatVars, registryVars
<1>3. CASE Detach \/ Bootstrap \/ Timer \/ DetachList \/ DetachClosed \/ DetachRetire
           \/ \E o \in Opens : DetachFind(o)
  BY <1>3, OthersKeepOwners DEF Detach, Bootstrap, Timer, DetachList, DetachClosed,
                                DetachRetire, DetachFind, openVars, chatVars,
                                registryVars
<1> QED BY <1>1, <1>2, <1>3 DEF Detaching

\* beginDrain disposes of a chat it has taken from the registry.
LEMMA DriveKept ==
  ASSUME IInv, Next
  PROVE  DriveInv'
<1>1. ASSUME NEW o \in Opens, DetachFind(o) PROVE DriveInv'
  BY <1>1 DEF DetachFind, DriveInv, IInv
<1>2. CASE Detach \/ DetachList \/ DetachDispose \/ DetachClosed \/ DetachRetire
  BY <1>2 DEF Detach, DetachList, DetachDispose, DetachClosed, DetachRetire, DriveInv,
              IInv
<1>3. CASE UNCHANGED <<detach, victim>>
  BY <1>3 DEF DriveInv, IInv
<1>4. ASSUME NEW o \in Opens,
             \/ \E s \in Sessions : Attach(o, s) \/ BeginOpen(o, s)
             \/ Opening(o)
      PROVE  UNCHANGED <<detach, victim>>
  BY <1>4 DEF Attach, BeginOpen, Opening, OpenRuntime, OpenFails, Register,
              LoserCloses, HydrateFails, Hydrate, StartPump, drainVars
<1>5. ASSUME NEW o \in Opens,
             StartTurn(o) \/ EndTurn(o) \/ Pumping(o) \/ Closing(o) \/ Dispose(o)
      PROVE  UNCHANGED <<detach, victim>>
  BY <1>5 DEF StartTurn, EndTurn, Pumping, Pump, PumpDraining, PumpFind, PumpDispose,
              PumpClosed, PumpRetire, Closing, Invalidate, CloseRuntime, Dispose,
              drainVars
<1>6. CASE Bootstrap \/ Timer
  BY <1>6, <1>3 DEF Bootstrap, Timer
<1> QED BY <1>1, <1>2, <1>3, <1>4, <1>5, <1>6 DEF Next, Detaching

LEMMA Inductive == IInv /\ [Next]_vars => IInv'
<1> SUFFICES ASSUME IInv, [Next]_vars PROVE IInv'
  OBVIOUS
<1>1. CASE UNCHANGED vars
  BY <1>1 DEF vars, registryVars, openVars, chatVars, drainVars, bounds, IInv, TypeOK,
              RequestInv, RegisteredIsLive, DriveInv, RegistryConsistent,
              NoOrphanRuntime
<1>2. CASE Next
  <2>1. DriveInv'
    BY <1>2, DriveKept
  <2>2. ASSUME NEW o \in Opens,
               \/ \E s \in Sessions : Attach(o, s) \/ BeginOpen(o, s)
               \/ Opening(o)
        PROVE  TypeOK' /\ Owned'
    BY <2>2, OpeningType, OpeningOwned DEF IInv
  <2>3. ASSUME NEW o \in Opens, StartTurn(o) \/ EndTurn(o) \/ Pumping(o)
        PROVE  TypeOK' /\ Owned'
    BY <2>3, TurnType, PumpingType, TurnOwned DEF IInv
  <2>4. ASSUME NEW o \in Opens, Closing(o) \/ Dispose(o) PROVE TypeOK' /\ Owned'
    BY <2>4, ClosingType, ClosingOwned DEF IInv
  <2>5. ASSUME Detach \/ Detaching \/ Bootstrap \/ Timer PROVE TypeOK' /\ Owned'
    BY <2>5, DrainType, DrainOwned DEF IInv
  <2>6. TypeOK' /\ Owned'
    BY <1>2, <2>2, <2>3, <2>4, <2>5 DEF Next
  <2> QED BY <2>1, <2>6 DEF IInv, Owned
<1> QED BY <1>1, <1>2

-----------------------------------------------------------------------------
(* The theorems. *)

LEMMA Invariance == Spec => []IInv
BY InitInv, Inductive, PTL DEF Spec

\* Requests, pumps, closers and the draining of the server never leave the registry,
\* a request or a chat in a state of another kind (chatRegistry, Server).
THEOREM TypeCorrect == Spec => []TypeOK
<1>1. IInv => TypeOK
  BY DEF IInv
<1> QED BY <1>1, Invariance, PTL

\* However many requests open, lose, fail and dispose at once, the two maps of the
\* registry agree (register, remove).
THEOREM MapsAgree == Spec => []RegistryConsistent
<1>1. IInv => RegistryConsistent
  BY DEF IInv
<1> QED BY <1>1, Invariance, PTL

\* Every open runtime has somebody who will close it (openChat, disposeChat).
THEOREM NoOrphans == Spec => []NoOrphanRuntime
<1>1. IInv => NoOrphanRuntime
  BY DEF IInv
<1> QED BY <1>1, Invariance, PTL

\* What a lookup finds has been read, runs and is not being closed: a chat leaves
\* the registry before its runtime is touched (get, remove, disposeChat).
THEOREM FoundIsLive == Spec => []RegisteredIsLive
<1>1. IInv => RegisteredIsLive
  BY DEF IInv
<1> QED BY <1>1, Invariance, PTL

\* A chat that has been given away never comes back into the registry, and a
\* closed runtime is never used again.
GoneForGood ==
  [][\A o \in Opens : /\ closing[o] # "no" => o \notin chats'
                      /\ runtime[o] = "closed" => runtime'[o] = "closed"]_vars

LEMMA NothingReopens ==
  ASSUME IInv, Next, NEW o \in Opens
  PROVE  /\ closing[o] # "no" => closing'[o] # "no"
         /\ runtime[o] = "closed" => runtime'[o] = "closed"
<1> USE DEF IInv, TypeOK
<1>1. ASSUME NEW p \in Opens, Remove(p) PROVE closing[o] # "no" => closing'[o] # "no"
  BY <1>1 DEF Remove
<1>2. ASSUME NEW p \in Opens,
             \/ \E s \in Sessions : Attach(p, s) \/ BeginOpen(p, s)
             \/ OpenFails(p) \/ Register(p) \/ Hydrate(p) \/ StartPump(p)
             \/ StartTurn(p) \/ EndTurn(p) \/ Pump(p) \/ PumpDraining(p)
             \/ PumpFind(p) \/ PumpClosed(p) \/ PumpRetire(p)
      PROVE  UNCHANGED <<closing, runtime>>
  BY <1>2 DEF Attach, BeginOpen, OpenFails, Register, Hydrate, StartPump, StartTurn,
              EndTurn, Pump, PumpDraining, PumpFind, PumpClosed, PumpRetire, chatVars
<1>3. ASSUME NEW p \in Opens, HydrateFails(p) \/ PumpDispose(p) \/ Dispose(p)
      PROVE  /\ runtime' = runtime
             /\ Remove(p) \/ closing' = closing
  BY <1>3 DEF HydrateFails, PumpDispose, Dispose, chatVars
<1>4. ASSUME NEW p \in Opens, OpenRuntime(p) \/ LoserCloses(p)
      PROVE  closing' = closing /\ (runtime[o] = "closed" => runtime'[o] = "closed")
  BY <1>4 DEF OpenRuntime, LoserCloses, RequestInv
<1>5. ASSUME NEW p \in Opens, Closing(p)
      PROVE  /\ closing[o] # "no" => closing'[o] # "no"
             /\ runtime[o] = "closed" => runtime'[o] = "closed"
  BY <1>5 DEF Closing, Invalidate, CloseRuntime, chatVars
<1>6. CASE DetachDispose
  <2>1. runtime' = runtime /\ (closing' = closing \/ (Remove(victim) /\ victim \in Opens))
    BY <1>6 DEF DetachDispose, chatVars
  <2> QED BY <2>1, <1>1
<1>7. ASSUME \/ Detach \/ Bootstrap \/ Timer \/ DetachList \/ DetachClosed
             \/ DetachRetire \/ \E p \in Opens : DetachFind(p)
      PROVE  UNCHANGED <<closing, runtime>>
  BY <1>7 DEF Detach, Bootstrap, Timer, DetachList, DetachClosed, DetachRetire,
              DetachFind, chatVars
<1> QED BY <1>1, <1>2, <1>3, <1>4, <1>5, <1>6, <1>7
        DEF Next, Opening, Pumping, Detaching

\* openChat, disposeChat and the drain between them close each runtime once, and the
\* registry never hands out again what it has given away.
THEOREM StaysGone == Spec => GoneForGood
<1>1. ASSUME IInv, IInv', [Next]_vars
      PROVE  [\A o \in Opens : /\ closing[o] # "no" => o \notin chats'
                               /\ runtime[o] = "closed" => runtime'[o] = "closed"]_vars
  <2> SUFFICES ASSUME Next, NEW o \in Opens
               PROVE  /\ closing[o] # "no" => o \notin chats'
                      /\ runtime[o] = "closed" => runtime'[o] = "closed"
    BY <1>1
  <2>1. o \in chats' => closing'[o] = "no"
    BY <1>1 DEF IInv, RegisteredIsLive
  <2> QED BY <1>1, <2>1, NothingReopens
<1> QED BY <1>1, Invariance, PTL DEF Spec, GoneForGood

=============================================================================

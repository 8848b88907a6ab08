--------------------------- MODULE SandboxProofs ---------------------------
(***************************************************************************)
(* The registered chats of every sandbox are counted, a sandbox has at     *)
(* most one runner that is neither on its way out nor left behind by a     *)
(* refused resume, and none is removed under a chat, for any sessions and  *)
(* any number of requests that overlap.                                    *)
(*                                                                         *)
(* None of the three is inductive: what a request may do to the pool       *)
(* depends on what it has found there some steps earlier.  The             *)
(* strengthening says what is still true of it then, because sessionOps is *)
(* held in between; closing a chat, which does not take that lock, only    *)
(* ever takes a connection out of the pool.                                *)
(***************************************************************************)
EXTENDS SandboxConnections, FiniteSetTheorems, TLAPS

-----------------------------------------------------------------------------
(* The inductive invariant. *)

\* Where a request holds sessionOps ...
Locked == {"resume", "ensure", "compare", "provision", "check", "run", "exec", "ready",
           "open", "register", "release", "discard", "discarded", "unsaved"}

\* ... has found no connection in the pool ...
Provisioning == {"compare", "provision", "check", "run", "exec", "ready"}

\* ... has its sandbox free of the old transport ...
Current == {"ensure", "compare", "check", "run", "exec", "ready", "open", "register",
            "live", "unsaved", "decrement"}

\* ... has a chat that counts ...
Counted == {"live", "unsaved", "decrement"}

\* ... or is past register.
Past == {"live", "unsaved", "decrement", "release", "transport", "stop", "done"}

RequestInv(r) ==
  /\ pc[r] \in Locked => ops = r
  /\ pc[r] \in Provisioning => connections[session[r]] = None
  /\ pc[r] = "ready" => conn[r] = r
  /\ pc[r] \in {"open", "register", "release"} =>
       /\ conn[r] # None /\ connections[session[r]] \in {None, conn[r]}
       /\ conn[r] = r => connections[session[r]] = None
  /\ conn[r] # None /\ conn[r] # r => pc[conn[r]] \in Past
  /\ pc[r] \in {"provision", "discard", "discarded"} => session[r] \notin records
  /\ pc[r] \in Current => session[r] \notin legacy

SessionInv(s) ==
  /\ connections[s] # None => s \in records /\ pc[connections[s]] \in Past
  /\ active[s] > 0 => s \in records
  /\ active[s] > 0 /\ ~closed => connections[s] # None

CountInv(s) == IsFiniteSet(Claims(s)) /\ active[s] = Cardinality(Claims(s))

\* An open runner is in the pool, about to get there, on its way out or left.
Entering(c) == conn[c] = c /\ pc[c] \in {"ready", "open", "register"}

RunnerInv(c) ==
  process[c] = "open" =>
    connections[session[c]] = c \/ Entering(c) \/ Leaving(c) \/ Left(c)

IInv == /\ TypeOK
        /\ \A r \in Requests : RequestInv(r) /\ RunnerInv(r)
        /\ \A s \in Sessions : SessionInv(s) /\ CountInv(s)
        /\ ~closed => closeAll = {}

-----------------------------------------------------------------------------
(* The claims of a sandbox. *)

\* A step that neither gives a chat nor takes one changes no count.
LEMMA SameClaims ==
  ASSUME UNCHANGED <<session, active>>,
         \A r \in Requests : (pc'[r] \in Counted) <=> (pc[r] \in Counted),
         \A s \in Sessions : CountInv(s)
  PROVE  \A s \in Sessions : CountInv(s)'
<1>1. \A s \in Sessions : Claims(s)' = Claims(s)
  BY DEF Claims, Counted
<1> QED BY <1>1 DEF CountInv

\* A step of a request that stays inside or outside of Counted.
LEMMA StepSameClaims ==
  ASSUME TypeOK, NEW r \in Requests, NEW l, pc' = [pc EXCEPT ![r] = l],
         (l \in Counted) <=> (pc[r] \in Counted),
         UNCHANGED <<session, active>>,
         \A s \in Sessions : CountInv(s)
  PROVE  \A s \in Sessions : CountInv(s)'
<1>1. \A q \in Requests : (pc'[q] \in Counted) <=> (pc[q] \in Counted)
  BY DEF TypeOK
<1> QED BY <1>1, SameClaims

\* A chat more.
LEMMA OneMore ==
  ASSUME TypeOK, NEW r \in Requests, NEW l \in Counted,
         pc' = [pc EXCEPT ![r] = l], pc[r] \notin Counted,
         session' = session,
         active' = [active EXCEPT ![session[r]] = @ + 1],
         \A s \in Sessions : CountInv(s)
  PROVE  \A s \in Sessions : CountInv(s)'
<1> SUFFICES ASSUME NEW s \in Sessions PROVE CountInv(s)'
  OBVIOUS
<1>1. session[r] \in Sessions /\ active[s] \in Nat
  BY DEF TypeOK
<1>2. CASE s = session[r]
  <2>1. Claims(s)' = Claims(s) \cup {r} /\ r \notin Claims(s)
    BY <1>2 DEF Claims, TypeOK, Counted
  <2>2. active'[s] = active[s] + 1
    BY <1>1, <1>2 DEF TypeOK
  <2>3. IsFiniteSet(Claims(s) \cup {r})
        /\ Cardinality(Claims(s) \cup {r}) = Cardinality(Claims(s)) + 1
    BY <2>1, FS_AddElement DEF CountInv
  <2> QED BY <2>1, <2>2, <2>3 DEF CountInv
<1>3. CASE s # session[r]
  <2>1. Claims(s)' = Claims(s)
    BY <1>3 DEF Claims, TypeOK, Counted
  <2>2. active'[s] = active[s]
    BY <1>3 DEF TypeOK
  <2> QED BY <2>1, <2>2 DEF CountInv
<1> QED BY <1>2, <1>3

\* A chat less.
LEMMA OneLess ==
  ASSUME TypeOK, NEW r \in Requests, NEW l, l \notin Counted,
         pc' = [pc EXCEPT ![r] = l], pc[r] \in Counted,
         session' = session,
         active' = [active EXCEPT ![session[r]] = @ - 1],
         \A s \in Sessions : CountInv(s)
  PROVE  \A s \in Sessions : CountInv(s)'
<1> SUFFICES ASSUME NEW s \in Sessions PROVE CountInv(s)'
  OBVIOUS
<1>1. session[r] \in Sessions /\ active[s] \in Nat
  BY DEF TypeOK
<1>2. CASE s = session[r]
  <2>1. Claims(s)' = Claims(s) \ {r} /\ r \in Claims(s)
    BY <1>2 DEF Claims, TypeOK, Counted
  <2>2. active'[s] = active[s] - 1
    BY <1>1, <1>2 DEF TypeOK
  <2>3. IsFiniteSet(Claims(s) \ {r})
        /\ Cardinality(Claims(s) \ {r}) = Cardinality(Claims(s)) - 1
    BY <2>1, FS_RemoveElement DEF CountInv
  <2> QED BY <2>1, <2>2, <2>3 DEF CountInv
<1>3. CASE s # session[r]
  <2>1. Claims(s)' = Claims(s)
    BY <1>3 DEF Claims, TypeOK, Counted
  <2>2. active'[s] = active[s]
    BY <1>3 DEF TypeOK
  <2> QED BY <2>1, <2>2 DEF CountInv
<1> QED BY <1>2, <1>3

\* A sandbox with a chat has a count, and the other way round.
LEMMA CountedIsActive ==
  ASSUME TypeOK, NEW s \in Sessions, CountInv(s)
  PROVE  Claims(s) = {} <=> active[s] = 0
BY FS_EmptySet, FS_CardinalityType DEF CountInv

LEMMA ClaimIsActive ==
  ASSUME TypeOK, NEW r \in Requests, pc[r] \in Counted, CountInv(session[r])
  PROVE  active[session[r]] > 0
<1>1. session[r] \in Sessions /\ r \in Claims(session[r])
  BY DEF TypeOK, Claims, Counted
<1> QED BY <1>1, CountedIsActive DEF TypeOK

-----------------------------------------------------------------------------
(* The invariant holds initially. *)

LEMMA InitInv == Init => IInv
<1> SUFFICES ASSUME Init PROVE IInv
  OBVIOUS
<1>1. TypeOK
  <2>1. auth \in [Sessions -> BOOLEAN] /\ reuse \in [Requests -> BOOLEAN]
        /\ kit \in [Requests -> BOOLEAN] /\ gateway \in BOOLEAN /\ closed \in BOOLEAN
    BY Zenon DEF Init
  <2>2. records \subseteq Sessions /\ legacy \subseteq records
    BY SandboxAssumption DEF Init
  <2> QED BY <2>1, <2>2 DEF Init, TypeOK
<1>2. \A r \in Requests : RequestInv(r)
  BY DEF Init, RequestInv, Locked, Provisioning, Current
<1>3. \A s \in Sessions : SessionInv(s)
  BY DEF Init, SessionInv
<1>4. ASSUME NEW s \in Sessions PROVE CountInv(s)
  <2>1. Claims(s) = {}
    BY DEF Init, Claims
  <2> QED BY <2>1, FS_EmptySet DEF Init, CountInv
<1>5. (\A c \in Requests : RunnerInv(c)) /\ closeAll = {}
  BY DEF Init, RunnerInv
<1> QED BY <1>1, <1>2, <1>3, <1>4, <1>5 DEF IInv

-----------------------------------------------------------------------------
(* Types. *)

\* However many runners are stopped, each has a state.
LEMMA StoppedType ==
  ASSUME TypeOK, NEW cs, Stopped(cs)
  PROVE  process' \in [Requests -> {"none", "open", "closed"}]
BY DEF TypeOK, Stopped

LEMMA FinishType ==
  ASSUME TypeOK, NEW r \in Requests, Finish(r)
  PROVE  /\ ops' \in Requests \cup {None}
         /\ pc' = [pc EXCEPT ![r] = "done"]
BY DEF TypeOK, Finish, Goto

LEMMA OpeningType ==
  ASSUME IInv, NEW r \in Requests, Opening(r)
  PROVE  TypeOK'
<1> USE StoppedType, FinishType
        DEF IInv, TypeOK, Goto, poolVars, mineVars, boxVars, hostVars
<1>1. CASE OpenChat(r)
  BY <1>1 DEF OpenChat
<1>2. CASE ReplaceLegacy(r)
  BY <1>2 DEF ReplaceLegacy, RemoveBox, CommandFails
<1>3. CASE Resume(r)
  BY <1>3 DEF Resume
<1>4. CASE EnsureRecord(r)
  BY <1>4 DEF EnsureRecord
<1>5. CASE CompareAuth(r)
  <2>1. kit' \in [Requests -> BOOLEAN] /\ reuse' \in [Requests -> BOOLEAN]
    BY <1>5 DEF CompareAuth
  <2>2. /\ process' \in [Requests -> {"none", "open", "closed"}]
        /\ box' \in [Sessions -> {"absent", "stopped", "running"}]
    BY <1>5 DEF CompareAuth, RemoveBox, CommandFails
  <2>3. /\ ops' \in Requests \cup {None}
        /\ \E l \in {"check", "done"} : pc' = [pc EXCEPT ![r] = l]
    BY <1>5 DEF CompareAuth
  <2> QED BY <1>5, <2>1, <2>2, <2>3 DEF CompareAuth
<1>6. CASE Provision(r)
  BY <1>6 DEF Provision
<1>7. CASE CheckClosed(r)
  BY <1>7 DEF CheckClosed
<1>8. CASE Run(r)
  BY <1>8 DEF Run
<1>9. CASE Exec(r)
  BY <1>9 DEF Exec
<1>10. CASE Ready(r)
  BY <1>10 DEF Ready
<1>11. CASE RemoteOpen(r)
  BY <1>11 DEF RemoteOpen
<1>12. CASE Register(r)
  <2>1. conn[r] \in Requests /\ session[r] \in Sessions
    BY <1>12 DEF Register, RequestInv
  <2>2. auth' \in [Sessions -> BOOLEAN]
    BY <1>12, <2>1 DEF Register
  <2>3. \E l \in {"live", "unsaved"} : pc' = [pc EXCEPT ![r] = l]
    BY <1>12 DEF Register
  <2>4. /\ records' \subseteq Sessions /\ active' \in [Sessions -> Nat]
        /\ connections' \in [Sessions -> Requests \cup {None}]
        /\ ops' \in Requests \cup {None}
    BY <1>12, <2>1 DEF Register
  <2> QED BY <1>12, <2>2, <2>3, <2>4 DEF Register
<1>13. CASE Discard(r)
  BY <1>13 DEF Discard
<1>14. CASE DiscardBox(r)
  BY <1>14 DEF DiscardBox, RemoveBox
<1> QED BY <1>1, <1>2, <1>3, <1>4, <1>5, <1>6, <1>7, <1>8, <1>9, <1>10, <1>11, <1>12, <1>13, <1>14
        DEF Opening

LEMMA ClosingType ==
  ASSUME IInv, NEW r \in Requests, CloseChat(r) \/ Releasing(r)
  PROVE  TypeOK'
<1> USE StoppedType, FinishType
        DEF IInv, TypeOK, Goto, poolVars, mineVars, boxVars, hostVars
<1>1. CASE CloseChat(r)
  BY <1>1 DEF CloseChat
<1>2. CASE Release(r)
  BY <1>2 DEF Release
<1>3. CASE Transport(r)
  BY <1>3 DEF Transport
<1>4. CASE Stop(r)
  BY <1>4 DEF Stop, StopBox, CommandFails
<1> QED BY <1>1, <1>2, <1>3, <1>4 DEF Releasing

LEMMA HostType ==
  ASSUME IInv, Close \/ ChangeGateway \/ \E c \in Requests : CloseOne(c) \/ Die(c)
  PROVE  TypeOK'
<1> USE StoppedType DEF IInv, TypeOK, poolVars, mineVars, boxVars, hostVars
<1>1. CASE Close
  BY <1>1 DEF Close
<1>2. CASE ChangeGateway
  BY <1>2 DEF ChangeGateway
<1>3. ASSUME NEW c \in Requests, CloseOne(c) PROVE TypeOK'
  BY <1>3 DEF CloseOne, StopBox
<1>4. ASSUME NEW c \in Requests, Die(c) PROVE TypeOK'
  BY <1>4 DEF Die
<1> QED BY <1>1, <1>2, <1>3, <1>4

-----------------------------------------------------------------------------
(* What a request has found stays true while it holds sessionOps. *)

PoolInv == /\ \A r \in Requests : RequestInv(r)
           /\ \A s \in Sessions : SessionInv(s)
           /\ ~closed => closeAll = {}

LEMMA OpeningPool ==
  ASSUME IInv, NEW r \in Requests, Opening(r)
  PROVE  PoolInv'
<1> USE DEF IInv, TypeOK, PoolInv, RequestInv, SessionInv, Locked, Provisioning,
            Current, Past, Goto, poolVars, mineVars, boxVars, hostVars
<1>1. CASE OpenChat(r)
  <2>1. /\ ops = None /\ ops' = r /\ pc[r] = "start"
        /\ UNCHANGED <<session, records, legacy, connections, active, closed, closeAll, conn>>
    BY <1>1 DEF OpenChat
  <2>2. \A q \in Requests : pc[q] \notin Locked
    BY <2>1, SandboxAssumption
  <2>3. CASE session[r] \in records /\ pc' = [pc EXCEPT ![r] = "resume"]
    BY <2>1, <2>2, <2>3
  <2>4. CASE session[r] \notin records /\ pc' = [pc EXCEPT ![r] = "provision"]
    BY <2>1, <2>2, <2>4
  <2> QED BY <1>1, <2>3, <2>4 DEF OpenChat
<1>2. CASE ReplaceLegacy(r)
  BY <1>2, FinishType DEF ReplaceLegacy, CommandFails
<1>3. CASE Resume(r)
  BY <1>3, FinishType DEF Resume
<1>4. CASE EnsureRecord(r)
  BY <1>4, FinishType DEF EnsureRecord
<1>5. CASE CompareAuth(r)
  BY <1>5, FinishType DEF CompareAuth, CommandFails
<1>6. CASE Provision(r)
  BY <1>6, FinishType DEF Provision
<1>7. CASE CheckClosed(r)
  BY <1>7, FinishType DEF CheckClosed
<1>8. CASE Run(r)
  BY <1>8, FinishType DEF Run
<1>9. CASE Exec(r)
  BY <1>9, FinishType DEF Exec
<1>10. CASE Ready(r)
  BY <1>10, SandboxAssumption DEF Ready
<1>11. CASE RemoteOpen(r)
  BY <1>11, FinishType DEF RemoteOpen
<1>12. CASE Register(r)
  BY <1>12, FinishType DEF Register
<1>13. CASE Discard(r)
  BY <1>13, FinishType DEF Discard
<1>14. CASE DiscardBox(r)
  BY <1>14, FinishType DEF DiscardBox
<1> QED BY <1>1, <1>2, <1>3, <1>4, <1>5, <1>6, <1>7, <1>8, <1>9, <1>10, <1>11, <1>12, <1>13, <1>14
        DEF Opening

LEMMA ClosingPool ==
  ASSUME IInv, NEW r \in Requests, CloseChat(r) \/ Releasing(r)
  PROVE  PoolInv'
<1> USE DEF IInv, TypeOK, PoolInv, RequestInv, SessionInv, Locked, Provisioning,
            Current, Past, Goto, poolVars, mineVars, boxVars, hostVars
<1>1. CASE CloseChat(r)
  BY <1>1 DEF CloseChat
<1>2. CASE Release(r)
  <2> DEFINE n == IF pc[r] = "decrement" /\ active[session[r]] > 0
                  THEN active[session[r]] - 1 ELSE active[session[r]]
  <2>1. /\ pc[r] \in {"decrement", "release"} /\ conn' = [conn EXCEPT ![r] = IF pc[r] = "release" /\ @ = r THEN r ELSE None]
        /\ UNCHANGED <<session, records, legacy, closed, closeAll>>
        /\ active' = [active EXCEPT ![session[r]] = n]
    BY <1>2 DEF Release
  <2>2. session[r] \in Sessions /\ n \in Nat /\ (n # 0 => active[session[r]] > 0)
    OBVIOUS
  <2>3. CASE n # 0
    <3>1. Finish(r) /\ UNCHANGED connections
      BY <1>2, <2>3 DEF Release
    <3> HIDE DEF n
    <3> QED BY <2>1, <2>2, <2>3, <3>1 DEF Finish
  <2>4. CASE n = 0
    <3>1. PICK l \in {"transport", "stop"} : pc' = [pc EXCEPT ![r] = l]
      BY <1>2, <2>4 DEF Release
    <3>2. /\ connections' = [connections EXCEPT ![session[r]] = None] /\ ops' = ops
      BY <1>2, <2>4 DEF Release
    <3> HIDE DEF n
    <3>3. ASSUME NEW q \in Requests PROVE RequestInv(q)'
      BY <2>1, <3>1, <3>2
    <3>4. ASSUME NEW s \in Sessions PROVE SessionInv(s)'
      BY <2>1, <2>2, <2>4, <3>1, <3>2
    <3> QED BY <2>1, <3>3, <3>4
  <2> QED BY <2>3, <2>4
<1>3. CASE Transport(r)
  BY <1>3 DEF Transport
<1>4. CASE Stop(r)
  BY <1>4 DEF Stop, Finish
<1> QED BY <1>1, <1>2, <1>3, <1>4 DEF Releasing

LEMMA HostPool ==
  ASSUME IInv, Close \/ ChangeGateway \/ \E c \in Requests : CloseOne(c) \/ Die(c)
  PROVE  PoolInv'
<1> USE DEF IInv, TypeOK, PoolInv, RequestInv, SessionInv, Locked, Provisioning,
            Current, Past, poolVars, mineVars, boxVars, hostVars
<1>1. CASE Close
  BY <1>1 DEF Close
<1>2. CASE ChangeGateway
  BY <1>2 DEF ChangeGateway
<1>3. ASSUME NEW c \in Requests, CloseOne(c) PROVE PoolInv'
  BY <1>3 DEF CloseOne
<1>4. ASSUME NEW c \in Requests, Die(c) PROVE PoolInv'
  BY <1>4 DEF Die
<1> QED BY <1>1, <1>2, <1>3, <1>4

-----------------------------------------------------------------------------
(* Every chat is counted. *)

\* Up to Register a request has no chat.
LEMMA BeforeRegister ==
  ASSUME IInv, NEW r \in Requests, Opening(r), ~Register(r)
  PROVE  /\ UNCHANGED <<session, active>>
         /\ pc[r] \notin Counted
         /\ \E l : l \notin Counted /\ pc' = [pc EXCEPT ![r] = l]
<1> USE FinishType DEF IInv, Goto, Counted, poolVars, mineVars
<1>1. CASE OpenChat(r)
  BY <1>1 DEF OpenChat
<1>2. CASE ReplaceLegacy(r)
  BY <1>2 DEF ReplaceLegacy
<1>3. CASE Resume(r)
  BY <1>3 DEF Resume
<1>4. CASE EnsureRecord(r)
  BY <1>4 DEF EnsureRecord
<1>5. CASE CompareAuth(r)
  BY <1>5 DEF CompareAuth
<1>6. CASE Provision(r)
  BY <1>6 DEF Provision
<1>7. CASE CheckClosed(r)
  BY <1>7 DEF CheckClosed
<1>8. CASE Run(r)
  BY <1>8 DEF Run
<1>9. CASE Exec(r)
  BY <1>9 DEF Exec
<1>10. CASE Ready(r)
  BY <1>10 DEF Ready
<1>11. CASE RemoteOpen(r)
  BY <1>11 DEF RemoteOpen
<1>12. CASE Discard(r)
  BY <1>12 DEF Discard
<1>13. CASE DiscardBox(r)
  BY <1>13 DEF DiscardBox
<1> QED BY <1>1, <1>2, <1>3, <1>4, <1>5, <1>6, <1>7, <1>8, <1>9, <1>10, <1>11, <1>12, <1>13
        DEF Opening

LEMMA OpeningCount ==
  ASSUME IInv, NEW r \in Requests, Opening(r)
  PROVE  \A s \in Sessions : CountInv(s)'
<1>1. CASE Register(r)
  <2>1. \E l \in Counted : pc' = [pc EXCEPT ![r] = l]
    BY <1>1 DEF Register, Goto, Counted
  <2>2. /\ pc[r] \notin Counted /\ session' = session
        /\ active' = [active EXCEPT ![session[r]] = @ + 1]
    BY <1>1 DEF Register, Counted, mineVars
  <2> QED BY <2>1, <2>2, OneMore DEF IInv
<1>2. CASE ~Register(r)
  BY <1>2, BeforeRegister, StepSameClaims DEF IInv
<1> QED BY <1>1, <1>2

LEMMA ClosingCount ==
  ASSUME IInv, NEW r \in Requests, CloseChat(r) \/ Releasing(r)
  PROVE  \A s \in Sessions : CountInv(s)'
<1>1. CASE CloseChat(r)
  <2>1. /\ pc' = [pc EXCEPT ![r] = "decrement"] /\ UNCHANGED <<session, active>>
        /\ pc[r] \in Counted /\ "decrement" \in Counted
    BY <1>1 DEF CloseChat, Goto, Counted, poolVars, mineVars
  <2> QED BY <2>1, StepSameClaims DEF IInv
<1>2. CASE Release(r)
  <2>1. session' = session /\ \E l : l \notin Counted /\ pc' = [pc EXCEPT ![r] = l]
    BY <1>2, FinishType DEF Release, Goto, Counted, IInv
  <2>2. session[r] \in Sessions /\ active[session[r]] \in Nat
    BY DEF IInv, TypeOK
  <2>3. CASE pc[r] = "decrement"
    <3>1. active[session[r]] > 0
      BY <2>2, <2>3, ClaimIsActive DEF IInv, Counted
    <3>2. active' = [active EXCEPT ![session[r]] = @ - 1]
      BY <1>2, <2>3, <3>1 DEF Release
    <3> QED BY <2>1, <2>3, <3>2, OneLess DEF IInv, Counted
  <2>4. CASE pc[r] = "release"
    <3>1. active' = active
      BY <1>2, <2>4 DEF Release, IInv, TypeOK
    <3> QED BY <2>1, <2>4, <3>1, StepSameClaims DEF IInv, Counted
  <2> QED BY <1>2, <2>3, <2>4 DEF Release
<1>3. CASE Transport(r) \/ Stop(r)
  <2>1. /\ \E l : l \notin Counted /\ pc' = [pc EXCEPT ![r] = l]
        /\ pc[r] \notin Counted /\ UNCHANGED <<session, active>>
    BY <1>3, FinishType DEF Transport, Stop, Goto, Counted, IInv, poolVars, mineVars
  <2> QED BY <2>1, StepSameClaims DEF IInv
<1> QED BY <1>1, <1>2, <1>3 DEF Releasing

LEMMA HostCount ==
  ASSUME IInv, Close \/ ChangeGateway \/ \E c \in Requests : CloseOne(c) \/ Die(c)
  PROVE  \A s \in Sessions : CountInv(s)'
<1>1. UNCHANGED <<pc, session, active>>
  BY DEF Close, ChangeGateway, CloseOne, Die, poolVars, mineVars
<1> QED BY <1>1, SameClaims DEF IInv

-----------------------------------------------------------------------------
(* Where every open runner stands. *)

RunnersInv == \A c \in Requests : RunnerInv(c)

\* A step that takes no connection from anybody.
LEMMA RunnersStay ==
  ASSUME IInv, UNCHANGED <<pc, session, conn, ending, connections, closeAll>>,
         \A c \in Requests : process'[c] = "open" => process[c] = "open"
  PROVE  RunnersInv'
BY DEF IInv, RunnersInv, RunnerInv, Entering, Leaving, Left

\* Stopping runners opens none.
LEMMA StoppedOpens ==
  ASSUME NEW cs, Stopped(cs), NEW c \in Requests, process'[c] = "open"
  PROVE  process[c] = "open" /\ c \notin cs
BY DEF Stopped

\* A request that goes from one place to another and touches no connection.
LEMMA RunnersMove ==
  ASSUME IInv, NEW r \in Requests, NEW l, pc' = [pc EXCEPT ![r] = l],
         UNCHANGED <<session, conn, ending, connections, closeAll>>,
         \A c \in Requests : process'[c] = "open" => process[c] = "open",
         pc[r] \notin {"ready", "open", "register", "discard", "discarded", "release",
                        "transport", "stop", "done"}
  PROVE  RunnersInv'
BY DEF IInv, TypeOK, RunnersInv, RunnerInv, Entering, Leaving, Left

LEMMA OpeningRunners ==
  ASSUME IInv, NEW r \in Requests, Opening(r)
  PROVE  RunnersInv'
<1> USE DEF Goto, poolVars, mineVars, boxVars, hostVars
<1>1. CASE OpenChat(r) \/ Resume(r) \/ Provision(r)
  BY <1>1, RunnersMove DEF OpenChat, Resume, Provision
<1>2. CASE ReplaceLegacy(r)
  BY <1>2, RunnersMove, FinishType, StoppedOpens
     DEF ReplaceLegacy, RemoveBox, CommandFails, IInv
<1>3. CASE EnsureRecord(r)
  BY <1>3 DEF EnsureRecord, IInv, TypeOK, RunnersInv, RunnerInv, Entering, Leaving, Left
<1>4. CASE CompareAuth(r)
  BY <1>4, RunnersMove, FinishType, StoppedOpens
     DEF CompareAuth, RemoveBox, CommandFails, IInv
<1>5. CASE CheckClosed(r) \/ Run(r)
  BY <1>5, RunnersMove, FinishType DEF CheckClosed, Run, IInv
<1>6. CASE Exec(r)
  BY <1>6, FinishType
     DEF Exec, IInv, TypeOK, RunnersInv, RunnerInv, Entering, Leaving, Left
<1>7. CASE Ready(r)
  BY <1>7 DEF Ready, IInv, TypeOK, RequestInv, RunnersInv, RunnerInv, Entering, Leaving,
              Left
<1>8. CASE RemoteOpen(r)
  BY <1>8 DEF RemoteOpen, IInv, TypeOK, RunnersInv, RunnerInv, Entering, Leaving, Left
<1>9. CASE Register(r)
  <2>1. /\ pc[r] = "register" /\ session[r] \in Sessions
        /\ connections[session[r]] \in {None, conn[r]} /\ conn[r] # None
        /\ conn[r] = r => connections[session[r]] = None
    BY <1>9 DEF Register, IInv, TypeOK, RequestInv
  <2>2. /\ \E l \in {"live", "unsaved"} : pc' = [pc EXCEPT ![r] = l]
        /\ connections' = [connections EXCEPT ![session[r]] = conn[r]]
        /\ UNCHANGED <<session, conn, ending, closeAll, process>>
    BY <1>9 DEF Register
  <2> SUFFICES ASSUME NEW c \in Requests, process[c] = "open" PROVE RunnerInv(c)'
    BY <2>2 DEF RunnersInv, RunnerInv
  <2>3. connections[session[c]] = c => connections'[session[c]] = c
    BY <2>1, <2>2, SandboxAssumption DEF IInv, TypeOK
  <2>4. Entering(c) => connections'[session[c]] = c \/ Entering(c)'
    BY <2>1, <2>2 DEF IInv, TypeOK, Entering
  <2>5. Leaving(c) => Leaving(c)'
    BY <2>1, <2>2 DEF IInv, TypeOK, Leaving
  <2>6. Left(c) => Left(c)'
    BY <2>1, <2>2 DEF IInv, TypeOK, Left
  <2> QED BY <2>2, <2>3, <2>4, <2>5, <2>6 DEF IInv, RunnerInv
<1>10. CASE Discard(r)
  BY <1>10 DEF Discard, IInv, TypeOK, RequestInv, SessionInv, RunnersInv, RunnerInv,
               Entering, Leaving, Left
<1>11. CASE DiscardBox(r)
  <2>1. pc[r] = "discarded" /\ pc' = [pc EXCEPT ![r] = "done"]
        /\ UNCHANGED <<session, conn, ending, connections, closeAll>>
    BY <1>11, FinishType DEF DiscardBox, IInv
  <2>2. ASSUME NEW c \in Requests, process'[c] = "open"
        PROVE  process[c] = "open" /\ (c = r => conn[r] # r)
    BY <1>11, <2>2, StoppedOpens DEF DiscardBox, RemoveBox, Runners
  <2> QED BY <2>1, <2>2
          DEF IInv, TypeOK, RunnersInv, RunnerInv, Entering, Leaving, Left
<1> QED BY <1>1, <1>2, <1>3, <1>4, <1>5, <1>6, <1>7, <1>8, <1>9, <1>10, <1>11
        DEF Opening

LEMMA ClosingRunners ==
  ASSUME IInv, NEW r \in Requests, CloseChat(r) \/ Releasing(r)
  PROVE  RunnersInv'
<1> USE DEF Goto, poolVars, mineVars, boxVars, hostVars
<1>1. CASE CloseChat(r)
  BY <1>1, RunnersMove DEF CloseChat
<1>2. CASE Release(r)
  BY <1>2, FinishType
     DEF Release, IInv, TypeOK, RequestInv, RunnersInv, RunnerInv, Entering, Leaving, Left
<1>3. CASE Transport(r)
  BY <1>3, StoppedOpens
     DEF Transport, IInv, TypeOK, RunnersInv, RunnerInv, Entering, Leaving, Left
<1>4. CASE Stop(r)
  BY <1>4, FinishType, StoppedOpens
     DEF Stop, StopBox, CommandFails, IInv, TypeOK, RunnersInv, RunnerInv, Entering,
         Leaving, Left
<1> QED BY <1>1, <1>2, <1>3, <1>4 DEF Releasing

LEMMA HostRunners ==
  ASSUME IInv, Close \/ ChangeGateway \/ \E c \in Requests : CloseOne(c) \/ Die(c)
  PROVE  RunnersInv'
<1> USE DEF poolVars, mineVars, boxVars, hostVars
<1>1. CASE Close
  BY <1>1, SandboxAssumption
     DEF Close, IInv, TypeOK, RunnersInv, RunnerInv, Entering, Leaving, Left
<1>2. CASE ChangeGateway
  BY <1>2, RunnersStay DEF ChangeGateway
<1>3. ASSUME NEW c \in Requests, CloseOne(c) PROVE RunnersInv'
  <2>1. ASSUME NEW d \in Requests, process'[d] = "open"
        PROVE  process[d] = "open" /\ d # c
    BY <1>3, <2>1, StoppedOpens DEF CloseOne, StopBox, Runners
  <2> QED BY <1>3, <2>1
          DEF CloseOne, IInv, TypeOK, RunnersInv, RunnerInv, Entering, Leaving, Left
<1>4. ASSUME NEW c \in Requests, Die(c) PROVE RunnersInv'
  BY <1>4, RunnersStay, StoppedOpens DEF Die
<1> QED BY <1>1, <1>2, <1>3, <1>4

-----------------------------------------------------------------------------
LEMMA Inductive == IInv /\ [Next]_vars => IInv'
<1> SUFFICES ASSUME IInv, [Next]_vars PROVE IInv'
  OBVIOUS
<1>1. CASE UNCHANGED vars
  <2>1. TypeOK' /\ PoolInv'
    BY <1>1 DEF vars, poolVars, mineVars, boxVars, hostVars, IInv, TypeOK, PoolInv,
                RequestInv, SessionInv
  <2>2. \A s \in Sessions : CountInv(s)'
    BY <1>1, SameClaims DEF vars, poolVars, mineVars, IInv
  <2>3. RunnersInv'
    BY <1>1, RunnersStay DEF vars, poolVars, mineVars, boxVars
  <2> QED BY <2>1, <2>2, <2>3 DEF IInv, PoolInv, RunnersInv
<1>2. ASSUME NEW r \in Requests, Opening(r) PROVE IInv'
  BY <1>2, OpeningType, OpeningPool, OpeningCount, OpeningRunners
     DEF IInv, PoolInv, RunnersInv
<1>3. ASSUME NEW r \in Requests, CloseChat(r) \/ Releasing(r) PROVE IInv'
  BY <1>3, ClosingType, ClosingPool, ClosingCount, ClosingRunners
     DEF IInv, PoolInv, RunnersInv
<1>4. ASSUME Close \/ ChangeGateway \/ \E c \in Requests : CloseOne(c) \/ Die(c)
      PROVE  IInv'
  BY <1>4, HostType, HostPool, HostCount, HostRunners
     DEF IInv, PoolInv, RunnersInv
<1> QED BY <1>1, <1>2, <1>3, <1>4 DEF Next

-----------------------------------------------------------------------------
(* What the invariant says of runners and of sandboxes. *)

\* A runner of the pool and one that is about to enter it exclude each other, and
\* the holder of sessionOps is the only one who may bring a new one.
LEMMA KeptAreOne ==
  ASSUME IInv, NEW s \in Sessions, NEW c \in Runners(s), NEW d \in Runners(s),
         ~Leaving(c), ~Left(c), ~Leaving(d), ~Left(d)
  PROVE  c = d
<1>1. /\ c \in Requests /\ d \in Requests /\ session[c] = s /\ session[d] = s
      /\ connections[s] = c \/ Entering(c)
      /\ connections[s] = d \/ Entering(d)
  BY DEF Runners, IInv, RunnerInv
<1>2. ASSUME NEW e \in Requests, session[e] = s, Entering(e)
      PROVE  connections[s] = None /\ ops = e
  BY <1>2 DEF IInv, RequestInv, Provisioning, Locked, Entering
<1> QED BY <1>1, <1>2, SandboxAssumption

LEMMA AtMostOne ==
  ASSUME NEW S, \A x, y \in S : x = y
  PROVE  Cardinality(S) <= 1
<1>1. CASE S = {}
  BY <1>1, FS_EmptySet
<1>2. ASSUME NEW x \in S PROVE Cardinality(S) <= 1
  <2>1. S = {x}
    BY <1>2
  <2> QED BY <2>1, FS_Singleton
<1> QED BY <1>1, <1>2

\* A sandbox that OpenChat removes has no chat.
LEMMA RemovedIsUnused ==
  ASSUME IInv, [Next]_vars, NEW s \in Sessions, box'[s] = "absent", box[s] # "absent"
  PROVE  Claims(s) = {} \/ closed
<1> USE DEF IInv, TypeOK
<1>1. ASSUME NEW cs \in Sessions, StopBox(cs) PROVE FALSE
  BY <1>1 DEF StopBox
<1>2. ASSUME UNCHANGED box PROVE FALSE
  BY <1>2
<1>3. ASSUME NEW r \in Requests, RemoveBox(session[r]) PROVE s = session[r]
  BY <1>3 DEF RemoveBox
<1>4. ASSUME NEW r \in Requests, ReplaceLegacy(r) PROVE Claims(s) = {}
  <2>1. s = session[r] /\ s \in legacy
    BY <1>4, <1>3, <1>2 DEF ReplaceLegacy, CommandFails
  <2> QED BY <2>1 DEF Claims, RequestInv, Current
<1>5. ASSUME NEW r \in Requests, CompareAuth(r) PROVE Claims(s) = {} \/ closed
  <2>1. s = session[r] /\ pc[r] = "compare"
    BY <1>5, <1>3, <1>2 DEF CompareAuth, CommandFails
  <2>2. active[s] = 0 \/ closed
    BY <2>1 DEF RequestInv, SessionInv, Provisioning
  <2> QED BY <2>2, CountedIsActive
<1>6. ASSUME NEW r \in Requests, DiscardBox(r) PROVE Claims(s) = {}
  <2>1. s = session[r] /\ pc[r] = "discarded"
    BY <1>6, <1>3, <1>2 DEF DiscardBox
  <2>2. active[s] = 0
    BY <2>1 DEF RequestInv, SessionInv
  <2> QED BY <2>2, CountedIsActive
<1>7. ASSUME NEW r \in Requests, Run(r) \/ Exec(r) PROVE FALSE
  BY <1>7 DEF Run, Exec
<1>8. ASSUME NEW r \in Requests,
             \/ OpenChat(r) \/ Resume(r) \/ EnsureRecord(r) \/ Provision(r)
             \/ CheckClosed(r) \/ Ready(r) \/ RemoteOpen(r) \/ Register(r)
             \/ Discard(r) \/ CloseChat(r) \/ Release(r) \/ Transport(r)
      PROVE  FALSE
  BY <1>8, <1>2 DEF OpenChat, Resume, EnsureRecord, Provision, CheckClosed, Ready,
                    RemoteOpen, Register, Discard, CloseChat, Release, Transport,
                    boxVars
<1>9. ASSUME NEW r \in Requests, Stop(r) \/ CloseOne(r) \/ Die(r) PROVE FALSE
  BY <1>9, <1>1, <1>2 DEF Stop, CloseOne, Die, CommandFails
<1>10. ASSUME Close \/ ChangeGateway \/ UNCHANGED vars PROVE FALSE
  BY <1>10, <1>2 DEF Close, ChangeGateway, vars, boxVars
<1> QED BY <1>4, <1>5, <1>6, <1>7, <1>8, <1>9, <1>10 DEF Next, Opening, Releasing

-----------------------------------------------------------------------------
(* The theorems. *)

LEMMA Invariance == Spec => []IInv
BY InitInv, Inductive, PTL DEF Spec

\* The pool, the requests, the runners and the sandboxes keep their kinds (Adapter).
THEOREM TypeCorrect == Spec => []TypeOK
<1>1. IInv => TypeOK
  BY DEF IInv
<1> QED BY <1>1, Invariance, PTL

\* However opens fail and closes overlap, the count of a sandbox is the number of its
\* registered chats, and one with such a chat stays in the pool until the adapter is
\* closed (Register, releaseConnection).
THEOREM CountsCorrect == Spec => []ClaimsAreCounted
<1>1. IInv => ClaimsAreCounted
  BY DEF IInv, CountInv, SessionInv, ClaimsAreCounted
<1> QED BY <1>1, Invariance, PTL

\* A sandbox has at most one runner that nobody is about to close and no refused
\* resume has left behind (ensureRecord, OpenChat, releaseConnection).
THEOREM RunnerIsOne == Spec => []OneRunner
<1>1. IInv => OneRunner
  BY KeptAreOne, AtMostOne DEF OneRunner
<1> QED BY <1>1, Invariance, PTL

\* OpenChat removes no sandbox under a chat that uses it: each of its three reasons to
\* remove one excludes a chat (OpenChat, ensureRecord, discardConnection).
THEOREM RemovalIsSafe == Spec => NeverRemovedInUse
<1>1. ASSUME IInv, [Next]_vars
      PROVE  [\A s \in Sessions : box'[s] = "absent" /\ box[s] # "absent"
                                    => Claims(s) = {} \/ closed]_vars
  BY <1>1, RemovedIsUnused
<1> QED BY <1>1, Invariance, PTL DEF Spec, NeverRemovedInUse

=============================================================================

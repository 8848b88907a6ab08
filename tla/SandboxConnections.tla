------------------------- MODULE SandboxConnections -------------------------
(***************************************************************************)
(* The connection pool of the sandbox adapter (internal/adapter/sandbox): *)
(* which sandbox runs, which runner connection is open, who uses it.       *)
(*                                                                         *)
(* A session has a sandbox of its own, and is identified with it.  A      *)
(* request opens one chat and closes it later; a connection is identified *)
(* with the request that provisioned it.  sessionOps is held for all of   *)
(* OpenChat, so that provisionMu, taken under it, adds nothing.  Closing a *)
(* chat takes mu only.                                                     *)
(*                                                                         *)
(* sbx and the runner are external.  A command may fail; exec starts a    *)
(* stopped sandbox and fails on a missing one; a stopped or removed       *)
(* sandbox takes the runners in it with it.  Tokens, workspaces, network  *)
(* policy, progress and the MCP capabilities are left out.                 *)
(***************************************************************************)
EXTENDS Naturals, FiniteSets

CONSTANTS Requests,          \* opens of a chat
          Sessions,
          Old,               \* the sessions that may be in the index file
          None,              \* no request, no connection
          MaxEvents          \* bound: gateway changes and deaths of runners

ASSUME SandboxAssumption == /\ Old \subseteq Sessions
                            /\ None \notin Requests
                            /\ MaxEvents \in Nat

VARIABLES
  ops,          \* the holder of sessionOps, or None
  records,      \* Adapter.records: the sessions that can be resumed
  legacy,       \* those of an older transport
  auth,         \* record.GatewayAuthHost is that of the gateway when TRUE
  gateway,      \* the host's gateway needs an authentication kit
  connections,  \* Adapter.connections: sandbox -> connection, or None
  active,       \* Adapter.active
  closed,       \* Adapter.closed
  closeAll,     \* the connections Adapter.Close has still to close
  pc,           \* where each request stands
  session,      \* its session
  conn,         \* the connection it uses
  reuse,        \* Options.Reuse
  ending,       \* the connection it has to close
  process,      \* process[c]: the runner of connection c
  kit,          \* kit[c]: Runner.GatewayAuthHost
  box,          \* box[s]: the sandbox, as sbx sees it
  happened      \* gateway changes and deaths so far

poolVars == <<records, legacy, auth, connections, active, closed, closeAll>>
mineVars == <<session, conn, reuse, ending>>
boxVars  == <<process, kit, box>>
hostVars == <<gateway, happened>>
vars == <<ops, poolVars, pc, mineVars, boxVars, hostVars>>

\* The index file has been read; the gateway may have changed since it was written.
Init ==
  /\ ops = None /\ records \in SUBSET Old /\ legacy \in SUBSET records
  /\ gateway \in BOOLEAN /\ auth = [s \in Sessions |-> FALSE]
  /\ connections = [s \in Sessions |-> None] /\ active = [s \in Sessions |-> 0]
  /\ closed = FALSE /\ closeAll = {}
  /\ pc = [r \in Requests |-> "start"]
  /\ session \in [Requests -> Sessions]
  /\ conn = [r \in Requests |-> None] /\ ending = [r \in Requests |-> None]
  /\ reuse = [r \in Requests |-> FALSE]
  /\ process = [r \in Requests |-> "none"] /\ kit = [r \in Requests |-> FALSE]
  /\ box = [s \in Sessions |-> IF s \in records THEN "stopped" ELSE "absent"]
  /\ happened = 0

-----------------------------------------------------------------------------
(* What the sandbox tool does. *)

Goto(r, label) == pc' = [pc EXCEPT ![r] = label]

\* The end of a request: OpenChat's deferred unlock, or the end of Close.
Finish(r) == /\ Goto(r, "done")
             /\ ops' = IF ops = r THEN None ELSE ops

Runners(s) == {c \in Requests : session[c] = s /\ process[c] = "open"}

Stopped(cs) == process' = [c \in Requests |->
                             IF c \in cs THEN "closed" ELSE process[c]]

\* sbx stop and sbx rm -f.
StopBox(s) == /\ box' = [box EXCEPT ![s] = IF @ = "running" THEN "stopped" ELSE @]
              /\ Stopped(Runners(s))
RemoveBox(s) == box' = [box EXCEPT ![s] = "absent"] /\ Stopped(Runners(s))

CommandFails == UNCHANGED <<box, process>>

-----------------------------------------------------------------------------
(* OpenChat, under sessionOps. *)

\* A session that is neither known nor new ends in ErrNotFound; a new chat has
\* a sandbox name of its own.
OpenChat(r) ==
  /\ pc[r] = "start" /\ ops = None
  /\ ops' = r
  /\ \/ session[r] \in records /\ Goto(r, "resume")
     \/ /\ session[r] \notin records
        /\ \A o \in Requests \ {r} : session[o] = session[r] => pc[o] = "start"
        /\ Goto(r, "provision")
  /\ UNCHANGED <<poolVars, mineVars, boxVars, hostVars>>

\* Mutant: the lifecycle mapping goes with the VM.
ReplaceForgets(r) ==
  /\ pc[r] = "resume" /\ session[r] \in legacy
  /\ RemoveBox(session[r])
  /\ records' = records \ {session[r]}
  /\ Goto(r, "ensure")
  /\ UNCHANGED <<ops, legacy, auth, connections, active, closed, closeAll,
                 mineVars, kit, hostVars>>

\* A sandbox of the removed transport is removed; a failed rm ends the request.
ReplaceLegacy(r) ==
  /\ pc[r] = "resume" /\ session[r] \in legacy
  /\ \/ /\ RemoveBox(session[r])
        /\ legacy' = legacy \ {session[r]}
        /\ Goto(r, "ensure")
        /\ UNCHANGED ops
     \/ CommandFails /\ Finish(r) /\ UNCHANGED legacy
  /\ UNCHANGED <<records, auth, connections, active, closed, closeAll, mineVars,
                 kit, hostVars>>

Resume(r) ==
  /\ pc[r] = "resume" /\ session[r] \notin legacy
  /\ Goto(r, "ensure")
  /\ UNCHANGED <<ops, poolVars, mineVars, boxVars, hostVars>>

\* Mutant: ensureRecord does not look for a connection.
EnsureBlind(r) ==
  /\ pc[r] = "ensure"
  /\ Goto(r, "compare")
  /\ UNCHANGED <<ops, poolVars, mineVars, boxVars, hostVars>>

\* ensureRecord: a sandbox that has a connection is used as it is.
EnsureRecord(r) ==
  /\ pc[r] = "ensure"
  /\ LET c == connections[session[r]]
     IN IF c # None THEN conn' = [conn EXCEPT ![r] = c] /\ Goto(r, "open")
                    ELSE Goto(r, "compare") /\ UNCHANGED conn
  /\ UNCHANGED <<ops, poolVars, session, reuse, ending, boxVars, hostVars>>

\* The gateway's authentication is fixed when a sandbox is created: it is
\* removed when that has changed, and reused otherwise.
CompareAuth(r) ==
  /\ pc[r] = "compare"
  /\ kit' = [kit EXCEPT ![r] = gateway]
  /\ \/ /\ auth[session[r]] = gateway
        /\ reuse' = [reuse EXCEPT ![r] = TRUE]
        /\ Goto(r, "check")
        /\ UNCHANGED <<ops, box, process>>
     \/ /\ auth[session[r]] # gateway
        /\ reuse' = [reuse EXCEPT ![r] = FALSE]
        /\ \/ RemoveBox(session[r]) /\ Goto(r, "check") /\ UNCHANGED ops
           \/ CommandFails /\ Finish(r)
  /\ UNCHANGED <<poolVars, session, conn, ending, hostVars>>

\* provision: a new session's sandbox.
Provision(r) ==
  /\ pc[r] = "provision"
  /\ kit' = [kit EXCEPT ![r] = gateway]
  /\ reuse' = [reuse EXCEPT ![r] = FALSE]
  /\ Goto(r, "check")
  /\ UNCHANGED <<ops, poolVars, session, conn, ending, process, box, hostVars>>

\* provisionWithGateway refuses after Adapter.Close.
CheckClosed(r) ==
  /\ pc[r] = "check"
  /\ IF closed THEN Finish(r)
     ELSE Goto(r, IF reuse[r] THEN "exec" ELSE "run") /\ UNCHANGED ops
  /\ UNCHANGED <<poolVars, mineVars, boxVars, hostVars>>

\* sandboxrunner.Start: sbx run, unless the sandbox is reused ...
Run(r) ==
  /\ pc[r] = "run"
  /\ \/ /\ box' = [box EXCEPT ![session[r]] = "running"]
        /\ Goto(r, "exec")
        /\ UNCHANGED ops
     \/ Finish(r) /\ UNCHANGED box
  /\ UNCHANGED <<poolVars, mineVars, process, kit, hostVars>>

\* ... and sbx exec, which starts a stopped sandbox.  Nobody stops the sandbox
\* of an exec that fails.
Exec(r) ==
  /\ pc[r] = "exec"
  /\ \/ /\ box[session[r]] # "absent"
        /\ box' = [box EXCEPT ![session[r]] = "running"]
        /\ process' = [process EXCEPT ![r] = "open"]
        /\ conn' = [conn EXCEPT ![r] = r]
        /\ Goto(r, "ready")
        /\ UNCHANGED ops
     \/ Finish(r) /\ UNCHANGED <<box, process, conn>>
  /\ reuse' = [reuse EXCEPT ![r] = FALSE]
  /\ UNCHANGED <<poolVars, session, ending, kit, hostVars>>

\* waitReady: the runner answers, or the connection is closed again.
Ready(r) ==
  /\ pc[r] = "ready"
  /\ \/ process[r] = "open" /\ Goto(r, "open") /\ UNCHANGED ending
     \/ ending' = [ending EXCEPT ![r] = r] /\ Goto(r, "transport")
  /\ UNCHANGED <<ops, poolVars, session, conn, reuse, boxVars, hostVars>>

\* The runner opens the chat or refuses it.
RemoteOpen(r) ==
  /\ pc[r] = "open"
  /\ \/ process[conn[r]] = "open" /\ Goto(r, "register")
     \/ Goto(r, IF session[r] \in records THEN "release" ELSE "discard")
  /\ UNCHANGED <<ops, poolVars, mineVars, boxVars, hostVars>>

\* Mutant: a chat on a connection that was there already is not counted.
RegisterUncounted(r) ==
  /\ pc[r] = "register"
  /\ LET s == session[r]
     IN /\ records' = records \cup {s}
        /\ auth' = [auth EXCEPT ![s] = kit[conn[r]]]
        /\ connections' = [connections EXCEPT ![s] = conn[r]]
        /\ active' = [active EXCEPT ![s] = IF conn[r] = r THEN @ + 1 ELSE @]
  /\ \/ Goto(r, "live") /\ ops' = None
     \/ Goto(r, "unsaved") /\ UNCHANGED ops
  /\ UNCHANGED <<legacy, closed, closeAll, mineVars, boxVars, hostVars>>

\* One critical section of mu: the record, the connection, the count, and the
\* index file, which may fail to be written.
Register(r) ==
  /\ pc[r] = "register"
  /\ LET s == session[r]
     IN /\ records' = records \cup {s}
        /\ auth' = [auth EXCEPT ![s] = kit[conn[r]]]
        /\ connections' = [connections EXCEPT ![s] = conn[r]]
        /\ active' = [active EXCEPT ![s] = @ + 1]
  /\ \/ Goto(r, "live") /\ ops' = None
     \/ Goto(r, "unsaved") /\ UNCHANGED ops
  /\ UNCHANGED <<legacy, closed, closeAll, mineVars, boxVars, hostVars>>

\* discardConnection: the sandbox of a new session that was refused.
Discard(r) ==
  /\ pc[r] = "discard"
  /\ connections' = [connections EXCEPT ![session[r]] = None]
  /\ Goto(r, "discarded")
  /\ UNCHANGED <<ops, records, legacy, auth, active, closed, closeAll, mineVars,
                 boxVars, hostVars>>

DiscardBox(r) ==
  /\ pc[r] = "discarded"
  /\ RemoveBox(session[r]) \/ (Stopped({conn[r]}) /\ UNCHANGED box)
  /\ Finish(r)
  /\ UNCHANGED <<poolVars, mineVars, kit, hostVars>>

Opening(r) == \/ OpenChat(r) \/ ReplaceLegacy(r) \/ Resume(r) \/ EnsureRecord(r)
              \/ CompareAuth(r) \/ Provision(r) \/ CheckClosed(r) \/ Run(r)
              \/ Exec(r) \/ Ready(r) \/ RemoteOpen(r) \/ Register(r)
              \/ Discard(r) \/ DiscardBox(r)

-----------------------------------------------------------------------------
(* Closing a chat. *)

\* managedChat.Close, and OpenChat's cleanup after a failed save: the chat is
\* closed on the runner before its claim is given back.
CloseChat(r) ==
  /\ pc[r] \in {"live", "unsaved"}
  /\ Goto(r, "decrement")
  /\ UNCHANGED <<ops, poolVars, mineVars, boxVars, hostVars>>

\* releaseConnection, its critical section of mu.  A request that was refused
\* has no claim, and nobody closes a connection it had to itself.
Release(r) ==
  /\ pc[r] \in {"decrement", "release"}
  /\ LET s == session[r]
         n == IF pc[r] = "decrement" /\ active[s] > 0 THEN active[s] - 1
                                                      ELSE active[s]
         c == connections[s]
     IN /\ active' = [active EXCEPT ![s] = n]
        /\ IF n # 0
           THEN Finish(r) /\ UNCHANGED <<connections, ending>>
           ELSE /\ connections' = [connections EXCEPT ![s] = None]
                /\ ending' = [ending EXCEPT ![r] = c]
                /\ Goto(r, IF c # None THEN "transport" ELSE "stop")
                /\ UNCHANGED ops
  /\ conn' = [conn EXCEPT ![r] = IF pc[r] = "release" /\ @ = r THEN r ELSE None]
  /\ UNCHANGED <<records, legacy, auth, closed, closeAll, session, reuse,
                 boxVars, hostVars>>

\* Mutant: the transport is left open, sbx stop is trusted to end it.
TransportLeft(r) ==
  /\ pc[r] = "transport"
  /\ Goto(r, "stop")
  /\ UNCHANGED <<ops, poolVars, mineVars, boxVars, hostVars>>

\* closeTransport ...
Transport(r) ==
  /\ pc[r] = "transport"
  /\ Stopped({ending[r]})
  /\ ending' = [ending EXCEPT ![r] = None]
  /\ Goto(r, "stop")
  /\ UNCHANGED <<ops, poolVars, session, conn, reuse, kit, box, hostVars>>

\* ... and sbx stop, whoever has started the sandbox again in between.
Stop(r) ==
  /\ pc[r] = "stop"
  /\ StopBox(session[r]) \/ CommandFails
  /\ Finish(r)
  /\ UNCHANGED <<poolVars, mineVars, kit, hostVars>>

Releasing(r) == Release(r) \/ Transport(r) \/ Stop(r)

-----------------------------------------------------------------------------
(* The adapter, the host and the runners. *)

Close ==
  /\ ~closed
  /\ closed' = TRUE
  /\ closeAll' = {connections[s] : s \in Sessions} \ {None}
  /\ connections' = [s \in Sessions |-> None]
  /\ UNCHANGED <<ops, records, legacy, auth, active, pc, mineVars, boxVars,
                 hostVars>>

\* closeConnection, one after the other.
CloseOne(c) ==
  /\ c \in closeAll
  /\ closeAll' = closeAll \ {c}
  /\ StopBox(session[c]) \/ (Stopped({c}) /\ UNCHANGED box)
  /\ UNCHANGED <<ops, records, legacy, auth, connections, active, closed, pc,
                 mineVars, kit, hostVars>>

ChangeGateway ==
  /\ happened < MaxEvents
  /\ happened' = happened + 1
  /\ gateway' = ~gateway
  /\ UNCHANGED <<ops, poolVars, pc, mineVars, boxVars>>

\* The runner's process ends, and the multiplexer with it.
Die(c) ==
  /\ happened < MaxEvents /\ process[c] = "open"
  /\ happened' = happened + 1
  /\ Stopped({c})
  /\ UNCHANGED <<ops, poolVars, pc, mineVars, kit, box, gateway>>

Next == \/ \E r \in Requests : Opening(r) \/ CloseChat(r) \/ Releasing(r)
        \/ Close \/ \E c \in Requests : CloseOne(c)
        \/ ChangeGateway \/ \E c \in Requests : Die(c)

Spec == Init /\ [][Next]_vars

\* What has begun goes on; a user need not open or close a chat.
GoesOn(r) == \/ pc[r] # "start" /\ Opening(r)
             \/ pc[r] = "unsaved" /\ CloseChat(r)
             \/ Releasing(r)

Fairness == /\ \A r \in Requests : WF_vars(GoesOn(r))
            /\ WF_vars(\E c \in Requests : CloseOne(c))

FairSpec == Spec /\ Fairness

-----------------------------------------------------------------------------
(* Properties. *)

TypeOK ==
  /\ ops \in Requests \cup {None}
  /\ records \subseteq Sessions /\ legacy \subseteq records
  /\ auth \in [Sessions -> BOOLEAN] /\ gateway \in BOOLEAN
  /\ connections \in [Sessions -> Requests \cup {None}]
  /\ active \in [Sessions -> Nat]
  /\ closed \in BOOLEAN /\ closeAll \subseteq Requests
  /\ pc \in [Requests ->
       {"start", "resume", "ensure", "compare", "provision", "check", "run",
        "exec", "ready", "open", "register", "discard", "discarded", "live",
        "unsaved", "decrement", "release", "transport", "stop", "done"}]
  /\ session \in [Requests -> Sessions]
  /\ conn \in [Requests -> Requests \cup {None}]
  /\ ending \in [Requests -> Requests \cup {None}]
  /\ reuse \in [Requests -> BOOLEAN] /\ kit \in [Requests -> BOOLEAN]
  /\ process \in [Requests -> {"none", "open", "closed"}]
  /\ box \in [Sessions -> {"absent", "stopped", "running"}]
  /\ happened \in Nat

\* The request has a chat in s and has not given its claim back.
Claims(s) == {r \in Requests :
                session[r] = s /\ pc[r] \in {"live", "unsaved", "decrement"}}

\* Whatever fails in OpenChat and however closes overlap, the count of a sandbox
\* is the number of its chats that are registered and not given back yet, and
\* one that has such a chat stays in the pool until the adapter is closed.  An
\* opening counts from its registration on: while the runner opens a chat on a
\* connection of the pool, nothing holds that connection (OpenChat,
\* releaseConnection).
ClaimsAreCounted ==
  \A s \in Sessions :
    /\ active[s] = Cardinality(Claims(s))
    /\ active[s] > 0 /\ ~closed => connections[s] # None

\* Somebody is about to close the connection: Adapter.Close, the last chat on
\* it, a failed waitReady, or the new session that was refused.
Leaving(c) == \/ c \in closeAll
              \/ \E r \in Requests : ending[r] = c /\ pc[r] = "transport"
              \/ conn[c] = c /\ pc[c] \in {"discard", "discarded"}

\* Nobody closes the connection: a resumed session was refused on a connection
\* that never reached the pool, and releaseConnection knows only the pool.
Left(c) == conn[c] = c /\ pc[c] \in {"release", "stop", "done"}

\* A sandbox has at most one runner that is neither on its way out nor left
\* behind by a refused resume: ensureRecord hands out the connection there is,
\* and nothing else that OpenChat gives up stays open.  What a refused resume
\* leaves behind only ends with its sandbox: if sbx stop fails, or does not
\* run, the next open puts a second runner beside it (adapter.go, OpenChat,
\* ensureRecord, releaseConnection).
OneRunner ==
  \A s \in Sessions :
    Cardinality({c \in Runners(s) : ~Leaving(c) /\ ~Left(c)}) <= 1

\* No sandbox is removed under a chat that is using it: legacy transports,
\* gateway changes and refused chats only remove what nobody is in (OpenChat,
\* ensureRecord, discardConnection).
NeverRemovedInUse ==
  [][\A s \in Sessions : box'[s] = "absent" /\ box[s] # "absent"
                           => Claims(s) = {} \/ closed]_vars

\* A connection of the pool is closed in the end, or a chat has it: no overlap
\* of closes, refusals and reopenings leaks a runner, not even when sbx stop
\* fails (releaseConnection, closeConnection).
RunnersEnd ==
  \A c \in Requests :
    (\E s \in Sessions : connections[s] = c) ~>
      (process[c] = "closed" \/ \E r \in Requests : conn[r] = c /\ pc[r] = "live")

-----------------------------------------------------------------------------
(* What the code says of itself and does not do. *)

\* "Recreate only the execution VM" (OpenChat): a sandbox that is to be reused
\* exists.  sbx exec creates none.
ReusedBoxExists ==
  \A r \in Requests : pc[r] = "exec" /\ reuse[r] => box[session[r]] # "absent"
=============================================================================

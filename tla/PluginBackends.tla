----------------------------- MODULE PluginBackends -----------------------------
(***************************************************************************)
(* One plugin: its source on disk, the operator's choices about it         *)
(* (pluginManagement) and its backend process (pluginBackendManager).  A   *)
(* request is a program of steps, each a critical section or an access to  *)
(* the disk; the ticker of the manager runs activateAll again and again.   *)
(***************************************************************************)
EXTENDS Naturals, Sequences, FiniteSets

CONSTANTS Requests, Ticker,
          MaxRequests, MaxFaults,  \* bounds: requests; starts that fail and exits
          MaxRevision              \* bound: versions of the source

VARIABLES revision,  \* the plugin on disk, 0 for none
          latest,    \* versions written so far
          disabled, stopped,  \* pluginManagement, for this plugin
          process,   \* processes[plugin]: [id, revision], or NoProcess
          alive,     \* ids of the node processes that run
          todo,      \* todo[a]: the steps that a still has to take
          seen,      \* seen[a]: what a has read: is it active, and which revision
          asked, faults,   \* requests, faults so far
          overlapped,  \* two requests have been handled at the same time
          calm,      \* nothing else has happened since the ticker's pass began
          closing    \* pluginBackendManager.close has been called

pluginVars == <<revision, latest, disabled, stopped, process, alive, todo, seen,
                asked, faults, overlapped, calm, closing>>

NoProcess == [id |-> 0, revision |-> 0]
Nothing == [active |-> FALSE, revision |-> 0]
Actors == Requests \cup {Ticker}

\* activateAll: catalogue and activity, the backend's entry, process(), the sweep.
ActivateAll == <<"scan", "resolve", "process", "sweep">>
Program ==
  [start   |-> <<"check", "run">> \o ActivateAll,
   stop    |-> <<"halt", "kill">> \o ActivateAll,
   enable  |-> <<"enable", "run">> \o ActivateAll,
   disable |-> <<"disable", "halt", "kill">> \o ActivateAll,
   install |-> <<"write", "enable", "run", "kill">> \o ActivateAll,
   delete  |-> <<"halt", "kill", "erase", "forget">>,
   proxy   |-> <<"scan", "resolve", "process">>]

\* The server starts with the plugin there or not; a disabled one is stopped.
Started(r, d) ==
  /\ latest = 1 /\ revision = r
  /\ disabled = d /\ stopped = d
  /\ process = NoProcess /\ alive = {}
  /\ todo = [a \in Actors |-> <<>>]
  /\ seen = [a \in Actors |-> Nothing]
  /\ asked = 0 /\ faults = 0 /\ overlapped = FALSE /\ calm = FALSE /\ closing = FALSE

Init == \E r \in {0, 1}, d \in BOOLEAN : Started(r, d)

Busy == \E r \in Requests : todo[r] # <<>>
Step(a, s) == todo[a] # <<>> /\ Head(todo[a]) = s /\ todo' = [todo EXCEPT ![a] = Tail(@)]
GiveUp(a) == todo' = [todo EXCEPT ![a] = <<>>]
Disturbs(a) == calm' = (calm /\ a = Ticker)

choices == <<disabled, stopped>>
backend == <<process, alive>>
source == <<revision, latest>>
counts == <<asked, overlapped, closing>>

-----------------------------------------------------------------------------
(* Requests.  Installing and deleting exclude each other (pluginOperations).  *)

Request(r, kind) ==
  /\ todo[r] = <<>> /\ asked < MaxRequests
  /\ kind = "install" => latest < MaxRevision
  /\ kind \notin {"install", "proxy"} => revision # 0
  /\ kind \in {"install", "delete"} =>
       \A q \in Requests : todo[q] # <<>> => {"write", "erase", "forget"} \cap {todo[q][i] : i \in DOMAIN todo[q]} = {}
  /\ todo' = [todo EXCEPT ![r] = Program[kind]]
  /\ asked' = asked + 1 /\ overlapped' = (overlapped \/ Busy) /\ calm' = FALSE
  /\ UNCHANGED <<choices, backend, source, seen, faults, closing>>

CheckNever(r) ==  \* Mutant: a disabled plugin can be started
  /\ Step(r, "check")
  /\ Disturbs(r)
  /\ UNCHANGED <<choices, backend, source, seen, faults, counts>>

\* handlePluginLifecycle: a disabled plugin cannot be started.
Check(r) ==
  /\ IF disabled THEN GiveUp(r) /\ Head(todo[r]) = "check" ELSE Step(r, "check")
  /\ Disturbs(r)
  /\ UNCHANGED <<choices, backend, source, seen, faults, counts>>

SetRunning(r, on) ==
  /\ Step(r, IF on THEN "run" ELSE "halt")
  /\ stopped' = ~on
  /\ Disturbs(r)
  /\ UNCHANGED <<disabled, backend, source, seen, faults, counts>>

\* setEnabled changes the memory first and ends the request when it cannot save.
SetEnabled(r, on) ==
  /\ Head(todo[r]) = (IF on THEN "enable" ELSE "disable")
  /\ disabled' = ~on
  /\ \/ Step(r, IF on THEN "enable" ELSE "disable") /\ UNCHANGED faults
     \/ GiveUp(r) /\ faults < MaxFaults /\ faults' = faults + 1
  /\ Disturbs(r)
  /\ UNCHANGED <<stopped, backend, source, seen, counts>>

Install(r) ==
  /\ Step(r, "write")
  /\ latest' = latest + 1 /\ revision' = latest + 1
  /\ Disturbs(r)
  /\ UNCHANGED <<choices, backend, seen, faults, counts>>

Erase(r) ==
  /\ Step(r, "erase")
  /\ revision' = 0
  /\ Disturbs(r)
  /\ UNCHANGED <<choices, backend, latest, seen, faults, counts>>

\* remove
Forget(r) ==
  /\ Step(r, "forget")
  /\ disabled' = FALSE /\ stopped' = FALSE
  /\ Disturbs(r)
  /\ UNCHANGED <<backend, source, seen, faults, counts>>

-----------------------------------------------------------------------------
(* The manager.                                                              *)

Kill == alive' = alive \ {process.id} /\ process' = NoProcess

StopPlugin(a) ==
  /\ Step(a, "kill") /\ Kill
  /\ Disturbs(a)
  /\ UNCHANGED <<choices, source, seen, faults, counts>>

Tick ==
  /\ todo[Ticker] = <<>> /\ ~closing
  /\ todo' = [todo EXCEPT ![Ticker] = ActivateAll]
  /\ calm' = ~Busy
  /\ UNCHANGED <<choices, backend, source, seen, faults, counts>>

\* A proxied request to a plugin that is not active ends here.
Scan(a) ==
  /\ LET proxied == todo[a] = Program.proxy
         active == ~stopped /\ (proxied \/ revision # 0)
     IN /\ seen' = [seen EXCEPT ![a] = [active |-> active, revision |-> 0]]
        /\ IF proxied /\ stopped THEN GiveUp(a) ELSE Step(a, "scan")
        /\ todo[a] # <<>> /\ Head(todo[a]) = "scan"
  /\ Disturbs(a)
  /\ UNCHANGED <<choices, backend, source, faults, counts>>

\* ResolveBackend; a proxied request does not look at the catalogue before.
Resolve(a) ==
  /\ Step(a, "resolve")
  /\ seen' = [seen EXCEPT ![a].revision = revision]
  /\ Disturbs(a)
  /\ UNCHANGED <<choices, backend, source, faults, counts>>

ReplaceLeaving(a) == alive  \* Mutant: the old revision is not killed
Replace(a) == alive \ {process.id}

NewId(taken) == CHOOSE i \in 1..(Cardinality(taken) + 1) : i \notin taken

\* process: the present one if it lives and has this revision, or a new one.
Process(a) ==
  LET wanted == seen[a].active /\ seen[a].revision # 0
      present == process.id \in alive /\ process.revision = seen[a].revision
  IN
  /\ Step(a, "process")
  /\ seen' = [seen EXCEPT ![a] = IF Len(todo[a]) = 1 THEN Nothing ELSE [@ EXCEPT !.revision = 0]]
  /\ IF ~wanted \/ present THEN UNCHANGED <<backend, faults>> /\ Disturbs(a)
     ELSE \/ /\ process' = [id |-> NewId(Replace(a)), revision |-> seen[a].revision]
             /\ alive' = Replace(a) \cup {NewId(Replace(a))}
             /\ Disturbs(a) /\ UNCHANGED faults
          \/ /\ faults < MaxFaults /\ faults' = faults + 1  \* it does not come up
             /\ process' = NoProcess /\ alive' = Replace(a)
             /\ calm' = FALSE
  /\ UNCHANGED <<choices, source, counts>>

SweepNone(a) ==  \* Mutant: backends of plugins that are not active are left alone
  /\ Step(a, "sweep") /\ UNCHANGED backend
  /\ seen' = [seen EXCEPT ![a] = Nothing]
  /\ Disturbs(a)
  /\ UNCHANGED <<choices, source, faults, counts>>

\* The end of activateAll kills what was not active when it began.
Sweep(a) ==
  /\ Step(a, "sweep")
  /\ IF seen[a].active THEN UNCHANGED backend ELSE Kill
  /\ seen' = [seen EXCEPT ![a] = Nothing]
  /\ Disturbs(a)
  /\ UNCHANGED <<choices, source, faults, counts>>

Exits ==
  /\ faults < MaxFaults /\ faults' = faults + 1
  /\ process.id \in alive /\ alive' = alive \ {process.id}
  /\ calm' = FALSE
  /\ UNCHANGED <<choices, process, source, todo, seen, counts>>

\* close: the ticker is told, and awaited; requests go on.
Close == ~closing /\ closing' = TRUE
         /\ UNCHANGED <<choices, backend, source, todo, seen, faults, asked, overlapped, calm>>
Closed ==
  /\ closing /\ todo[Ticker] = <<>> /\ process # NoProcess
  /\ Kill /\ calm' = FALSE
  /\ UNCHANGED <<choices, source, todo, seen, faults, counts>>

Next ==
  \/ Tick \/ Exits \/ Close \/ Closed
  \/ \E r \in Requests :
       \/ \E kind \in DOMAIN Program : Request(r, kind)
       \/ todo[r] # <<>> /\ (Check(r) \/ Install(r) \/ Erase(r) \/ Forget(r)
                             \/ \E on \in BOOLEAN : SetRunning(r, on) \/ SetEnabled(r, on))
  \/ \E a \in Actors : StopPlugin(a) \/ Scan(a) \/ Resolve(a) \/ Process(a) \/ Sweep(a)

Spec == Init /\ [][Next]_pluginVars

-----------------------------------------------------------------------------
TypeOK ==
  /\ revision \in 0..latest /\ latest \in 1..MaxRevision /\ process.revision \in 0..latest
  /\ process.id \in 0..2 /\ alive \subseteq 1..2

(* A plugin has one backend at a time, the one that requests are sent to, however
   starts, updates, stops and requests interleave (process, under the mutex).  *)
OneBackend == alive \subseteq {process.id}

(* Whatever requests have raced for, one undisturbed pass of the ticker makes the
   backend what the operator wants: it runs, in the version on the disk, if and only
   if the plugin is there and not stopped (activateAll).                     *)
PassSettles ==
  calm /\ todo[Ticker] = <<>> =>
    IF revision # 0 /\ ~stopped THEN process.id \in alive /\ process.revision = revision
    ELSE alive = {}

(* Requests that do not overlap and are saved never leave a disabled plugin running
   (handlePluginLifecycle, pluginManagement).                                *)
DisabledIsStopped == disabled /\ ~overlapped /\ faults = 0 /\ ~Busy => stopped
=============================================================================

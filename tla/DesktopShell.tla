------------------------------- MODULE DesktopShell -------------------------------
(***************************************************************************)
(* The desktop application and the server it leaves behind.  Electron uses *)
(* the server that listens on the socket of its build or starts one        *)
(* (main.cjs); a server binds the socket (listenUnix), drains when its     *)
(* desktop detaches, retires, and is reclaimed by a bootstrap before that  *)
(* (handlers_system.go, server.go).  The socket is a file: whoever removes *)
(* it takes it from the server that listens on it.                         *)
(*                                                                         *)
(* One desktop runs at a time; the n-th starts server n at most.  What     *)
(* draining does beside an opening chat is the matter of ChatRegistry: the *)
(* chats of a server are here none, idle, or running.                      *)
(***************************************************************************)
EXTENDS Naturals

CONSTANTS MaxLaunches, MaxTurns, MaxCrashes  \* bounds

Servers == 1..MaxLaunches

VARIABLES
  shell,     \* the desktop: "off", "checking", "waiting", "starting", "open", "detaching"
  child,     \* the server it has started
  asked,     \* its bootstrap request is on the way
  served,    \* the server that has answered it, whose token it has once it is open
  kept,      \* that server had not retired
  loading,   \* its window is being loaded, and asks for a bootstrap of its own
  page,      \* the server that has answered that
  path,      \* the server whose socket the file is, 0 when there is no file
  at,        \* where each server stands
  draining, timers, chats,
  silent,    \* servers whose last desktop left without telling them
  overlap,   \* a server was started beside another
  launches, starts, crashes

shellVars == <<shell, child, asked, served, kept, loading, page>>
serverVars == <<path, at, draining, timers, chats>>
countVars == <<launches, starts, crashes>>
desktopVars == <<shellVars, serverVars, silent, overlap, countVars>>

Init ==
  /\ shell = "off" /\ child = 0 /\ asked = FALSE /\ served = 0 /\ kept = FALSE
  /\ loading = FALSE /\ page = 0
  /\ path = 0 /\ at = [w \in Servers |-> "none"]
  /\ draining = [w \in Servers |-> FALSE] /\ timers = [w \in Servers |-> 0]
  /\ chats = [w \in Servers |-> "none"]
  /\ silent = {} /\ overlap = FALSE /\ launches = 0 /\ starts = 0 /\ crashes = 0

\* A server accepts until its listener is closed, also while it shuts down.
Answers == path # 0 /\ at[path] \in {"serving", "retired"}
Alive == {w \in Servers : at[w] \notin {"none", "gone", "crashed"}}

-----------------------------------------------------------------------------
(* The desktop.                                                              *)

Launch ==
  /\ shell = "off" /\ launches < MaxLaunches /\ launches' = launches + 1
  /\ shell' = "checking" /\ child' = 0 /\ asked' = FALSE /\ served' = 0 /\ kept' = FALSE
  /\ loading' = FALSE /\ page' = 0
  /\ UNCHANGED <<serverVars, silent, overlap, starts, crashes>>

\* main: a server that answers is used, otherwise startBackend
HealthCheck ==
  /\ shell = "checking"
  /\ IF Answers
     THEN shell' = "starting" /\ asked' = TRUE /\ UNCHANGED <<child, at, overlap>>
     ELSE /\ shell' = "waiting" /\ child' = launches
          /\ at' = [at EXCEPT ![launches] = "booting"]
          /\ overlap' = (overlap \/ Alive # {})
          /\ UNCHANGED asked
  /\ UNCHANGED <<served, kept, loading, page, path, draining, timers, chats, silent, countVars>>

\* waitForBackend
Wait ==
  /\ shell = "waiting" /\ Answers /\ shell' = "starting" /\ asked' = TRUE
  /\ UNCHANGED <<child, served, kept, loading, page, serverVars, silent, overlap, countVars>>

\* handleBootstrap: cancelDrain, also for a desktop that is quitting or has gone.
\* What fails after that cannot: the Info of docker-agent's adapter has no error.
Bootstrap ==
  /\ asked /\ Answers /\ asked' = FALSE /\ served' = path
  /\ kept' = (at[path] = "serving")
  /\ draining' = [draining EXCEPT ![path] = FALSE]
  /\ silent' = IF shell = "off" THEN silent \cup {path} ELSE silent
  /\ UNCHANGED <<shell, child, loading, page, path, at, timers, chats, overlap, countVars>>

\* The answer has the token, or there is none and the application quits.
Bootstrapped ==
  /\ shell = "starting"
  /\ \/ served # 0 /\ shell' = "open" /\ loading' = TRUE
     \/ asked /\ ~Answers /\ shell' = "leaving" /\ UNCHANGED loading
  /\ UNCHANGED <<child, asked, served, kept, page, serverVars, silent, overlap, countVars>>

\* before-quit: the user quits, the start fails, or the server it has started exits.
\* Before it is open the application has no token for the request it sends now.
Quit ==
  /\ shell \in {"checking", "waiting", "starting", "open"}
  /\ shell' = IF shell = "open" THEN "detaching" ELSE "leaving"
  /\ UNCHANGED <<child, asked, served, kept, loading, page, serverVars, silent, overlap, countVars>>

Left == silent \cup ({served, child} \ {0})

\* The request is refused, or it was never sent: the process is killed.
Leave ==
  /\ shell # "off" /\ shell' = "off" /\ silent' = Left
  /\ shell = "leaving" \/ (shell = "open" /\ crashes < MaxCrashes)
  /\ crashes' = IF shell = "open" THEN crashes + 1 ELSE crashes
  /\ UNCHANGED <<child, asked, served, kept, loading, page, serverVars, overlap, launches, starts>>

\* beginDrain: idle chats go; retireIfDrained sets a timer when none is left.
Drain(w) ==
  /\ draining' = [draining EXCEPT ![w] = TRUE]
  /\ chats' = [chats EXCEPT ![w] = IF @ = "running" THEN @ ELSE "none"]
  /\ timers' = [timers EXCEPT ![w] = IF chats'[w] = "none" THEN @ + 1 ELSE @]

\* notifyBackendDetached, whose failure is ignored
Detach ==
  /\ shell = "detaching" /\ shell' = "off"
  /\ IF Answers /\ path = served
     THEN Drain(path) /\ silent' = Left \ {path}
     ELSE silent' = Left /\ UNCHANGED <<draining, chats, timers>>
  /\ UNCHANGED <<child, asked, served, kept, loading, page, path, at, overlap, countVars>>

\* useDashboard: the page asks too, and may be answered after the detach.
Load ==
  /\ loading /\ loading' = FALSE
  /\ IF Answers
     THEN /\ page' = path
          /\ draining' = [draining EXCEPT ![path] = FALSE]
          /\ silent' = IF shell = "off" THEN silent \cup {path} ELSE silent
     ELSE UNCHANGED <<page, draining, silent>>
  /\ UNCHANGED <<shell, child, asked, served, kept, path, at, timers, chats, overlap, countVars>>

\* The window opens a chat, and sends to it, by way of proxyToBackend.
Work(w) ==
  /\ shell = "open" /\ path = w /\ page = w /\ Answers
  /\ \/ chats[w] = "none" /\ chats' = [chats EXCEPT ![w] = "idle"] /\ UNCHANGED starts
     \/ /\ chats[w] = "idle" /\ starts < MaxTurns /\ starts' = starts + 1
        /\ chats' = [chats EXCEPT ![w] = "running"]
  /\ UNCHANGED <<shellVars, path, at, draining, timers, silent, overlap, launches, crashes>>

-----------------------------------------------------------------------------
(* A server.                                                                 *)

Becomes(w, s) == at' = [at EXCEPT ![w] = s]
bound == <<path, at>>
chatState == <<draining, timers, chats>>
others == <<shellVars, silent, overlap, countVars>>

\* listenUnix: a socket that answers is in use, one that does not is abandoned
Probe(w) ==
  /\ at[w] = "booting"
  /\ Becomes(w, IF path = 0 THEN "binding" ELSE IF Answers THEN "gone" ELSE "removing")
  /\ UNCHANGED <<path, chatState, others>>

\* It is removed, whatever it is by now; nothing to remove is an error.
RemoveAbandoned(w) ==
  /\ at[w] = "removing"
  /\ Becomes(w, IF path = 0 THEN "gone" ELSE "binding")
  /\ path' = 0
  /\ UNCHANGED <<chatState, others>>

Listen(w) ==
  /\ at[w] = "binding"
  /\ Becomes(w, IF path = 0 THEN "serving" ELSE "gone")
  /\ path' = IF path = 0 THEN w ELSE path
  /\ UNCHANGED <<chatState, others>>

\* Mutant: the turn that ends takes its chat away, and that is all.
TurnEndsOnly(w) ==
  /\ chats[w] = "running"
  /\ chats' = [chats EXCEPT ![w] = IF draining[w] THEN "none" ELSE "idle"]
  /\ UNCHANGED <<bound, draining, timers, others>>

\* A turn ends: disposeIfDraining, retireIfDrained
TurnEnds(w) ==
  /\ chats[w] = "running"
  /\ IF draining[w]
     THEN /\ chats' = [chats EXCEPT ![w] = "none"]
          /\ timers' = [timers EXCEPT ![w] = @ + 1]
     ELSE chats' = [chats EXCEPT ![w] = "idle"] /\ UNCHANGED timers
  /\ UNCHANGED <<bound, draining, others>>

RetiresAnyway(w) == chats[w] = "none"  \* Mutant: a bootstrap does not cancel
Retires(w) == draining[w] /\ chats[w] = "none"

\* The grace period of retireIfDrained is over.
TimerFires(w) ==
  /\ timers[w] > 0 /\ at[w] \in {"serving", "retired"}
  /\ timers' = [timers EXCEPT ![w] = @ - 1]
  /\ Becomes(w, IF Retires(w) THEN "retired" ELSE at[w])
  /\ UNCHANGED <<path, draining, chats, others>>

\* Shutdown of the server, then of the listener, which removes its file ...
CloseListener(w) ==
  /\ at[w] = "retired" /\ Becomes(w, "closing")
  /\ path' = 0 /\ chats' = [chats EXCEPT ![w] = "none"]
  /\ UNCHANGED <<draining, timers, others>>

\* ... and when the requests have ended run removes it again.
Exit(w) ==
  /\ at[w] = "closing" /\ Becomes(w, "gone")
  /\ path' = 0
  /\ UNCHANGED <<chatState, others>>

\* Killed: the file stays.
Crash(w) ==
  /\ w \in Alive /\ crashes < MaxCrashes /\ crashes' = crashes + 1
  /\ Becomes(w, "crashed") /\ chats' = [chats EXCEPT ![w] = "none"]
  /\ UNCHANGED <<path, draining, timers, shellVars, silent, overlap, launches, starts>>

Next ==
  \/ Launch \/ HealthCheck \/ Wait \/ Bootstrap \/ Bootstrapped \/ Quit \/ Leave \/ Detach
  \/ Load
  \/ \E w \in Servers :
       Work(w) \/ Probe(w) \/ RemoveAbandoned(w) \/ Listen(w) \/ TurnEnds(w) \/ TimerFires(w)
         \/ CloseListener(w) \/ Exit(w) \/ Crash(w)

Spec == Init /\ [][Next]_desktopVars

-----------------------------------------------------------------------------
TypeOK ==
  /\ shell \in {"off", "checking", "waiting", "starting", "open", "detaching", "leaving"}
  /\ child \in 0..MaxLaunches /\ served \in 0..MaxLaunches /\ path \in 0..MaxLaunches
  /\ at \in [Servers -> {"none", "booting", "removing", "binding", "serving", "retired",
                         "closing", "gone", "crashed"}]
  /\ chats \in [Servers -> {"none", "idle", "running"}]

(* A server that answered a bootstrap before it had retired stays with that desktop:
   no timer of an earlier detach ends it ("reclaims the worker", retireIfDrained). *)
ReclaimedStays == shell = "open" /\ kept => at[served] \in {"serving", "crashed"}

(* A server that serves can be reached, unless two have ever been started beside each
   other: listenUnix and the two removals at the end take no other one's file.      *)
ServedAtPath == ~overlap => \A w \in Servers : at[w] \in {"serving", "retired"} => path = w

(* A server whose desktop has detached is going to retire: a turn runs whose end will
   ask for it, or a timer does.  One that has not been told serves on.              *)
DetachedEnds ==
  shell = "off" =>
    \A w \in Servers : at[w] = "serving" /\ w \notin silent =>
      draining[w] /\ (chats[w] = "running" \/ timers[w] > 0)

\* Said of listenUnix, and not true when two servers start over an abandoned file.
LiveIsNotRemoved ==
  [][\A w \in Servers : RemoveAbandoned(w) => ~Answers]_desktopVars
=============================================================================

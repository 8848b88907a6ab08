------------------------------ MODULE MC_Services ------------------------------
(***************************************************************************)
(* Services that do not share state, checked in one run: a behaviour       *)
(* exercises one of them, "part", and the others stay in their initial     *)
(* state.  Every variable belongs to the module whose tuple names it.      *)
(***************************************************************************)
EXTENDS Naturals, Sequences, FiniteSets, TLC

CONSTANTS
  Callers,  \* the goroutines of a runner, the chats or the requests of a part
  Names,    \* its sessions, files or directories
  None,
  MaxOps, MaxRepeats, MaxLog,                      \* StoreBridge
  Locations, Directories, TTL, MaxTime,            \* Capabilities
  MaxRequests, MaxFaults, MaxRevision,             \* PluginBackends
  Models, Levels, Tools, ThinkingLevels(_), KeptSessions, MaxUpdates, MaxFailures,   \* ChatPrefs
  MaxRuns, MaxConns, RunnerCapacity, HostCapacity, \* RemoteStream
  Kinds, LogCapacity, ChanCapacity, MaxEvents, MaxBreaks, MaxRestarts,   \* Feeds
  Browsers, CacheLog, CacheChan, WireCapacity, MaxSeq, MaxLosses, MaxFetches,   \* BrowserCache
  Screens, MaxPending, MaxSends, MaxActivations,   \* Attachments
  PluginDirs, MaxEdits,                            \* PluginWatch
  MaxLaunches, MaxTurns, MaxCrashes,               \* DesktopShell
  Folders, MaxHints, MaxFolders, MaxLists, MaxUnsaved, MaxMoves   \* Workspaces

ASSUME ServicesAssumption ==
  /\ None \notin Callers
  /\ {MaxOps, MaxRepeats, MaxLog, TTL, MaxTime, MaxPending, MaxSends, MaxActivations,
      MaxRequests, MaxFaults, MaxRevision, MaxLaunches, MaxTurns, MaxCrashes} \subseteq Nat
  /\ Screens # {}

ASSUME PrefsAssumption ==
  /\ MaxUpdates \in Nat /\ MaxFailures \in Nat /\ KeptSessions \in Nat \ {0}
  /\ \A m \in Models : ThinkingLevels(m) \in Seq(Levels) /\ ThinkingLevels(m) # <<>>

ASSUME FollowersAssumption ==
  /\ {MaxRuns, MaxConns, RunnerCapacity, HostCapacity, LogCapacity, ChanCapacity, MaxEvents,
      MaxBreaks, MaxRestarts, MaxEdits} \subseteq Nat
  /\ Kinds \subseteq {"dashboard", "managed", "page"}
  /\ {CacheLog, CacheChan} \subseteq Nat \ {0}
  /\ {WireCapacity, MaxSeq, MaxLosses, MaxFetches} \subseteq Nat

ASSUME ProjectsAssumption ==
  MaxHints \in Nat \ {0} /\ {MaxFolders, MaxLists, MaxUnsaved, MaxMoves} \subseteq Nat

VARIABLES
  part,
  \* StoreBridge
  mutex, current, attempt, network, begun, cut, operations, waiting, answers,
  stored, outcome, returned,
  \* Capabilities
  now, location, spent, pc, contexts, launches, processes,
  \* ChatPrefs
  prefs, file, saver, req, known, runtimes, count, failures, overlap, forgotten, since,
  \* PluginBackends
  revision, latest, disabled, stopped, process, alive, todo, seen, asked, faults,
  overlapped, calm, closing,
  \* RemoteStream
  state, queue, conn, wire, at, cur, snap, events, live, dropped, stolen,
  \* Feeds
  kind, version, base, chan, sub, frames, inbox, up, saved, wanted, pending, fetched, unlucky,
  breaks, restarts,
  \* BrowserCache
  stage, seq, timeline, buf, subs, farewell, pumped, cacheChan, handler, cacheAsked, replay,
  cacheInbox, cseq, view, ended, losses, active, cache, asking, cacheAnswers, fetches,
  \* Attachments
  shown, listed, busy, batch, deletes, sends, kept, gone, uploaded, messages, strayed, sent, activations,
  \* PluginWatch
  tree, watched, event, timer, walking, reading, catalog, changes,
  \* DesktopShell
  shell, child, bootAsked, served, servedKept, loading, page, path, serverAt, draining, timers, chats, silent,
  overlapping, launched, starts, crashes,
  \* Workspaces
  fs, hints, folders, listFile, listSaved, unsaved, removed, evicted, requests, listFaults, dirChanges

storeVars == <<mutex, current, attempt, network, begun, cut, operations, waiting, answers,
               stored, outcome, returned>>
capVars == <<now, location, spent, pc, contexts, launches, processes>>
prefVars == <<prefs, file, saver, req, known, runtimes, count, failures, overlap, forgotten, since>>
pluginVars == <<revision, latest, disabled, stopped, process, alive, todo, seen, asked,
                faults, overlapped, calm, closing>>
streamVars == <<state, queue, conn, wire, at, cur, snap, events, live, dropped, stolen>>
feedVars == <<kind, version, base, chan, sub, frames, inbox, up, saved, wanted, pending,
              fetched, unlucky, breaks, restarts>>
cacheVars == <<stage, seq, timeline, buf, subs, farewell, pumped, cacheChan, handler,
               cacheAsked, replay, cacheInbox, cseq, view, ended, losses, active, cache,
               asking, cacheAnswers, fetches>>
fileVars == <<shown, listed, busy, batch, deletes, sends, kept, gone, uploaded, messages, strayed,
              sent, activations>>
watchVars == <<tree, watched, event, timer, walking, reading, catalog, changes>>
deskVars == <<shell, child, bootAsked, served, servedKept, loading, page, path, serverAt, draining, timers, chats,
              silent, overlapping, launched, starts, crashes>>
listVars == <<fs, hints, folders, listFile, listSaved, unsaved, removed, evicted, requests,
              listFaults, dirChanges>>

\* "large" thinks at two levels, "small" at one
TwoModels(m) == IF m = "large" THEN <<"low", "high">> ELSE <<"low">>

Store == INSTANCE StoreBridge WITH NoCaller <- None
Cap == INSTANCE Capabilities WITH Chats <- Callers, Workspaces <- Directories
Prefs == INSTANCE ChatPrefs WITH
  Requests <- Callers, Sessions <- Names, Supports <- ThinkingLevels,
  MaxRequests <- MaxUpdates, MaxFaults <- MaxFailures
Plugins == INSTANCE PluginBackends WITH
  Requests <- Callers, Ticker <- None
Remote == INSTANCE RemoteStream WITH
  MaxChanges <- MaxRuns
Feed == INSTANCE Feeds
Cache == INSTANCE BrowserCache WITH
  Clients <- Browsers, LogCapacity <- CacheLog, ChanCapacity <- CacheChan, chan <- cacheChan,
  asked <- cacheAsked, inbox <- cacheInbox, answers <- cacheAnswers
Files == INSTANCE Attachments WITH
  Chats <- Screens, Files <- Names, active <- shown, pending <- kept
Watch == INSTANCE PluginWatch WITH Dirs <- PluginDirs, MaxChanges <- MaxEdits, revision <- catalog
Desk == INSTANCE DesktopShell WITH
  at <- serverAt, asked <- bootAsked, kept <- servedKept, overlap <- overlapping, launches <- launched
Projects == INSTANCE Workspaces WITH
  Paths <- Names \cup {"home"}, Gone <- None,
  MaxRequests <- MaxLists, MaxFaults <- MaxUnsaved, MaxChanges <- MaxMoves,
  file <- listFile, saved <- listSaved, faults <- listFaults, changes <- dirChanges

vars == <<part, storeVars, capVars, prefVars, pluginVars, streamVars, feedVars, cacheVars,
          fileVars, watchVars, deskVars, listVars>>

\* The parts that have one initial state, and those that have several.
Init ==
  /\ Store!Init /\ Cap!Init /\ Remote!Init /\ Cache!CacheInit /\ Files!Init /\ Desk!Init /\ Projects!Init
  /\ part \in {"store", "capabilities", "prefs", "plugins", "remote", "feed",
               "cache", "attachments", "watch", "desktop", "projects"}
  /\ IF part = "prefs" THEN Prefs!Init ELSE Prefs!Started(Prefs!NoPrefs)
  /\ IF part = "plugins" THEN Plugins!Init ELSE Plugins!Started(1, FALSE)
  /\ IF part = "feed" THEN Feed!Init ELSE Feed!Started("dashboard")
  /\ IF part = "watch" THEN Watch!Init ELSE Watch!Started({})

Next ==
  \/ /\ part = "store" /\ Store!Next
     /\ UNCHANGED <<part, capVars, prefVars, pluginVars, streamVars, feedVars,
                    cacheVars, fileVars, watchVars, deskVars, listVars>>
  \/ /\ part = "capabilities" /\ Cap!Next
     /\ UNCHANGED <<part, storeVars, prefVars, pluginVars, streamVars, feedVars,
                    cacheVars, fileVars, watchVars, deskVars, listVars>>
  \/ /\ part = "prefs" /\ Prefs!Next
     /\ UNCHANGED <<part, storeVars, capVars, pluginVars, streamVars, feedVars,
                    cacheVars, fileVars, watchVars, deskVars, listVars>>
  \/ /\ part = "plugins" /\ Plugins!Next
     /\ UNCHANGED <<part, storeVars, capVars, prefVars, streamVars, feedVars,
                    cacheVars, fileVars, watchVars, deskVars, listVars>>
  \/ /\ part = "remote" /\ Remote!Next
     /\ UNCHANGED <<part, storeVars, capVars, prefVars, pluginVars, feedVars,
                    cacheVars, fileVars, watchVars, deskVars, listVars>>
  \/ /\ part = "feed" /\ Feed!Next
     /\ UNCHANGED <<part, storeVars, capVars, prefVars, pluginVars, streamVars,
                    cacheVars, fileVars, watchVars, deskVars, listVars>>
  \/ /\ part = "cache" /\ Cache!CacheNext
     /\ UNCHANGED <<part, storeVars, capVars, prefVars, pluginVars, streamVars,
                    feedVars, fileVars, watchVars, deskVars, listVars>>
  \/ /\ part = "attachments" /\ Files!Next
     /\ UNCHANGED <<part, storeVars, capVars, prefVars, pluginVars, streamVars,
                    feedVars, cacheVars, watchVars, deskVars, listVars>>
  \/ /\ part = "watch" /\ Watch!Next
     /\ UNCHANGED <<part, storeVars, capVars, prefVars, pluginVars, streamVars,
                    feedVars, cacheVars, fileVars, deskVars, listVars>>
  \/ /\ part = "desktop" /\ Desk!Next
     /\ UNCHANGED <<part, storeVars, capVars, prefVars, pluginVars, streamVars, feedVars,
                    cacheVars, fileVars, watchVars, listVars>>
  \/ /\ part = "projects" /\ Projects!Next
     /\ UNCHANGED <<part, storeVars, capVars, prefVars, pluginVars, streamVars, feedVars,
                    cacheVars, fileVars, watchVars, deskVars>>

Spec == Init /\ [][Next]_vars

Symmetry == Permutations(Callers) \cup Permutations(Names)

-----------------------------------------------------------------------------
TypeOK ==
  CASE part = "store" -> Store!TypeOK
    [] part = "capabilities" -> Cap!TypeOK
    [] part = "prefs" -> Prefs!TypeOK
    [] part = "plugins" -> Plugins!TypeOK
    [] part = "remote" -> Remote!TypeOK
    [] part = "feed" -> Feed!TypeOK
    [] part = "cache" -> Cache!TypeOK
    [] part = "desktop" -> Desk!TypeOK
    [] part = "projects" -> Projects!TypeOK
    [] OTHER -> TRUE

(* Whatever is repeated or given up, the store applies an operation once, in the
   order of the runner, and the runner is told what the store did, from a log of
   operations that stays bounded (sessionstorebridge.serveMutation and
   pruneOperationsLocked, sessionstoreremote.mutate).                        *)
StoreIsTrue ==
  part = "store" => Store!AppliedOnce /\ Store!AnswerIsTrue /\ Store!OrderKept /\ Store!LogBounded

(* No context and no launch outlives its chat, on any way out of openChat and
   disposeChat and whatever the relay of the sandbox does; a reserved location is
   given to one request, and a launch runs one process.                      *)
CapabilitiesHeld ==
  part = "capabilities" => Cap!ContextsOwned /\ Cap!LaunchesOwned /\ Cap!LocationUsedOnce /\ Cap!OneProcess

(* What the preference service reads back after any failure is a state it has had
   since it last reported one as saved (chatprefs.write, read); without overlap or
   failure, the live chats and the preferences agree.                        *)
PrefsTrue ==
  part = "prefs" => Prefs!SavedIsKept /\ Prefs!ChoicesAgree

(* A plugin never has two backends, whatever races for it, and an undisturbed pass
   of the ticker makes its backend what the operator wants; requests one after the
   other never leave a disabled plugin running (plugin_backends.go).         *)
PluginSettles ==
  part = "plugins" => Plugins!OneBackend /\ Plugins!PassSettles /\ Plugins!DisabledIsStopped

(* Whoever follows events and has read everything knows how things stand, or that it
   has missed something: the host the state of the runner's turn, the dashboard and a
   plugin's managed client (not a page with an EventSource of its own) all of their
   events or the gap, the dashboards the last change of the plugins; a browser that
   comes back to a chat resumes from a true state of it (streamOnce,
   eventHub.subscribe and publish, pluginWatcher.run, useChat).              *)
FollowersAreTold ==
  /\ part = "remote" => Remote!HostKnowsRun
  /\ part = "feed" /\ kind # "page" => Feed!GapsAreTold
  /\ part = "watch" => Watch!CatalogPublished
  /\ part = "cache" => Cache!CacheIsPrefix

(* A message is accepted with all of its files or not at all, each of them once, and
   the browser lists what the chat keeps until a request fails, a chat with files is
   left or disposed of, or what is added crosses what is sent (takeAttachments,
   liveChat.close, useDashboard.send).                                       *)
FilesWhole ==
  part = "attachments" => Files!MessagesWhole /\ Files!Listed

(* A desktop keeps the server it has reclaimed, a server keeps its socket, and one
   that has been left retires (main.cjs, listenUnix, retireIfDrained).       *)
DesktopServed ==
  part = "desktop" => Desk!ReclaimedStays /\ Desk!ServedAtPath /\ Desk!DetachedEnds

(* The list of projects and their folders stays sound, a removal that was saved holds,
   and memory and file differ in nothing but what an opening or a removal could not
   save and what a restart could not load, whatever fails, is restarted and changes on
   disk (workspaces.Service).                                                *)
ProjectsKept ==
  part = "projects" => Projects!ListSound /\ Projects!RemovedStayAway /\ Projects!SavedIsWhole
=============================================================================

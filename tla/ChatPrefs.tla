------------------------------- MODULE ChatPrefs -------------------------------
(***************************************************************************)
(* The preferences of chats (internal/chatprefs) and the requests that use *)
(* them: the options of new chats, the configuration of a live one, the    *)
(* global set of disabled tools, and the opening of a chat.  A chat and its*)
(* session have one name.  The model and the thinking level of a preference*)
(* are abstracted to values of which some do not go together.              *)
(***************************************************************************)
EXTENDS Naturals, Sequences, Functions

CONSTANTS Requests, Sessions, Models, Levels, Tools, None,
          Supports(_),   \* the thinking levels of a model, the first is its fallback
          KeptSessions,  \* maxSessionPreferences (2048), more than 0
          MaxRequests, MaxFaults   \* bounds: requests; failures (below)

VARIABLES prefs,   \* Service.state
          file,    \* the preference file
          saver,   \* the request that holds Service.mu and writes
          req,     \* req[r]: where the handler of r stands and what it has read
          known,   \* the sessions that exist
          runtimes,    \* runtimes[s]: the choice a live chat runs with, or None
          count,   \* requests so far
          failures,  \* failed writes, half-applied configurations and crashes so far
          overlap, \* two requests have been handled at the same time
          forgotten,   \* live chats whose preference the limit has pushed out
          since    \* the states the service has had since it last said "saved"

prefVars == <<prefs, file, saver, req, known, runtimes, count, failures, overlap, forgotten, since>>

Idle == [pc |-> "idle"]
Choice == [model |-> None, level |-> None, tools |-> {}]
NoPrefs == [default |-> Choice, sessions |-> <<>>]
\* a file of the time when the tools were kept per session
OldPrefs(s, m, l) == [default |-> Choice,
  sessions |-> <<[id |-> s, model |-> m, level |-> l, tools |-> Tools]>>]

\* read: the tools of sessions are folded into the default.
Load(f) ==
  [default |-> [f.default EXCEPT !.tools = @ \cup UNION {f.sessions[i].tools : i \in DOMAIN f.sessions}],
   sessions |-> [i \in DOMAIN f.sessions |-> [f.sessions[i] EXCEPT !.tools = {}]]]

\* The server starts from the file.
Started(f) ==
  /\ file = f /\ prefs = Load(f) /\ since = {Load(f)}
  /\ known = {f.sessions[i].id : i \in DOMAIN f.sessions}
  /\ saver = None /\ req = [r \in Requests |-> Idle] /\ runtimes = [s \in Sessions |-> None]
  /\ count = 0 /\ failures = 0 /\ overlap = FALSE /\ forgotten = {}

Init ==
  \/ Started(NoPrefs)
  \/ \E s \in Sessions, m \in Models : Started(OldPrefs(s, m, Supports(m)[1]))

\* The preference of a session in the map, and the map without it; the sequence
\* has them in the order in which they were last updated.
Ids(p) == {p.sessions[i].id : i \in DOMAIN p.sessions}
Place(p, s) == CHOOSE i \in DOMAIN p.sessions : p.sessions[i].id = s
Of(p, s) == IF s \in Ids(p) THEN p.sessions[Place(p, s)]
            ELSE [id |-> s, model |-> None, level |-> None, tools |-> {}]
Others(p, s) ==
  IF s \in Ids(p)
  THEN SubSeq(p.sessions, 1, Place(p, s) - 1) \o SubSeq(p.sessions, Place(p, s) + 1, Len(p.sessions))
  ELSE p.sessions

\* Mutant: the tools of a session are its own
GetMine(p, s) == [model |-> Of(p, s).model, level |-> Of(p, s).level, tools |-> Of(p, s).tools]

\* Service.Get: a session's own choice, with the tools of all.
Get(p, s) == [model |-> Of(p, s).model, level |-> Of(p, s).level, tools |-> p.default.tools]

\* What a patch leaves out is kept.
With(c, m, l) == [c EXCEPT !.model = IF m = None THEN @ ELSE m, !.level = IF l = None THEN @ ELSE l]
Takes(model, level) == level \in Range(Supports(model))

Starts(r, next) ==
  /\ req[r].pc = "idle" /\ count < MaxRequests
  /\ count' = count + 1
  /\ overlap' = (overlap \/ \E q \in Requests \ {r} : req[q].pc # "idle")
  /\ req' = [req EXCEPT ![r] = next]
Goes(r, next) == req' = [req EXCEPT ![r] = next] /\ UNCHANGED <<count, overlap>>

\* A method of the service changes its state under the mutex, then writes.
Update(r, p) ==
  /\ saver = None /\ saver' = r
  /\ prefs' = p /\ since' = since \cup {p}
  /\ forgotten' = forgotten \cup {s \in Ids(prefs) \ Ids(p) : runtimes[s] # None}
  /\ UNCHANGED <<file, failures>>

ReadOnly == UNCHANGED <<prefs, file, saver, failures, forgotten, since>>

-----------------------------------------------------------------------------
(* write: a temporary file is written and renamed.                           *)

Truncated == NoPrefs  \* Mutant: the file itself is opened and written
Unfinished == file

Saved(r) ==
  /\ saver = r /\ saver' = None
  /\ file' = prefs /\ since' = {prefs}
  /\ Goes(r, CASE req[r].pc = "tool" -> [pc |-> "push"]
               [] req[r].pc = "bind" -> [req[r] EXCEPT !.pc = "register"]
               [] OTHER -> Idle)
  /\ UNCHANGED <<prefs, known, runtimes, failures, forgotten>>

\* The write fails; what was changed in memory stays.
SaveFails(r) ==
  /\ saver = r /\ saver' = None /\ file' = Unfinished
  /\ failures < MaxFaults /\ failures' = failures + 1
  /\ Goes(r, Idle)
  /\ UNCHANGED <<prefs, known, runtimes, forgotten, since>>

\* The server dies, at any point of a write too, and starts again.
Crash ==
  /\ failures < MaxFaults /\ failures' = failures + 1
  /\ file' = IF saver = None THEN file ELSE Unfinished
  /\ prefs' = Load(file') /\ saver' = None
  /\ req' = [r \in Requests |-> Idle] /\ runtimes' = [s \in Sessions |-> None] /\ forgotten' = {}
  /\ UNCHANGED <<known, count, overlap, since>>

-----------------------------------------------------------------------------
(* handleUpdateChatOptions.                                                  *)

\* The present choice is read and the options of the new one are resolved.
ReadOptions(r, m, l) ==
  /\ m # None \/ l # None
  /\ LET model == IF m = None THEN prefs.default.model ELSE m
         level == IF l = None THEN prefs.default.level ELSE l
         bad == model # None /\ level # None /\ ~Takes(model, level)
     IN /\ bad => l = None
        /\ Starts(r, [pc |-> "options", model |-> m,
                      level |-> IF bad THEN Supports(model)[1] ELSE l])
  /\ ReadOnly /\ UNCHANGED <<known, runtimes>>

\* UpdateDefault
UpdateDefault(r) ==
  /\ req[r].pc = "options"
  /\ Update(r, [prefs EXCEPT !.default = With(@, req[r].model, req[r].level)])
  /\ Goes(r, [pc |-> "save"]) /\ UNCHANGED <<known, runtimes>>

-----------------------------------------------------------------------------
(* handleUpdateDefaultTool.                                                  *)

SetToolEnabled(r, t, enabled) ==
  /\ Update(r, [prefs EXCEPT !.default.tools = IF enabled THEN @ \ {t} ELSE @ \cup {t}])
  /\ Starts(r, [pc |-> "tool"]) /\ UNCHANGED <<known, runtimes>>

\* The global set and the live chats are read ...
PushRead(r) ==
  /\ req[r].pc = "push"
  /\ saver = None
  /\ Goes(r, [pc |-> "pushing", tools |-> prefs.default.tools,
              chats |-> {s \in Sessions : runtimes[s] # None}])
  /\ ReadOnly /\ UNCHANGED <<known, runtimes>>

\* ... and each chat is given it.
PushOne(r) ==
  /\ req[r].pc = "pushing"
  /\ IF req[r].chats = {} THEN Goes(r, Idle) /\ UNCHANGED <<known, runtimes>>
     ELSE \E s \in req[r].chats :
            /\ Goes(r, [req[r] EXCEPT !.chats = @ \ {s}])
            /\ runtimes' = [runtimes EXCEPT ![s] = IF @ = None THEN None ELSE [@ EXCEPT !.tools = req[r].tools]]
  /\ ReadOnly /\ UNCHANGED known

-----------------------------------------------------------------------------
(* openChat and handleConfig.                                                *)

\* Remember: the default follows the choice of a session; the oldest session goes.
Merge(p, s, m, l) ==
  LET all == Append(Others(p, s), With(Of(p, s), m, l))
  IN [default |-> With(p.default, m, l),
      sessions |-> IF Len(all) > KeptSessions THEN Tail(all) ELSE all]

\* A new chat takes the default, a resumed one what its session was last given.
OpenRead(r, s) ==
  /\ runtimes[s] = None /\ \A q \in Requests : req[q].pc \in {"open", "bind", "register"} => req[q].s # s
  /\ saver = None
  /\ Starts(r, [pc |-> "open", s |-> s, new |-> s \notin known,
                choice |-> IF s \in known THEN Get(prefs, s) ELSE prefs.default])
  /\ known' = known \cup {s}
  /\ ReadOnly /\ UNCHANGED runtimes

\* The runtime is there; a new chat binds the choice to its session.
Bind(r) ==
  /\ req[r].pc = "open"
  /\ LET c == req[r].choice IN
     IF req[r].new /\ (c.model # None \/ c.level # None)
     THEN Update(r, Merge(prefs, req[r].s, c.model, c.level)) /\ Goes(r, [req[r] EXCEPT !.pc = "bind"])
     ELSE ReadOnly /\ Goes(r, [req[r] EXCEPT !.pc = "register"])
  /\ UNCHANGED <<known, runtimes>>

Register(r) ==
  /\ req[r].pc = "register"
  /\ runtimes' = [runtimes EXCEPT ![req[r].s] = req[r].choice]
  /\ Goes(r, Idle) /\ ReadOnly /\ UNCHANGED known

CloseChat(s) ==
  /\ runtimes[s] # None /\ runtimes' = [runtimes EXCEPT ![s] = None]
  /\ forgotten' = forgotten \ {s}
  /\ UNCHANGED <<prefs, file, saver, req, known, count, failures, overlap, since>>

\* handleConfig: the runtime first, the model and then the level; a level that the
\* model has not is refused when the model is already set.
Config(r, s, m, l) ==
  /\ runtimes[s] # None /\ (m # None \/ l # None)
  /\ LET model == IF m = None THEN runtimes[s].model ELSE m
         refused == l # None /\ model # None /\ ~Takes(model, l)
     IN /\ runtimes' = [runtimes EXCEPT ![s] = With(@, m, IF refused THEN None ELSE l)]
        /\ IF refused
           THEN /\ failures < MaxFaults /\ failures' = failures + 1
                /\ Starts(r, Idle)
           ELSE /\ Starts(r, [pc |-> "config", s |-> s, model |-> m, level |-> l])
                /\ UNCHANGED failures
  /\ UNCHANGED <<prefs, file, saver, forgotten, since, known>>

RememberConfig(r) ==
  /\ req[r].pc = "config"
  /\ Update(r, Merge(prefs, req[r].s, req[r].model, req[r].level))
  /\ Goes(r, [pc |-> "save"]) /\ UNCHANGED <<known, runtimes>>

Next ==
  \/ Crash
  \/ \E s \in Sessions : CloseChat(s)
  \/ \E r \in Requests :
       \/ Saved(r) \/ SaveFails(r)
       \/ UpdateDefault(r) \/ PushRead(r) \/ PushOne(r)
       \/ Bind(r) \/ Register(r) \/ RememberConfig(r)
       \/ \E m \in Models \cup {None}, l \in Levels \cup {None} : ReadOptions(r, m, l)
       \/ \E t \in Tools, e \in BOOLEAN : SetToolEnabled(r, t, e)
       \/ \E s \in Sessions : OpenRead(r, s) \/ 
            \E m \in Models \cup {None}, l \in Levels \cup {None} : Config(r, s, m, l)

Spec == Init /\ [][Next]_prefVars

-----------------------------------------------------------------------------
TypeOK ==
  /\ saver \in Requests \cup {None} /\ count \in 0..MaxRequests /\ failures \in 0..MaxFaults
  /\ \A p \in {prefs, file} : p.default.tools \subseteq Tools /\ Len(p.sessions) <= KeptSessions

Settled == \A r \in Requests : req[r].pc = "idle"

(* Whatever fails and whenever the server dies, what it reads back is a state it
   has had since it last reported a change as saved (write replaces the file
   atomically; the migration of read takes nothing back).                    *)
SavedIsKept == Load(file) \in since

(* As long as requests do not overlap and nothing fails, every live chat has the
   disabled tools that the next one gets (handleUpdateDefaultTool), and resuming it
   would give it the model and the thinking it has now (Remember, Get) - unless the
   limit has pushed its preference out, and a later change of one of the two has
   brought back only that.                                                   *)
ChoicesAgree ==
  ~overlap /\ failures = 0 /\ Settled =>
    \A s \in Sessions : runtimes[s] # None =>
      /\ runtimes[s].tools = prefs.default.tools
      /\ s \notin forgotten => Get(prefs, s) = runtimes[s]
=============================================================================

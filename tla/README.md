# Atelier in TLA+

A model of Atelier, the local dashboard for docker-agent: what its server, its
runtimes and its browsers do concurrently, model-checked with TLC; the event log, the
docker-agent chat and its double, the registry, the sandboxes, the multiplexer and
the eleven small parts around them are proved correct with TLAPS
as well, for all constants. Every definition is a translation of code under `src/`;
`PROJECT.json` names the lines.

## The system

One Go process (`cmd/dawui`) serves a React application and embeds docker-agent.
A user opens *chats*; each one drives a docker-agent *session* that lives in a
SQLite store. The desktop application (`electron`) starts the process and may
leave it behind while turns are running.

| Part | State | Operations | Talks to |
|---|---|---|---|
| live chat (`httpapi/chat.go`) | sequence number, ring buffer of 1024 events, subscribers, timeline, generation, closed | publish, subscribe, unsubscribe, snapshot, hydrate, close, and the pump goroutine | its adapter chat by a channel of 512 events, its subscribers by channels of 256 |
| SSE handler (`handlers_events.go`) | where one request stands | replay, gap and snapshot, live events, heartbeat | live chat, browser |
| browser stream (`useChat.ts`, `reducer.ts`) | reduced state of each visited chat, its sequence number, batch of the next frame, retry timer | connect, reduce, reconnect, leave, prepare | SSE handler, `GET /chats/{id}` |
| docker-agent chat (`adapter/dagent`) | run status, generation, cancel function, two queues, `dispatchMu` | Send, runLoop, settle, Abort, Close, emit | docker-agent's runtime, live chat |
| registry and open (`chat_registry.go`, `handlers_chats.go`) | chats, chat of each session | open, resume, attach, dispose | adapter, live chat |
| server lifecycle (`server.go`) | draining, retire | detach, bootstrap, retire, shutdown | registry, `electron`, `main` |
| dashboard and plugin events | second, smaller event log | publish, subscribe | all browsers |
| hybrid, sandbox, remote adapters, runner API | connection pool, session index, remote event stream | open on host or sandbox, release, reconnect | `sbx`, stdio multiplexer |
| stdio multiplexer (`stdiomux`) | streams over one pipe | dial, accept, read, write, close, reset | sandbox process |
| session store bridge | operation log | repeatable mutations | SQLite store |
| MCP bridge, execution locations, session contexts | one-time tokens | prepare, acquire, release, revoke, consume | plugins |
| fake chat (`adapter/fake`) | run status, generation, cancel function, two queues, items | Send, script, settle, Abort, Close, configuration | the server's tests, in place of docker-agent |
| plugin backends and management | processes, catalogue | start, proxy, stop, reload, install | plugin processes |
| preferences, workspaces, attachments | small files | remember, resolve, upload, take | disk |

`PROJECT.json` lists every part, the presentation code included, with the module
that models it or the reason why none does.

### What is hard here

* Everything in `liveChat` happens under one mutex, and almost everything that
  matters happens between two of its critical sections: a handler subscribes,
  then snapshots, then drains; the pump checks staleness, unlocks and publishes;
  `close` unlocks to close the runtime, and again before it notifies.
* Delivery is lossy on purpose: slow subscribers are dropped, browsers cut and
  resume, frames are thrown away, a full channel drops the event of a runtime.
* A turn is started, fed, stopped, settled and closed by different goroutines;
  two mutexes and a generation counter keep them apart.
* The registry makes one chat own a session, but a runtime is opened before its
  chat is registered and closed after it was removed.
* The desktop detaches in the middle of anything.

### What makes each part correct

* Event log: a browser shows a prefix of the history, never less than before,
  and has all of it once it shows the chat closed; each subscriber's channel has one
  that closes it; everything arrives in the end.
* Runtime: one stream at a time; no message lost or doubled; idle means idle; an
  abort stops the turn it was meant for, and that turn settles.
* Every adapter's chat: the contract of `adapter.Chat`. Turns come one at a time, a
  chat is idle when and only when nothing drives its session, a message is delivered
  at most once, during a turn, and not after it was dropped.
* Registry: one registered chat per session; no runtime without an owner.
* Draining: a busy server that is detached retires when its turns are over.
* Sandboxes: every registered chat is counted; a sandbox has at most one runner that is
  neither on its way out nor left behind by a refused resume; no sandbox is removed in
  use; every pooled runner ends.
* Timelines: the server's reduction of a turn and the browser's agree, and tell what
  the runtime did; a confirmation is answered.
* Everything around the chats: a stream over the pipe is a queue; a repeated
  operation is applied once; a launch runs one process and dies with its chat; what
  was saved is read back; a plugin has one backend and settles; a host knows how its
  runner stands; no event is lost silently; a message has all of its files; a
  changed plugin directory is published; a desktop keeps the server it reclaimed; a
  removed project stays away once that was saved, a folder holds no project twice, and
  memory and file differ in what an opening or a removal could not save and a restart
  could not load, and in nothing else.

## Modules

| Module | What it is |
|---|---|
| `OrderedFeed` | the abstract promise of the event stream: one growing history, growing prefixes of it on the screens |
| `EventLog` | live chat, SSE handler and browser stream of one chat; implements `OrderedFeed` |
| `EventLogProofs` | TLAPS proofs about `EventLog` and `BrowserCache`, for all constants |
| `BrowserCache` | extends `EventLog`: a browser leaves the chat, comes back, and has snapshots on their way |
| `ChatContract` | the abstract promise of `adapter.Chat`: turns, idleness, delivery |
| `DagentChat` | one docker-agent chat with its queues, run loop and reports; implements `ChatContract` |
| `DagentChatProofs` | TLAPS proofs about `DagentChat`, the refinement included |
| `FakeChat` | one chat of the fake adapter; implements `ChatContract` |
| `FakeChatProofs` | TLAPS proofs about `FakeChat`, the refinement included |
| `Timeline` | `normalize`, the server's reducer and the browser's, over one chat's items |
| `ChatRegistry` | opening and disposing of chats, draining, retirement |
| `ChatRegistryProofs` | TLAPS proofs about `ChatRegistry` |
| `SandboxConnections` | the sandbox adapter's connection pool and the sandboxes under it |
| `SandboxProofs` | TLAPS proofs about `SandboxConnections` |
| `StreamPairs` | the abstract promise of the multiplexer: each direction of a stream is a queue with an honest end |
| `StdioMux` | two ends of the multiplexer over bounded pipes; implements `StreamPairs` |
| `StdioMuxProofs` | TLAPS proofs about `StdioMux`, the refinement included |
| `RangeLemmas` | what appending to a queue and taking from it do to its elements; cited by the proofs about both chats, the multiplexer and the small parts |
| `StoreBridge` | store mutations of a runner, repeated and given up, and the host's operation log |
| `Capabilities` | execution locations, session contexts and MCP launches of chats that open and close |
| `ChatPrefs` | the preferences, their file, and the handlers that push them to live chats |
| `PluginBackends` | requests, reloads and the ticker over one plugin's backend process |
| `PluginWatch` | the watcher of the plugin directory |
| `RemoteStream` | a runner's chat, its event stream, and the host that reads it |
| `Feeds` | the dashboard's and the plugins' events, from the hub to the page |
| `Attachments` | uploads, the composer's list, and the message that takes them |
| `Workspaces` | the list of projects and its folders, in memory and on disk |
| `DesktopShell` | Electron, the servers it starts and reclaims, and their socket |
| `MC_ChatRegistry` | symmetry for TLC |
| `MC_LiveChat` | a docker-agent chat or the two timelines of a chat, one exercised per behaviour |
| `MC_Chats` | the two kinds of chat under their fairness, one exercised per behaviour |
| `MC_Services` | the eleven small parts, one exercised per behaviour |
| `ServicesProofs` | TLAPS proofs about all of them |

Operators named in a comment "Mutant:" are broken variants of the definition that
follows them. Nothing uses them; each one shows that a property notices the bug.

### EventLog

One action is one critical section of `liveChat.mu`, one write of the handler,
or one step of the browser. `Publish` is applyLocked, the sequence number, the
ring buffer and the fan-out, with slow subscribers dropped. `PumpTake` and
`PumpPublish` are the two halves of the pump, `Invalidate`, `Close` and
`Farewell` the three of `close`. `Subscribe` computes the replay or asks for a
gap; `WriteReplay`, `WriteGap`, `WriteSnapshot`, `WriteEvent` are the handler;
`ChannelClosed` and `HandlerReturn` end it. `Connect`, `Reduce`, `Disconnect`
are the browser. An event is its sequence number, and the reduced state is the
sequence of events reduced into it: what a reduction does to one item is left
out. The bytes on the wire and the batch of the next animation frame are one
queue. A client connects again only after the handler of its last request has
returned; a handler left behind shares nothing with its successor but the log.

### BrowserCache

Adds `useChat`'s cache of visited chats and `prepareChat`: two clicks may ask for
two snapshots, which arrive in any order and replace the cached state. The cache
is what a returning browser shows and resumes from. The Retry button is left
out: it is drawn only while the connection is given up, which the same timer
callback ends by connecting, so that React never renders it for long enough.

### DagentChat

The labels in `pc` are the places where a goroutine holds no lock. `Send` takes
`dispatchMu` for good and then queues (`Enqueue`) or starts a turn (`StartTurn`,
`AddMessage`, `Launch`). Whoever changes a queue or the run goes through
`refreshQueue` and `publishRun`: `SnapshotSteer`, `SnapshotFollowUps`,
`StoreQueue`, `ReadRun`, `EmitRun`. `settle` is `SettleStale`, `SettleSpeaking`,
`AssistantEnd`, `SettleIdle`, `SettleMeta`. `Abort` reads the cancel function and
`Cancel` calls it; `Close` is an abort and then the generation. docker-agent's
runtime is external: it takes messages from the queues while it streams, and
ends after it has found both empty, or when cancelled. `Pump` is `liveChat.pump`
reduced to the server's copy of the run state. Left out: the session row, titles,
configuration, normalisation. What a goroutine has read and needs no longer is
reset, which removes states and no behaviour. `registry.remove` hands a chat out
once, so that at most one `Close` runs.

`Contract` maps all of this to `ChatContract`: `driving` is true from the moment a
Send has started a turn until its loop has settled (`Busy`), `waiting` is what the two
queues hold, `delivered` what is in the session, and nothing is ever given up.

### FakeChat

The same interface, written differently: a turn is a script, the queues are fields of
the chat, and a settled turn sends the first waiting follow-up itself. The labels are
again the places without a lock. `Dispatch` is the decision in `Send` (`Refuse`,
`Queue`, `StartTurn`), made under `chat.mu`; `AddItem`, `EmitMessage`, `EmitMeta`,
`Announce`, `Launch` what follows it under `dispatchMu`. `Play` does one step of
`Script`, which lists what a turn emits, stores and where it looks at its context.
`Settled` or `Stale`, `EmitIdle` and `Resend` are `settle`, `CheckIdle`, `Configure`
and `Notify` the four operations that look for an idle chat or need none. What an item
says is left out; a message is its number, anything else the runtime stores is 0.
Unlike docker-agent's, this `Abort` drops what is queued, and `Settled` the steering
messages, so that `lost` is not empty here.

### ChatRegistry

A request is identified with the chat it would create. `Attach`/`BeginOpen` are
the lookup, `OpenRuntime`, `Register`, `LoserCloses`, `Hydrate`, `HydrateFails`
and `StartPump` what follows it in `openChat`. `Remove` is `chatRegistry.remove`,
used by a user (`Dispose`), a pump (`PumpDispose`), a detach (`DetachDispose`)
and a failed request; the chat is then closed in `Invalidate` and
`CloseRuntime`. The pump ends each event in `disposeIfDraining`, in its four
steps; `beginDrain` is `Detach`, `DetachList`, `DetachFind`, `DetachDispose`,
`DetachClosed`, `DetachRetire`. Run states reach the server in order: that they
may not is a finding of `DagentChat`. Left out: attributes, contexts and
locations of a new session, preferences, provisioning messages, `Shutdown`.

### SandboxConnections

A session is identified with its sandbox, a connection with the request that
provisioned it. `OpenChat` takes `sessionOps`, which `Finish` or `Register` gives
back; `ReplaceLegacy`, `EnsureRecord`, `CompareAuth`, `CheckClosed`, `Run`, `Exec`,
`Ready`, `RemoteOpen`, `Register` and `Discard` follow the code down to
`sandboxrunner.Start`. `provisionMu` is only ever taken under `sessionOps` and adds
nothing. `CloseChat`, `Release`, `Transport`, `Stop` are `managedChat.Close` and
`releaseConnection`, outside that lock; `Close` and `CloseOne` the end of the
adapter. `sbx` and the runner are external: any command may fail, exec starts a
stopped sandbox and fails on a missing one, a sandbox that stops takes its
runners with it, a runner may die. Left out: MCP capabilities, tokens, extra
workspaces, network policy, `SetModelsGateway` (it forwards to every runner), and
a crash of the host between two saves of the index.

### Timeline

The agent loop of docker-agent is external: `Runs` lets it emit the next event of a
message or a tool, and it waits after a confirmation. Each event is one action
named for what it says (`Choice`, `Partial`, `Call`, `Confirm`, `Output`,
`Finish`, `Separate`, `Remark`, `Limit`), that is `normalize` with the protocol
events it emits; `Emit` applies them with `Apply` on the server and `Reduce` in the
browser, which receives every event. `Upsert`, `Merged`, `Clamped` and `Patch`,
`UpsertTool` follow the two programs line by line, including the two different
ways of bounding a preview; a preview is a number of units. `Look` and `Resume` are
the loop of `autoApprove`. `Snapshot` replaces the browser's timeline at any time.

### StdioMux

`Dial`, `Write`, `Close`, `ReadData`, `ReadEnd`, `Accept` are the calls of a
program; `writeFrame` is entered in `calls` and ends in `WriteFrame`, which waits
while the pipe is full, or `WriteFails`. `TakeOpen`, `TakeData`, `TakeClose` and
`ReadEOF` are readLoop's cases, `WriteReset` the reset that it writes itself.
`StreamPairs` knows nothing of frames: it has what was written, read and ended.

### The parts of MC_Services

They share no state with each other, so that one run takes them in turn: `part`
says which one a behaviour exercises, and a property of the run is the
conjunction of what that part's module promises. Their constants are constants of
`MC_Services`, with values in `Services.cfg`.

* `StoreBridge`: `Mutate`, `Answered`, `GiveUp` are `RemoteStore.mutate`; `Resend`
  the transport; `Begin`, `Repeat`, `Handle`, `Record` (with the pruning) and
  `Reply` are `serveMutation`.
* `Capabilities`: a chat goes through `openChat` and `disposeChat` step by step,
  each of which may fail; the relay of its sandbox connects whenever it likes.
  Time is a counter that passes every expiry.
* `ChatPrefs`: a request is a sequence of critical sections of `Service.mu` and of
  steps outside it; a save writes a temporary file and renames it, and may fail or
  be cut by a crash.
* `PluginBackends`: one plugin, one revision of it per install; a request, the
  ticker or shutdown is a program of steps (`Program`), each of which takes the
  manager's mutex once.
* `RemoteStream`: the runner takes an event from its channel before it writes it;
  the host reconnects, reads the snapshot, reconciles the run state and reads on.
* `Feeds`: one hub with a bounded log and a bounded channel per client, and two
  kinds of client, the dashboard (a snapshot after a gap) and a managed plugin
  client (which is told of the gap). A third kind, the page of a plugin, is told nothing
  when it reconnects (see *Feeds* below), and no property is about it.
* `Attachments`: a batch of uploads, deletions and up to two sends are under way
  while the user changes the chat or the server disposes of it. Any of these requests
  may fail or lose its answer; `strayed` notes when the browser's list and the chat's
  uploads may differ for good.
* `PluginWatch`: the tree changes at any step of the debounce, of the walk that
  adds watches, and of the reading of the catalogue.
* `Workspaces`: every request is one critical section with its save, which writes the
  whole file or fails; `Restart` loads it again, with directories that have gone or
  become links by then (one link deep).
* `DesktopShell`: one desktop at a time goes through `main` and `before-quit`; each
  server goes through `listenUnix`, serving, retirement and the two removals of its
  socket file. Draining itself is one step here and is taken apart in
  `ChatRegistry`.

## Runs

All of them set `CHECK_DEADLOCK FALSE`: bounds are used up, chats close, and a
user need not do anything.

| Run | Instance | Checks |
|---|---|---|
| `event_log` | 1 browser, log of 2, channel of 1, 5 events, 2 losses, fair | `TypeOK`, `ViewIsPrefix`, `LogIsContiguous`, `ClosedViewIsComplete`, `NoGhostSubscriber`, `NeverBack`, refinement of `OrderedFeed` (`FeedSpec`), `EveryEventArrives` |
| `live_chat` | 2 senders, a close, queue and channel of 1, 3 messages (2 when the chat is being closed); or the timelines of 1 tool, 4 runtime events, 2 items kept, previews of 1, 1 snapshot | `TypeOK`, `OneStream`, `EveryMessageOnce`, `CancelledIsStopping`, refinement of `ChatContract` (`ContractKept`); `BrowserShowsTruth` of the timelines |
| `chats` | the fake chat with 1 sender, 1 close, 1 configuration or 1 abort, or docker-agent's with 1 sender, 1 abort; channels of 1, 2 messages, fair | of the fake chat `TypeOK`, refinement of `ChatContract` (`ContractKept`), `EventsInOrder`; of both, `AbortSettles` |
| `chat_registry` | 2 opens, 2 sessions, 1 turn, 1 disposal, 1 detach, fair | `TypeOK`, `RegistryConsistent`, `NoOrphanRuntime`, `SettledTurnsRetire` |
| `sandbox` | 3 opens of 1 session, old, new or legacy, 1 gateway change or death, fair | `TypeOK`, `ClaimsAreCounted`, `OneRunner`, `NeverRemovedInUse`, `RunnersEnd` |
| `mux` | 1 stream of each end, pipes and buffers of 1, 2 units, fair | `TypeOK`, `TableIsSwept`, refinement of `StreamPairs` (`StreamsAreQueues`), `DataArrives` |
| `services` | the eleven parts, see below | `TypeOK`, `StoreIsTrue`, `CapabilitiesHeld`, `PrefsTrue`, `PluginSettles`, `FollowersAreTold`, `FilesWhole`, `DesktopServed`, `ProjectsKept` |
| `dagent_stranded` | violated | `QueuesDrained` |
| `registry_driver` | violated | `OneDriver` |
| `registry_retire` | violated, fair | `DetachRetires` |
| `sandbox_reuse` | violated by one request | `ReusedBoxExists` |
| `timeline_output` | violated by two chunks of output | `SameOutput` |

*Why the bounds are enough.* With a log of two and a channel of one, five events
evict, drop, and move the buffer past a resume point several times over; a
second log length or a second slot only postpones the same cases, and the proofs
cover every length. Two browsers are needed only where one could disturb the
other (`close` and the subscriber set). Two senders are what a race for
`dispatchMu` needs; three messages start a turn, fill a queue and are refused by
it. A chat that is being closed gets two in the run (`FewMessages`), any number in the
proofs. The timeline's turn drops an item that comes back, clamps a preview and is
aborted in a confirmation. Two messages are a turn that is aborted late and its
successor; in the fake chat one of them may be the follow-up that the settled turn sends
beside an abort, a close, which aborts it first, or a configuration. An abort and a
configuration share nothing but the lock and do not meet there. Two opens race for a
session or for the registry; one turn is the last turn of a draining server, the case in
which beginDrain and the pump must not both look away. Three opens of one session are
one that has a chat, one that closes and one that comes in between; another session
shares nothing with it but the lock.

The parts of `services`:

| Part | Instance | Why |
|---|---|---|
| store | 2 callers, 2 operations, 2 repeats, log of 1 | the second operation prunes the first, a repeat overtakes, waits or is late, a caller gives up |
| capabilities | 2 chats, 1 location, 2 workspaces, 4 ticks | two requests claim one location, two opens race for one session, every lifetime passes |
| prefs | 3 requests, 2 sessions of which 1 is remembered, 2 models, 1 crash or failed save | two requests overlap, a third comes after, the oldest session is pruned |
| plugins | 2 requests beside the ticker, 2 revisions, 1 fault | every pair of operations races, and a reload replaces a running backend |
| remote | 3 changes, 3 connections, channels of 2 and 1 | a change is lost, the stream breaks twice, and the host settles |
| feed | log of 2, channel of 1, 5 events, 2 breaks, 1 restart | trimmed past the resume point, dropped, restarted with smaller numbers |
| cache | 1 browser, log, channel and wire of 1, 2 events, 2 snapshots | two snapshots arrive in either order beside the stream; the browser leaves with one of them, or with a batch of events, on its way; a connection ends when it leaves, `event_log` loses some |
| attachments | 2 chats, 2 files, 2 sends, 1 change of chat or disposal, requests that fail or lose their answer | the same files are sent twice, one is deleted meanwhile, or goes with its chat |
| watch | 2 directories, 4 changes | a directory comes, goes and comes back in one walk |
| projects | 3 paths of which 2 are kept, 2 folders, 4 requests, 1 failed save or read, 1 change of a directory, restarts | a project is pushed out, removed, linked to another or gone while its folder is saved |
| desktop | 3 launches, 1 turn, 1 crash | a desktop quits at any point, its server is reclaimed, left or found dead by the next |

*Fairness.* Goroutines that can run do run, frames and timers fire, and a stream
whose context is cancelled ends. A browser that is disconnected reconnects
because `useChat` always sets another timer. Nothing is assumed about users,
about the network, or about a turn ending by itself, except in
`SettledTurnsRetire` and `DetachRetires`, which are about what follows when turns
end (the comment on `Retire` says "and all running turns have settled"). `mux`
assumes that the goroutines of both ends run and that a program reads what it holds;
nobody need dial, write or close. `services` assumes nothing: where one of its parts
must settle, the property speaks of the states in which nothing is left to do.

`FollowersAreTold` joins the parts in which somebody follows a stream of changes
(remote, feed, watch) or comes back to one (cache).

## Findings

* **Stranded messages** (`QueuesDrained`, `chat.go:481`): a message queued after
  the runtime's last look, before `settle`, waits in an idle chat for the next
  turn. The comment in `settle` says it confirms the queues are drained.
* **Two drivers** (`OneDriver`, `server.go:380`): a chat leaves the registry before
  its runtime is closed and nobody waits for its turn, so that the reopened
  session may be driven twice.
* **No retirement** (`DetachRetires`, `handlers_chats.go:283`): a chat that is being
  opened when the desktop detaches stays, idle, and so does the server.
* **Reuse of a removed sandbox** (`ReusedBoxExists`, `adapter.go:337`): replacing a
  sandbox of the legacy transport removes it, and the resume that follows only
  execs into it, which creates nothing. The record is current by then, so that the
  session cannot be resumed until the gateway's authentication changes.
* **Lost output** (`SameOutput`, `chat.go:353`): the server keeps the latest chunk of
  a running tool's output, the browser appends every chunk. After two chunks a
  reconnect shows less than before, until the tool ends.

### What was seen

What follows has no run of its own. The models reach most of it, and a property that
would be broken names it as an exception; a few points come from reading the code
beside them. Where a document says otherwise, it is named.

* *Runtime.* `publishRun` reads the run state under the lock and emits it after, so
  that the older of two reads may be emitted last; `emit` drops an event at a full
  channel, the end of a turn included. Either way the server's copy is wrong until the
  next turn. `Abort` does not clear the queues its comment says it clears; `Send` does
  not look at `closed` again when it starts a turn; overlapping `refreshQueue` calls
  may store in the wrong order.
* *Opening.* A browser that attaches before `hydrate` has finished gets an empty
  snapshot; a drain may take the copy of the run state for idle when a turn has just
  started.
* *Timeline.* The cost of a message reaches the server's copy only, summaries the
  browser's only. A preview that was clamped is clamped again, with another byte
  count, by a later update without output. An item that was dropped to make room comes
  back without its arguments. The one `Resume(reject)` at the iteration limit may come
  before the runtime listens, or a stale approval may answer for it. A reopened
  history shows an unfinished tool as a success.
* *Sandboxes.* A chat that closes stops its sandbox after another open has started
  it again, or closes the connection that the other has just taken from the pool (an
  opening counts only once it is registered). A connection that is not in the pool when
  its runner refuses to resume a chat is closed by nobody (`Left`): it ends with its
  sandbox, unless `sbx stop` fails or, after the end of the adapter, is not even run, and
  the next open then puts a second runner into that sandbox (`adapter.go:227`, `466`).
  `OneRunner` excepts that runner by name.
  A sandbox whose exec failed runs on.
* *Multiplexer.* Two readers that both have to write a reset into a full pipe wait
  for each other for ever (`MutualReset`); a process that dies at a frame's end looks
  like one that has closed the pipe.
* *Store.* An operation whose caller has given up may be applied later than the next
  one.
* *Capabilities.* A launch is used by one process at a time, and again after it.
* *Preferences.* When requests about tools overlap, or a chat is being opened, the
  live chats may be left with another set of tools than the preferences, although
  `handlers_chat_options.go` says they receive the same; of two overlapping
  `handleConfig` the older may be remembered; `Remember` may give the default a
  thinking level that its model does not have; a refused level leaves its model
  unremembered; a live chat whose preference the limit has pushed out and that is then
  reconfigured in part is remembered without the other part (`forgotten`); a file of
  more than 1 MiB is ignored at the next start; times are compared as text of varying
  length.
* *Plugins.* `Shutdown` closes the backends before the HTTP server, so that a request
  may start one that is left behind, and a chat may be opened after the chats were
  listed. A start that races a disable may win. A disable whose save fails has
  stopped the plugin all the same. The webhook's token is read and written in two steps.
* *Remote stream.* After a break the run state is read again and the transcript is
  not: events that were taken and not written are lost. An old handler may take one
  more event. Each snapshot overwrites `chat.run`, one that failed with nothing
  (`adapter.go:240`); nobody on the host reads it, and the model leaves it out. The
  stream of a chat that is gone is retried for ever.
* *Feeds.* The plugin handler does not look at the `Last-Event-ID` header, although
  `docs/plugins.md` says a reconnecting `EventSource` sends it; a managed client that has
  seen nothing yet is not told what it missed; after a restart a number of the earlier
  server may be in the new log by chance.
* *Attachments.* The list belongs to the window and not to the chat: after a change
  of chat its files are unknown to the other one, and those left behind use up the
  limit. A batch of which one upload fails leaves the others there unlisted; a message
  that the runtime refuses loses its files; files that are added while a message is
  sent leave the list with it. A removal that fails is not noticed
  (`useDashboard.ts:512`) and leaves the upload there unlisted; a message whose answer
  is lost leaves its files listed, and a chat that is disposed of (`chat.go:468`) those
  that it no longer has. `Listed` holds until one of these has happened.
* *Projects.* An opening that could not be saved is accepted and only logged. A project
  that the limit has pushed out of the list stays in its folder, and every later change
  of the folders is refused, because it names a project that is not listed, until the
  server restarts. A removal that could not be saved is in memory, so that a repeated
  request succeeds without writing and the next start brings the project back. A history
  that cannot be read or exceeds 64 KiB is ignored at the start and overwritten by the
  next save.
* *Fake chat.* A settled turn sends its follow-up after it has unlocked (`fake.go:608`).
  When another message has started a turn in between, the follow-up is queued as a
  steering message, which that turn drops; when that turn is stopping, it is refused and
  its error ignored. The comment at `fake.go:585` says follow-ups become the next turn's
  prompt. The follow-ups that are still queued are not shown once the next turn
  has started, and the idle status of a settled turn may be emitted after the first
  events of the next.
* *Watcher.* What changes between the walk at the start and the first revision is
  published by no event of its own, and events that never stop postpone the
  publication for ever.
* *Desktop.* A desktop that quits before it has a token detaches without effect, and
  the server it has started stays; so does a server that the application or its page
  asks for a bootstrap while the application quits. A bootstrap that comes after the
  retirement is answered by a server about to end. Two servers that start over an
  abandoned socket may each find it dead, and the second then removes the first one's
  live socket (`LiveIsNotRemoved`, which `listenUnix` claims); the `os.Remove` at the end
  of `run` may remove a successor's in the same way.

## Proofs

Seventeen modules are proved about as well as checked, for every value of their constants
and from the named assumptions on them alone. The bounds on what users do (messages,
opens, faults) are constants too, so that a theorem holds however large they are. The
assumptions say little: bounds are natural numbers, a limit that the code sets to a
positive number is not 0 (`maxSessionPreferences`, `maxHints`), a model has a thinking
level, and no name is also the value for none.

| Module | Theorems (property) |
|---|---|
| `EventLogProofs` | `TypeCorrect` (`TypeOK`), `ViewCorrect` (`ViewIsPrefix`), `LogCorrect` (`LogIsContiguous`), `ClosedViewCorrect` (`ClosedViewIsComplete`), `SubscriberCorrect` (`NoGhostSubscriber`), `NeverGoesBack` (`NeverBack`), `FeedImplemented` (`FeedSpec`), `CacheCorrect` (`CacheIsPrefix`, the cache's part of `FollowersAreTold`) |
| `DagentChatProofs` | `TypeCorrect` (`TypeOK`), `StreamsAreOne` (`OneStream`), `MessagesArrive` (`EveryMessageOnce`), `CancelHitsItsTurn` (`CancelledIsStopping`), `IdleIsQuiet`, `KeepsContract` (`ContractKept`) |
| `FakeChatProofs` | `TypeCorrect` (`TypeOK`), `KeepsContract` (`ContractKept`), `ShownInOrder` (`EventsInOrder`) |
| `ChatRegistryProofs` | `TypeCorrect` (`TypeOK`), `MapsAgree` (`RegistryConsistent`), `NoOrphans` (`NoOrphanRuntime`), `FoundIsLive`, `StaysGone` |
| `SandboxProofs` | `TypeCorrect` (`TypeOK`), `CountsCorrect` (`ClaimsAreCounted`), `RunnerIsOne` (`OneRunner`), `RemovalIsSafe` (`NeverRemovedInUse`) |
| `StdioMuxProofs` | `TypeCorrect` (`TypeOK`), `TableSwept` (`TableIsSwept`), `StreamsArrive` (`StreamsAreQueues`) |
| `ServicesProofs` | `StoreServed` (`StoreIsTrue`), `CapabilitiesOwned` (`CapabilitiesHeld`), `FilesAreWhole` (`FilesWhole`), `PluginsSettle` (`PluginSettles`), `DesktopsServed` (`DesktopServed`), `PreferencesTrue` (`PrefsTrue`), `ProjectsStay` (`ProjectsKept`), `FollowersKnow` (`FollowersAreTold`) |

None of the properties is inductive; each module has a strengthening `IInv` (one per
part in `ServicesProofs`), which TLC finds invariant on the instance of the module's
run. A proof has one lemma per action, or per part of the invariant that several actions
disturb, and one step per conjunct.

*Event log.* Whether the next message may be reduced depends on what is still on its
way. `IInv` follows an event along that way - still to be published, in the channel, in
the rest of a replay, in the inbox - and says that each is preceded there by one that
*covers* the number before it (`Covers`, `Linked`), that whatever is on the way is true
of the timeline (`Genuine`, `Truthful`), and that the log is the last part of the
history. The refinement of `OrderedFeed` follows: a `Publish` maps to `Record`, a
`Reduce` to `Reveal` or a stutter, everything else to a stutter.

*Cache.* A browser that leaves keeps what it has reduced, and a snapshot may replace that
by something older. `CacheInv` adds to `IInv` that every cached state and every snapshot
on its way was the state of the chat at some moment (`TrueState`), and that nothing is on
its way to a browser that shows another chat. `IInv` itself had to be weakened for it: a
handler asks for what follows the browser's number only while it is looking that number
up, because an older snapshot shown afterwards lowers it.

*docker-agent chat.* What drives the session changes hands: a Send that found the chat
idle starts a turn and hands it to a run loop, which gives it back in `settle`.
`BusyInv` follows that baton: one goroutine at most has it, its turn is the one
`chat.cancel` cancels, and the run is not idle while anybody has it. `DispatchInv` (who
is inside Send holds `dispatchMu`) makes starting safe, `CancelInv` says which turns a
late cancel may still hit, `BoundInv` that there is a message for every turn. For the
contract two more facts are carried along: the queues and the session have no message
in common (`Distinct`), and only a closed chat has a turn of an earlier generation
(`Current`). With them `StartTurn` maps to `Begin`, `Abort` to `Stop`, `SettleIdle` to
`Settle` and, of a closed chat, `SettleStale` to `Leave`; `Enqueue` maps to `Accept`,
and `AddMessage`, `TakeSteer` and `TakeFollowUp` to `Deliver`; what only locks, reads,
reports or pumps maps to a stutter.

*The fake adapter's chat.* The same baton, passed differently: the goroutine that starts
a turn launches a script, which gives the session back in `settle` and only then
becomes a sender itself. `BusyInv` says that what drives the session is alone and of
the latest turn; hence the comparison of generations in `settle` never finds another
turn (`NeverStale`), and `Stale` is a guard that nothing needs. `OrderInv` ties the last
item shown to the place where that goroutine stands, from which `EventsInOrder`
follows step by step. `PlaceInv` keeps every accepted message in one of five places -
the two queues, the session, what was given up, and the script that hands a follow-up
on (`Carried`, which `CarryInv` confines to the way from `settle` to the session). For
the contract `Refuse` maps to `Drop`, `Queue` to `Accept` or, of a follow-up sent again,
to a stutter, `StartTurn` to `Begin`, `AddItem` to `Deliver`, `Settled` to `Settle`,
`Abort` to `Stop`; what emits, plays or configures maps to a stutter.

*Registry.* The two maps say nothing of the requests between two steps of `openChat`.
`RequestInv` ties the label of a request to its runtime and to how far its disposal
has got, `RegisteredIsLive` says that what is registered is past `register`, runs, and
is nobody's to close yet; `remove` hands a chat out once because it is the only way
from the one to the other. `FoundIsLive` and `StaysGone` follow: a lookup never returns
a closed runtime, and no chat comes back.

*Sandboxes.* What a request may do to the pool depends on what it found there some
steps earlier. `RequestInv` says what is still true of it, because `sessionOps` is held
in between, and that a chat that closes without that lock only ever takes a connection
out; `CountInv` counts the claims of a sandbox as a finite set. `RunnerInv` follows an
open runner from its exec into the pool, out of it, or to where a refused resume leaves
it; whoever is none of the last two is alone in the pool or about to enter it.
`NeverRemovedInUse` then has three cases, one for each reason `OpenChat` has to remove a
sandbox.

*Multiplexer.* A unit goes from a call of `writeFrame` through the pipe and the buffer of
the other end to its reader. The numbers that the buffer and behind it the pipe carry
begin where the reader is and end where the writer is (`Chain`, in `DataInv`), as long
as the stream is alive at the reading end. That needs the life of an id: nothing is
known of it before its open frame (`OpenInv`, `FreshInv`), and its close frame is the
last (`FinalInv`, `EndInv`). `SweepInv` says who sweeps a stream that both ends have
closed. The refinement of `StreamPairs` takes each action apart in the same way.

*The small parts.* A step of `MC_Services` is one of one part, and the others stay
(`OnePart`), so that each part has an invariant of its own, over its own variables.

* `StoreInv`: the runner starts one operation after the other, and whoever waits for an
  answer has the mutex (`OneAtATime`); the host's log names each operation that was begun
  once, those at its front up to `cut` have left the map, and it is cut only while
  `MaxLog` entries remain (`LogTrue`); an operation has an outcome as soon as its handler
  has run, and every answer on its way carries it (`OutcomesTrue`). A repetition that is
  not older than the log is long (`Resend` and the network keep no older ones) therefore
  finds its entry, and waits for that outcome or gets it.
* `CapInv`: what a chat holds - a reservation, a context, a launch - follows from the
  place its request has reached, and a location that is unspent is nobody's. The exits of
  `openChat` and `disposeChat` are cases of one lemma (`ChatStep`).
* `FileInv`: a file is in one place, in a batch (when it has been stored, with the
  batch's chat as well, unless that was disposed of), with a chat, or with the one send
  that has taken it (`FilesApart`); until something strays, the browser's list and the
  chat's differ by what is on its way (`Accounted`).
* `PlugInv`: what is left of the ticker's pass determines what it has found so far, and
  undisturbed that is what the operator wants (`TickerPass`); a request that runs alone
  never reaches the step that starts a plugin unless it has found or made it enabled,
  nor leaves the step that disables one without the one that stops it next (`Ordered`,
  `Alone`).
* `DeskInv`: a desktop has the token of the one server that has answered it
  (`OneBootstrap`), a server that was reclaimed does not drain (`Reclaimed`), and one
  that serves is attended to, is going to retire, or was never told (`Owned`); unless two
  were started beside each other one is alive (`OneAlive`), which is why its socket file
  is its own.
* `PrefsInv`: a request that has changed memory says, by the step it has reached, what is
  still to be done: write the file, hand the set of tools to these chats (`ToolsAgree`),
  open a chat with that choice (`OpeningAgrees`), remember what a live one was configured
  with (`LiveAgrees`). The set `since` of the states since the last save is what a file
  may hold; a write that fails or is cut leaves the file with one of them.
* `ProjectsInv`: the list and the file are sound separately (`FileSound`), so that a restart
  may load the one in place of the other; a removal and a resolution keep a folder's
  projects apart, because each project has one canonical path. What could not be saved
  is kept by project (`unsaved`), so that all others are the same in memory and file
  (`ProjectsAgree`).
* `RemoteInv`: the last change is the last of what is on its way - the runner's channel,
  the connection, what the host holds - or in the snapshot, or its event was lost
  (`Reached`).
* `FeedInv`: the dashboard has fetched everything, or something to come will make it fetch
  (`DashboardFollows`); for a plugin's client the frames and after them the channel carry
  consecutive numbers from the one it waits for, or a gap stands before them
  (`PluginFollows`).
* `CacheInv` of `EventLogProofs`, which `ServicesProofs` instantiates for the browsers, the
  log and the channel of its part (`Proved`); the two instances are of one module
  (`SameChat`, `SameServe`, `SameBrowser`, `SameVisit`).
* `WatchInv`: a directory without a watch is still to be walked, and a catalogue that is
  out of date is read once more.

### Only model-checked

* Liveness: `EveryEventArrives`, `AbortSettles`, `SettledTurnsRetire`, `RunnersEnd`,
  `DataArrives`, and `StopsSettle` of `ChatContract`, for `FakeChat` in `AbortSettles`.
  They need fairness and ENABLED, which the provers do not reach.
* `TypeOK` of `MC_Services`: the proofs carry the types they need (`StoreTyped`,
  `CapTyped`, ..., `FeedTyped`), which are weaker in the numbers that only a bound limits.
* `BrowserShowsTruth`: the reducers of `Timeline` fold over a chat's items.
* The properties that are violated.

## Open

`BrowserShowsTruth` is the safety property without a proof: it needs an invariant that
relates the two item lists of `Timeline` event by event, with reducers that do not fold.

## Not modelled

* Presentation: components, tabs, sidebars, menus, windows, transcription.
* Parsing, formatting and validation: manifests and OCI packages, the
  containment of paths, MIME types, HTTP headers, the comparison of tokens, command
  lines, generated types. They keep no state, and what they accept or refuse is a choice
  in the models.
* The hybrid adapter: it looks up a session's target and calls one of two adapters.
* The fake adapter's list of sessions and its demonstration data.
* docker-agent, SQLite, `sbx`, fsnotify and the browser: external, modelled where the
  code in `src/` depends on what they may do.
* Configuration, titles and session rows of a chat, and the forwarding of single
  requests to a runner: reads and writes of one value.
* `Shutdown` beside requests that are still served is one step where it occurs; what
  that leaves behind is listed above.

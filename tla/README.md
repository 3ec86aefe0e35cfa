# A verification project for yaya

yaya is an agent that runs as one asyncio process: a *kernel* (event bus, plugin
registry, agent loop, tool dispatcher, approvals, sessions, configuration) and
*plugins* (strategies, LLM providers, tools, memory, adapters) that talk only
through the bus, with a browser tab at the other end of a socket. This directory
holds TLA+ models of both, the TLC configurations that check them, and theorems
that TLAPS checks. Paths below are relative to `src/yaya/` unless they begin with
`docs/` or `specs/`.

The kernel runs on one event loop, so a step of a model is a stretch of code
between two `await`s that may suspend: whatever happens between two such points
is one action, and every action may be followed by any other task's. Threads
(the SQLite executors), child processes, other processes and the browser take
steps of their own.

## 1. The system

| part | state it keeps | operations | talks to |
|---|---|---|---|
| event bus (`kernel/bus.py`) | subscriptions per kind; a queue and a worker task per session; the closed flag | `subscribe`, `unsubscribe`, `publish`, the drain worker, `close` | everybody; it calls handlers under a 30 s timeout and publishes `plugin.error` for those that fail |
| agent loop (`kernel/loop.py`) | the current turn of each session; a table of open requests | user message, interrupt, the turn task (strategy, memory, LLM, tool), deltas, `stop` | publishes requests, is resolved by responses on the same bus; reads the session tape |
| tool dispatcher (`kernel/tool.py`) | the table of tools (process wide) | `dispatch` on `tool.call.request`; `register_tool`, `unregister_tool` | asks the approval runtime, runs the tool, publishes `tool.call.result` or `tool.error` |
| approval runtime (`kernel/approval.py`) | `_pending` futures, an allowlist per session | `request`, the `approval.response` handler, `stop` | the dispatcher awaits it; an adapter answers |
| plugin registry (`kernel/registry.py`) | records with status, failure counters, the load order, unload tasks | `start`, `install`, `remove`, `plugin.error` accounting, threshold unload, `stop`, migration and seeding | calls `on_load`/`on_unload`, subscribes `on_event` to the bus |
| session store (`kernel/session.py`) | append-only tapes, anchors, cached ids | open, append, rename, reset, fork, archive, close | persister, loop, compaction, web API, CLI |
| persister (`kernel/session_persister.py`) | a cache of open sessions | mirrors every public event of a session | subscribes to the bus, writes the store |
| compaction (`kernel/compaction.py`, `tape_context.py`) | tasks in flight, attempts, disabled sessions | trigger on every event, summarise, append an anchor, retry, give up, stop | reads and writes the store, publishes on the kernel session |
| session context (`kernel/session_context.py`) | connections, their locks and heartbeats | attach with replay, fan-out, reap, close | bus, store |
| config store (`kernel/config_store.py`), providers | a SQLite table and its cache | set, unset, views, migration | registry, web API, CLI, plugins |
| `strategy_react` | none; it decides from the messages of the turn | `on_event` (decide) | loop, config store |
| `llm_openai`, `llm_echo` | clients per provider instance; the stream filter of a call | `on_event` (call, `config.updated`) | config store, network |
| `memory_sqlite` | one connection, one thread, a queue of jobs | load, query, write, unload | loop |
| `tool_bash`, `mcp_bridge`, `agent_tool` | child processes; clients with pending ids; child sessions | run, boot, close, unload | bus, dispatcher, store |
| web adapter (`plugins/web/`) | sockets of sessions | socket handler, `on_event`, HTTP API | bus, store, config store, registry |
| web UI (`plugins/web/src/`) | the shown chat, its socket and send queue | switch, resume, reconnect, live frames | web adapter |
| commands (`cli/`) | none | `serve` starts and stops the kernel; `session` works on the files | all of the above |

What is hard here: queues and workers that come and go; handlers that publish while
they are being delivered to; a turn that is cancelled between any two awaits; answers
that arrive after their question was given up; two timeouts on the same wait, set
independently of each other; `plugin.error` events that count failures long after they happened;
a task that reads a tape, waits, and appends; two processes on one tape; a cache that is
written after its database; tags cut by chunk boundaries; a shutdown that stops
the parts one by one while the others still run; a browser that switches sessions faster than
the answers come. `PROJECT.json` lists these hazards at their lines; the properties are for them.

What makes each part correct:

- **bus**: an accepted event is delivered once, in publish order, by one worker per session;
  `publish` and `close` return.
- **loop**: one active turn per session; each answer goes to the request it is for; a turn ends, and ends
  with one terminal event; no text arrives behind it; tools run what the model wrote.
- **approvals**: nothing gated runs without its user's consent; a question is answered or withdrawn,
  and its table entry goes away, unless the bus cut the call, and then an answer or the shutdown still finds it; nobody waits
  after the shutdown.
- **registry**: a loaded plugin is subscribed and known, or neither; it is unloaded at most once, in reverse
  order at the end; terminal statuses are final.
- **sessions**: a tape tells the conversation in order; a message reaches the model once; nothing said is
  lost by an archive, a restart or a command; what is written under an id is read under it; a connection hears
  every event, in order; a reload shows what was shown.
- **configuration**: cache and database agree on a key nobody writes; clients follow the rows; a boot
  seeds the whole instance or none.
- **plugins**: reasoning never reaches the user; a call returns its own answer; children, tools and
  subscriptions do not outlive their owner; an acknowledged write is found.
- **serve and the tab**: a message typed is in one place, and on the tape once heard; nothing outlives the shutdown; the tab
  shows the session clicked last and sends to it.

## 2. Modules

| module | models | how much of it |
|---|---|---|
| `EventBus` (+ `MCEventBus`) | `kernel/bus.py` | whole file |
| `SessionFifo` | what `bus.py` promises, without queues and workers | the abstract specification of `EventBus` |
| `Positions` | list comprehensions of the Python code, as what a sequence has at some positions | two operators for `SessionTape` and `SessionContext` |
| `AgentLoop` | `kernel/loop.py`, one channel of the bus, and what plugins may answer | whole file but the texts |
| `ReactTurn` | `strategy_react`, the messages of a turn in `loop.py` | decisions, nudges, provider choice, anchor |
| `Approval` | `kernel/approval.py`, `dispatch` of `kernel/tool.py` | all but argument validation |
| `MCTurns` | – | one run of `Approval` and `LlmStream`, beside an `AgentLoop` that stands still |
| `MCTurnsProofs` | theorems about `AgentLoop`, `Approval` and `LlmStream` | 11 theorems |
| `Registry` | `kernel/registry.py` | load, failures, install, remove, stop |
| `RegistryProofs` | theorems about `Registry` | 5 theorems |
| `SessionTape` | persister, compaction, `tape_context.py`, history and stamp of `loop.py` | one session, without texts |
| `SessionTapeProofs` | theorems about `SessionTape` | 5 theorems |
| `SessionContext` | `kernel/session_context.py` | one session, the manager included |
| `SessionStore` | `kernel/session.py` on files, with the session routes and commands | two processes; forks left out |
| `Transcript` | `chat-shell.ts`, `api.py`, `tape_context.py`, `loop.py` as tellers of one conversation | live tab, tape, reload, model |
| `SqliteMemory` | `memory_sqlite` | whole plugin |
| `ConfigStore` | `config_store.py`, `providers.py`, seeding in `registry.py`, provider routes, clients of `llm_openai` | one server, its crashes and restarts |
| `ConfigProofs` | theorems about `ConfigStore` | 4 theorems |
| `LlmStream` | the streamed call of `llm_openai` | filter, deltas, response, errors |
| `McpBridge` | `mcp_bridge` | client, reader, boots, calls, unload |
| `BridgeProofs` | theorems about `McpBridge` | 2 theorems |
| `AgentTool` | `agent_tool` | whole plugin, without nesting |
| `BashTool` | `tool_bash` | one call per session |
| `Serve` | `cli/commands/serve.py` | boot and shutdown with a browser and a turn |
| `WebChat` | `web/plugin.py`, `chat-shell.ts`, `ws-client.ts` | one tab |
| `MCLive` | – | the liveness run: bus, registry |
| `MCLiveProofs` | theorems about `EventBus`, and those of `RegistryProofs` in the sum | 8 theorems |
| `MCSessions` | – | one run of `SessionTape`, `SessionContext`, `SessionStore`, `Transcript`, `SqliteMemory` |
| `MCSessionsProofs` | theorems about `SessionContext` and `SessionStore`, and those of `SessionTapeProofs` in the sum | 9 theorems |
| `MCServices` | – | one run of `Registry`, `ConfigStore`, `McpBridge` (twice), `AgentTool`, `BashTool`, `ReactTurn`, `Serve`, `WebChat` |
| `MCServicesProofs` | theorems about `BashTool`, `AgentTool`, `ReactTurn`, `Serve`, `WebChat`, and those of `RegistryProofs`, `ConfigProofs`, `BridgeProofs` in the sum | 9 theorems |

`MCSessions` and `MCServices` are sums, not compositions: a behaviour picks one component
(`part`) and is a behaviour of that component alone, on shared variables so that a state stays small. `MCTurns` is one too (`side`),
of the gate and the stream, each with its own variables.
An invariant of such a run is the conjunction, over the parts, of the invariants the components' modules
state and name. What components share is modelled inside a module instead: `SessionTape` has the persister, the
turn and the compaction on one tape, `ConfigStore` the store, the registry's seeding, the web routes and the
clients, `Serve` all parts of the kernel in outline, `Transcript` the browser, the tape and the loop,
`SessionStore` two processes. The channel in `AgentLoop` and `Serve` and the one worker per
session in `Approval` and `AgentTool` are what `EventBus` is shown to implement (`SessionFifo`).

Definitions named like `PublishUnguarded` or `CheckAgain` that precede an action are the same action with
a plausible mistake. `PROJECT.json` names, for each property, the one that breaks it; no specification uses them.

### EventBus, SessionFifo

State: `subs` (the subscriptions, as in `_subs`), per session a queue and a worker, the closers and their
close tokens. A worker's `get` that finds nothing releases the session in the same step, as `_drain` does between two awaits;
`publish` looks the queue up and puts into it in one step, because nothing in between suspends. A handler may
publish (without waiting, since it is inside a worker), return, fail (the bus then
publishes `plugin.error` on the kernel session, except for handlers of the kernel), or let
`CancelledError` out (only the subscribers in `CancelSubs`), which ends the worker with what is
queued behind. A publisher outside a worker waits until its event was handled by all, and may be cancelled.
`close` puts a token in every queue and waits for the workers; two closers may overlap. Payloads are serial
numbers.

`SessionFifo` knows of each session only how many events were accepted and drawn, and whether the drawn one
is still with its subscribers. `Fifo == INSTANCE SessionFifo WITH busy <- Busy, Lossy <- ...` in `EventBus` maps a
live worker with an event in its hand to a busy session; the other variables have the same names.

### AgentLoop, ReactTurn

The turn task of each user message is a program counter over `_run_turn`, with one action per await; `_RequestTracker`
is the function from request ids to open futures. The conversation's session is one
channel (`chan`) that delivers in order. Plugins answer a request with any
answer its kind has, refuse, stay silent, stream deltas, or answer later (`LateEvent`, external). Timeouts may fire
whenever a request is open: the model does not compare durations. When a task ends its local state is
dropped. Bounds: the user messages (`MaxTurns`), the iterations (`max_iterations`), and
`MaxExtra`, which interrupts, deltas and late answers share.

`ReactTurn` has what `AgentLoop` leaves out: the contents. The model's replies are what `_parse_assistant` makes of them
(an action, a final answer, nonsense, nothing), `Recent` is the strategy's look at the last four messages, `Act` the loop's
reuse of `last_llm_text`, and `Configure` changes the active provider at any time.

### Approval

A call is dispatched when its session's worker is free, and is then gated, refused, ignored or run. `request` parks a future;
`_on_approval_response`, the runtime's timeout, the bus's handler timeout and `stop` compete for it. Time passes in
ticks counted per call, and a timer that is due fires before the next tick: the *order* of the two timeouts is thus
that of their values, not chance's. The runtime's is an argument of its constructor (`timeout_s`; the registry leaves it at 60 s,
tests pass less), so a behaviour begins with any of `ApprovalTimeouts`; the bus's is 30 s. Where the runtime's is not the shorter one,
the bus may cancel a call that is still asked: `Cut` names such calls. No cleanup of `request` runs for them, and the properties say exactly what is
left: `PendingIsAwaited` allows only their keys besides those somebody waits for, `PromptSettled` that their prompts are still in the table, where a
late answer (dropped, `accepted = "late"`) or `stop` settles them, `RefusalReported` that only they end without `tool.error`, and
`NoneWaitsAfterStop` that not even their keys are left then. With the shorter approval timeout there are none.
`stop` cancels the snapshot it took one by one, with a step of others between the publish and the
future it fails. A behaviour starts with the runtime installed because the only publisher of
`tool.call.request`, the loop, starts after the registry and stops before it.

### Registry

Tasks (`start`, one `install`, one `remove`) walk through discovery, `on_load`, pip and the bookkeeping
around them; handlers of loaded plugins succeed or fail, failures travel as `plugin.error` on the kernel channel and are
counted when delivered; an unload is claimed by whoever finds the threshold passed and is carried out by a task of its own; `stop` gathers
those and unloads the rest in reverse load order.

### SessionTape, SessionContext, SessionStore, Transcript, SqliteMemory

`SessionTape` is one session and one tape. The bus worker hands every event to the loop (user messages only), then to the
persister, then to the compaction manager; turn tasks load their history, stamp their provider anchor and publish; a
compaction task captures the window, waits for its summary, appends its anchor, or fails, backs off and gives up. `Rename`
is the web API's, `Shutdown` the stretch of `run_serve`'s `finally` from `compaction_manager.stop()` to
`session_store.close()`, in which nothing suspends.

In `SessionContext` the worker's program counter goes from persisting an event through the subscribers in between to one
send per connection; `got` is what a connection was sent, `owed` the entry from which it must hear everything, `missed`
what a fan-out killed by the bus's timeout did not send. Attaching is three steps (lookup, the awaited `store.open`, registration), so
two first attaches may make two contexts.

In `SessionStore` a tape name has a session and a level: `<<s, 0>>` is the id the session was made with, `<<s, k+1>>` the
hashed suffix under which the list shows the tape `<<s, k>>`; `Resolve` is the resolution of such ids. The server's store
calls do not suspend; a command is a process of its own and is interleaved with it, or killed, at every file access.

`Transcript` tells the same events to the tab (`live`), to the tape, and through `Hydrated(tape)` and `Projected(tape)`, `Selected(tape)`
to a reloaded tab and to the model. Frames, cards and pairings are folds of the tape, as in the code.

`SqliteMemory` separates the event loop's steps (submit, resume, be cancelled, unload) from those of the one thread of the executor;
`kept` is what was acknowledged, `seen` what was when a job was submitted.

### ConfigStore

A task (a web request or the boot) is a list of single-key writes; a write is queued, run by the database thread,
written to the cache when its coroutine resumes, and announced by `config.updated`, which the plugin handles later by
rebuilding one client. Values are versions of a key. `GoDown` keeps the database and loses the rest.

### LlmStream, McpBridge, AgentTool, BashTool

`LlmStream` has the model say its text piece by piece (`Say`, external) and feeds `_StreamThinkFilter` with it, cut in every way; `_step_inside` and
`_step_outside` are translated position by position, `_longest_partial_suffix` included. The tags are `<t>` and
`</t>`, three and four characters, so that a cut inside a tag has every shape the real ones have (a prefix of one, of
both, none) at a size TLC can enumerate. The reference, `Stripped`, says by positions what `_strip_reasoning_tags` leaves of the whole
text: a character is visible if it is in no tag that opens a span and in no span.

`McpBridge` has one client per attempt of a server: ids, `_pending`, the write lock, the reader task and the child. A
call is looked up, waits (its approval), writes, waits for its answer and may time out at both places; boots make two
requests of their own over the same client. The plugin's record of a server has no name of its own: `records` lists, oldest first, what
was booted and the tool name it registered, since `on_unload` goes through them in this order.

`AgentTool` runs in a bus worker or outside; its subscriptions see every child session's events, in order within a session; the budget,
the cancellation and the child's own end race.

`BashTool` counts ticks as `Approval` does: `wait_for(communicate)` and the bus's handler timeout have timers started at
different moments, and the older due one fires first.

### Serve, WebChat

`Serve` walks through `run_serve`, whose waiting places are `registry.start`, the wait for the signal, `loop.stop`,
`registry.stop` and `bus.close`; a browser connects, reconnects and types all along, a turn calls tools, the tape records.

`WebChat` is a tab: the shown session, the generation counter that invalidates requests under way, the banner about another
provider, the socket and the server's table of sockets. An event is a number within its session.

## 3. Runs

| run | what is checked | bounds | expected |
|---|---|---|---|
| `bus` | `TypeOK`, `OneWorkerPerSession`, `PublishOrder`, `ImplementsFifo` (refinement of `SessionFifo`) | 2 sessions, 2 events each, 3 subscribers (one may raise `CancelledError`, one is the kernel's), 2 publishers, 2 closers | pass |
| `live` | `NothingStranded`, `AwaitedIsHeld`, `CallsReturn` of the bus; `OrderlyUnload`, `StatusLadder`, `Ends` of the registry | bus: 1 publisher, 2 closers, no `CancelledError`; registry: 2 plugins, 3 failures, threshold 2, no requests | pass |
| `loop` | `TypeOK`, `OneActiveTurn`, `OwnAnswer`, `TurnEndsOnce` | 2 user messages, 2 iterations, 1 interrupt, delta or late answer | pass |
| `loop_live` | `TurnTerminates` | the same with 1 iteration | pass |
| `approval` | `TurnTypes`, `PendingIsAwaited`, `RunsOnlyApproved`, `PromptSettled`, `RefusalReported`, `NoneWaitsAfterStop`; `NeverLeaks` of the stream | 3 calls on 2 sessions with shared keys; handler timeout 2, approval timeout 1 or 4 (as shipped: 30 s and 60 s); every text of at most 5 pieces (tags and words), chunks of at most 4 characters | pass |
| `sessions` | see below | see below | pass |
| `services` | see below | see below | pass |
| `loop_tool_error` | `ToolErrorResolves` | one turn | **violation** |
| `approval_leak` | `UnansweredIsHandled` | approval timeout 2, handler timeout 1, as shipped (60 s and 30 s) | **violation** |
| `registry_overlap` | `NoOrphans` | install and remove may overlap | **violation** |
| `tape_forgets` | `NothingForgotten` | 2 turns, no upsets | **violation** |
| `think_leak` | `NeverLeaks` | 5 pieces, one of them a stray `<` | **violation** |

The parts of `sessions`:

| part | properties | bounds |
|---|---|---|
| `SessionTape` | `TapeTellsTheSession`, `RepresentedOnce`, `OwnMessageOnce`, `OneCompaction` (with `ToldOnce`) | 2 turns, 1 other event, threshold 2, 2 retries, 2 upsets (renames and failures) |
| `SessionContext` | `Hears` (with `Goodbye`), `InOrder` | 2 clients, 2 events, at most 2 connections, replay from the start or none |
| `SessionStore` | `NothingLost` (with `IdsIncrease`), `ReadsWhatItWrote`, `RowsOpenThemselves`, `BootstrapFirst` | 1 session with 2 levels of ids, 2 messages, 1 command, 2 upsets (archives, renames, restarts, killed commands) |
| `Transcript` | `ReloadShowsTheSame`, `HistoriesAgree`, `OwnResult`, under `ReadsWhatItWrote` | 2 turns of 2 calls, 1 delta, interrupt, foreign error, compaction or reload |
| `SqliteMemory` | `Remembers`, `OneUser`, under `ReadsWhatItWrote` | 2 sessions, 2 entries, k = 1, 4 jobs, restarts |

The parts of `services`:

| part | properties | bounds |
|---|---|---|
| `Registry` | `Accounted` (`NoOrphans`, `OneRowEach`), `StopLeavesNothing` | 2 plugins, 3 loads, 3 failures, threshold 2, install and remove one after the other |
| `ConfigStore` | `CacheTellsDb`, `ClientsFollow` (with `SeedsWhole`) | 2 instances, 2 requests, 1 crash |
| `McpBridge` | `BridgeAccounted` (`OwnAnswer`, `NobodyHangs`, `NothingLeft`, `NoneSilent`) | one server, 2 attempts, 2 calls; and two servers, 1 attempt, 1 call |
| `AgentTool` | `ChildAccounted` (with `ListenersGo`) | 2 spawns, 2 tools of which 1 is allowed, 1 tool call per child |
| `BashTool` | `ChildReaped`, under `ChildAccounted` | 2 calls; the tool's limit below the bus's, and equal as shipped |
| `ReactTurn` | `TurnAccounted` (`RunsWhatWasSaid`, `NudgedOnce`, `AnchorIsFirst`) | 6 iterations, 2 providers |
| `Serve` | `Served` (`StopLeavesNothing`, `TapeKnowsTheTurns`, `InOnePlace`), under `StopLeavesNothing` | 2 messages typed, 2 tool calls |
| `WebChat` | `ShowsWhatWasAsked` (`LastClickWins`, `OneTranscript`, `TypedWhereShown`) | 2 sessions, 2 events, 2 clicks, 3 sockets |

Why the bounds are enough: the hazards are races between two actors on one record, so two of each kind (two
sessions, two closers, two turns, two rivals for one unload, two requests on one key, two clicks) is where they begin, and
a third call, load or socket lets one of them be innocent. Counters reach their limits: the iterations, the failure
threshold, the retries, the connections, the k of a query, the ticks of both timers. Six replies are a nudge, its expiry and a second
nudge. Five pieces hold a whole span and a text on either side, and chunks of four characters cut
a tag at each of its places. The theorems of section 5 remove the bounds for the bus, the loop, the approvals, the registry, the
configuration, the session's tape, connections and files, the stream filter, the MCP bridge, the bash and agent tools, the strategy's turn,
`serve` and the tab.

The bus, the loop, the approvals and the stream are checked for deadlock as well. The other runs end when their bounded inputs are
used up and the component has stopped, so they say `CHECK_DEADLOCK FALSE`.

Properties worth a word:

- `Hears` speaks of the context the manager serves, and says what a connection has *heard*, not what was sent at some moment:
  from the entry its replay began at to the one before the event under way, nothing is missing. `InOrder` lets one
  event come twice: the one that was already on the tape, but not yet fanned out, when the connection attached.
- `NothingLost` and `ReadsWhatItWrote` exempt a session whose tape a command wrote while the server had it open, and
  `ReadsWhatItWrote` one that was archived under an open page. What happens then is told in section 4.
- `CacheTellsDb` exempts keys in `apart`: an `unset` that came while the first write of the key was on its way.
- `ReloadShowsTheSame` compares the messages and the tool cards of a tab with those of a reload at every moment, except for cards of calls
  that were announced and never made or answered late (`odd`), and knows that an envelope's brief is not on the tape.
- `TapeKnowsTheTurns` says that a message is heard by the loop and taped, or neither, at every stage of boot and shutdown.
- `ChildReaped` says that a child is alive after its request only if the bus cancelled the handler, and that as shipped the
  answer "timeout" is never given.

### Fairness

Stated in `EventBus`, `AgentLoop`, `Registry` and, restricted to the running part, in `MCLive`.

- bus: weak fairness for each worker step and for a handler's end. asyncio runs every ready task in FIFO order, and
  a handler is cancelled after 30 s (`bus.py:282`), so it ends. Nothing makes a publisher publish or a closer close.
- loop: weak fairness for delivery, for a turn's own steps and for its step timeout (`asyncio.wait_for`,
  `loop.py:870-891`). Plugins need not answer and no user has to act.
- registry: weak fairness for delivery, for tasks, unload tasks and `stop`. `on_unload` is assumed to return;
  the code awaits it without a timeout.

The other modules state safety only; what they promise eventually is bounded by the timeouts of the loop and the bus.

## 4. What disagrees

Findings (each a run with an expected violation):

1. **A refused tool call costs the whole turn** (`loop_tool_error`). The dispatcher reports each refusal
   with `tool.error` "so the caller's future resolves" (`kernel/tool.py:610-612`), but the loop subscribes to
   `tool.call.result` only, so the turn waits until its step timeout and ends in `kernel.error`.
2. **Nothing happens when an approval is not answered** (`approval_leak`, three findings). `docs/dev/plugin-protocol.md:563-570` says that
   after 60 s the runtime pops the future, publishes `approval.cancelled`, and the dispatcher `tool.error`; `kernel/AGENT.md:27` that
   `_pending` is popped on every exit. But `registry.py:304` installs the runtime with its 60 s, the bus cancels the dispatcher after 30 s, and the
   cancellation passes `except TimeoutError` and the dispatcher's handlers. `UnansweredIsHandled` asks for one of the three; the
   counterexample is a finished call with its id still in `_pending` (the first finding), its prompt neither answered nor withdrawn (the
   second), and without `tool.error` (the third). The adapter shows the prompt until its user answers it, too late, or `stop` runs.
3. **`remove` forgets a plugin that was loaded meanwhile** (`registry_overlap`). The record is looked up before pip
   runs; an `install` that ends in between leaves a subscribed plugin without a record.
4. **Compaction hides what it did not summarise** (`tape_forgets`). It summarises what is behind the last anchor of any kind,
   and every turn writes one; the new anchor hides everything before it. `kernel/AGENT.md:30` and
   `specs/kernel-compaction.spec:14-16` promise a summary in place of what is hidden.
5. **A stray `<` lets reasoning through** (`think_leak`). With the chunks `<b<thi` and `nk>secret</think>` the filter flushes
   the beginning of the tag with the stray `<` (`llm_openai/plugin.py:614`); lines 532-536 promise that no chunk boundary does.

Observations, read in the code or met as counterexamples while modelling, which no run states. Where a property
above has an exception, this is why.

Bus, loop, approvals, registry:

- A handler that raises `CancelledError` ends its session's worker (`bus.py:283`), and whoever awaits an event
  queued behind it waits for ever. The properties about delivery therefore exclude such handlers (`CancelSubs = {}`).
- An interrupt queues behind its session's events and does not withdraw requests the turn has published: a `tool.call.request`
  in the queue still runs (`specs/kernel-agent-loop.spec:42-44` reads otherwise).
- While the registry stops, the approval runtime is unregistered first; a gated call still queued then runs without asking
  (`tool.py:264`, `registry.py:354`). `RunsOnlyApproved` says so in its first disjunct.
- A prompt can be withdrawn twice, by its timeout and by `stop`, and a response is accepted while `stop` runs.
- Failures that were not consecutive reach the failure threshold: a success resets the counter at once
  (`registry.py:684`), a failure counts when its event is delivered (`registry.py:804`; `docs/dev/plugin-protocol.md:783-786` says consecutive).
- `remove` leaves the status at `loaded` while `on_unload` runs (`registry.py:509`), so a failure in that window may unload a second time.
  The run `live` therefore has no requests.
- "A trailing match is the only possible duplicate" (`loop.py:622`): the reply of a superseded turn can be persisted
  behind the next user message, which then appears twice in the history. `OwnMessageOnce` allows just that case.
- An empty LLM reply makes the loop keep `last_llm_text` (`loop.py:711`), and the strategy runs the previous reply's tool call again. The
  "second failure in a row" after which the strategy gives up need not be in a row: any nudge among the last four messages counts.
- At 1024 sessions in flight the oldest compaction record is evicted while its task runs (`compaction.py:456`).

Sessions:

- Session context: an event persisted before an attach and fanned out after it comes twice (`docs/dev/plugin-protocol.md:926` says no duplicates);
  `attached` may follow `detached` if a close or a reap falls into the replay; two first attaches make two contexts, and
  the first one's clients hear nothing more (`session_context.py:705`); a fan-out the bus times out skips those it had not reached.
- Session store: an archive under an open page splits the conversation over two tapes; a command that writes while the server has the tape open
  gives an entry id twice; two archives in one second share a name (`session.py:1125`).
- A tool that answers late takes, for `select_messages`, the place of the next call: it pairs by position and ignores
  `tool_call_id` (`tape_context.py:100`, `204-222`). Only `Session.context` uses it.
- Text that was streaming when a turn was interrupted is put in front of the next turn's bubble; cards of refused
  or timed-out calls stay "running" (`chat-shell.ts:533-535` says they do not); a reload loses an envelope's brief, because
  `session_persister.py:260-272` drops the envelope that `api.py:378-383` would replay.
- `memory_sqlite`: a write whose handler the bus cancels while it is queued is dropped silently; a failing open leaves the executor behind.

Configuration and plugins:

- An `unset` while the first write of its key is under way leaves cache and database apart (`config_store.py:321-328`);
  `yaya config set` in another process never reaches the server's cache.
- Instances: a `DELETE` beside a `PATCH` of the active one leaves a dangling active id; two `DELETE`s remove the last two instances; a `PATCH`
  beside a `DELETE` revives a row without its plugin.
- `mcp_bridge`: `ctx.config` is a `ConfigView` and `parse_mcp_config` takes only a `dict`, so the shipped program boots no server
  (`config` is `"unseen"` in the model's initial state as well); a call that times out while it waits to write keeps its
  `_pending` entry; a call looked up before `on_unload` and approved after it reaches a closed client (`plugin.py:128-132` says it cannot).
- `agent_tool`: the plugin's `session` is never set by `serve` (`serve.py:331`), so the shipped tool answers "not bound";
  a caller outside the bus that is cancelled while `subagent.started` is published leaks two subscriptions; a cancellation after
  `completed` also reports `failed`; the bus's 30 s cut the 300 s budget.
- `tool_bash`: its limit and the bus's are both 30 s, and the bus's timer starts first, so the child is neither killed nor
  reported (`tool_bash/plugin.py:9-10` says both).

Serve and the tab:

- The web adapter takes sockets while plugins load, before the loop listens: a message sent then is heard by nobody. `TapeKnowsTheTurns` counts it as lost.
- If `registry.start` raises, or `loop.stop` does, plugins stay loaded (`serve.py:296-302` says teardown always runs); the dispatcher's
  subscription is never removed; a result delivered after `persister.stop` leaves a tool call without one on the tape.
- A session whose last client left has its frames sent to all tabs; after Continue under the banner the frames come behind live messages of
  the old session; a message typed under it goes to the old session; the close event of an old socket clears the state of
  the new chat; a reconnecting fresh chat is a new session.

## 5. Proofs

Checked by TLAPS for every value of the constants that satisfies the modules' assumptions. `EventBus` and `AgentLoop`
assume theirs by name; the modules that only run inside another one name theirs `Parameters`, which their theorems take as a hypothesis
and which `MCTurns`, `MCLive`, `MCSessions` and `MCServices` assume, so that TLC evaluates it for every run. They say that bounds and timeouts
are naturals, that a threshold or a number of retries is positive, and that the sentinel `None` is no member of the sets beside it.

| module | theorems | invariant they rest on |
|---|---|---|
| `MCLiveProofs` | `TypeCorrectness`, `SingleWorker`, `InPublishOrder`, `NoneStranded`, `AwaitedHeld`, `Refinement` | `IInv` |
| | `LiveUnloadsAreOrderly`, `LiveStatusClimbs` | those of `RegistryProofs` |
| `MCTurnsProofs` | `LoopTypes`, `SessionHasOneTurn`, `AnswersMeetTheirRequests`, `TurnsEndOnce` | `LoopInv` |
| | `TurnTypeCorrectness`, `GatedRunsAreApproved`, `NoKeyLeaks`, `PromptsAreSettled`, `RefusalsAreReported`, `NobodyWaits` | `GateInv`, `PromptInv`, and `StreamTypes` for the types |
| | `StreamsNeverLeak` | `StreamInv` |
| `RegistryProofs` | `RegistryTypes`, `LoadsAreAccounted`, `StopUnloadsAll`, `UnloadsAreOrderly`, `StatusClimbs` | `RegInv`, `OrderInv` |
| `SessionTapeProofs` | `TapeKeepsItsTypes`, `TheTapeTells`, `MessagesAreRepresentedOnce`, `TurnsSeeTheirMessageOnce`, `CompactionsComeOneByOne` | `TapeInv` |
| `MCSessionsProofs` | `SessionsTapeTells`, `SessionsRepresentOnce`, `SessionsOwnMessageOnce`, `SessionsCompactOnce` | those of `SessionTapeProofs` |
| | `ConnectionsHear`, `ConnectionsHearInOrder` | `ContextInv` |
| | `SessionsLoseNothing`, `StoreReadsWhatItWrote` | `StoreInv` |
| | `SessionsKeepTheirTypes` | all of these, and `Room` |
| `ConfigProofs` | `CacheIsTheDatabase`, `ClientsAreCurrent`, `BootsSeedTheWhole` | `ConfigInv` |
| | `ConfigTypes` | `ConfigInv`, `ValuesInv` |
| `BridgeProofs` | `BridgeIsAccounted`, `BridgeTypes` | `BridgeInv` |
| `MCServicesProofs` | `ServicesLoadsAreAccounted`, `ServicesCacheIsTheDatabase`, `ServicesClientsAreCurrent`, `ServicesBridgesAreAccounted` | those of `RegistryProofs`, `ConfigProofs`, `BridgeProofs` |
| | `ChildrenAreAccounted`, `TurnsAreAccounted`, `StopsLeaveNothing` | `BashInv`, `AgentInv`, `ReactInv`, `ServeInv` with `InOnePlace` |
| | `ServicesTabShowsWhatWasAsked` | `ChatInv` |
| | `ServicesTypes` | all of these, and `EventsInv` |

Every proof has the same shape: the initial states satisfy the invariant, each action keeps it (one lemma or case per action, one
step per conjunct the action can disturb), and the invariant implies the property. Where the state is a table with a row per
call, turn or connection, a frame lemma says that a row keeps its part of the invariant when a step leaves the row alone
(`AgentFrame`, `Frame`), so that an action is looked at for one row only.

### The bus

No property is inductive alone: that a session has one worker
depends on the table never naming a queue that a worker is about to leave, and order depends on what each queue holds. The invariant
`IInv` is the conjunction of

- `TypeOK`;
- `Tables`: the session table and the live workers name each other (`TablesAgree`), a worker holds what its place in
  the drain loop says (`WorkerHolds`), and a queue holds exactly the events drawn + 1 .. accepted in this order, with
  close tokens behind them only (`QueueNumbers`);
- `TodoInv`: a running worker has a handler to call;
- `GatherInv`: what a closer waits for includes every live worker;
- `GotInv`: what the handlers got is what the workers drew, or less if some handler raises `CancelledError`;
- `WaitInv`: without such handlers, an awaited event is queued or in its worker's hand.

`NoneStranded` and `AwaitedHeld` are about buses without handlers that raise `CancelledError`.

`Refinement` is the theorem `Spec => ImplementsFifo`. `EnqueueBusy`, `ContinueMaps`, `GetMaps`, `ReturnsMaps`, `ReportsMaps`,
`CancelledMaps` and `PublishMaps` show, one operation each, which step of `SessionFifo` it is under the mapping: a publish is
an `Accept`, a worker's `get` is a `Begin` (or a stutter, when it finds its token), the last handler's end is
an `End`, with the publish of `plugin.error` if it failed, and a `CancelledError` let out is a `Drop`. They rest on `IInv`: that
the event a worker takes is number `drawn + 1` of its session is `QueueNumbers`, and that no other worker has the session is `TablesAgree`.

### Approvals

All theorems about the approvals hold for every set of approval timeouts and every handler timeout, whichever is the shorter one.
`GatedRunsAreApproved` and the types of the gate (in `TurnTypeCorrectness`) follow from `GateInv`
(`FutureInv`: a future holds a response only if the runtime accepted it, and a key in `_pending` was not answered; `AllowInv`: an
allowlist entry stems from an accepted `approve_for_session` of the same session and key). `NoKeyLeaks`,
`PromptsAreSettled`, `RefusalsAreReported` and `NobodyWaits` follow from `PromptInv`: a call that
is still asked is no older than either timeout, so that the bus can cancel it there only where `timeout_s >= HandlerTimeout`, which is
what makes it `Cut`; outside `stop` a key belongs to a call that waits or was cut; `stop` has every waiting call, and every key it did not withdraw,
still before it; a resolved future was answered, withdrawn, or is a cut call's whose key is still there. `CutStays` says that a cut call stays cut. Since
`Cut` contains `timeout_s >= HandlerTimeout`, the theorems say for a shorter approval timeout that no key leaks, every prompt is answered or withdrawn and
every refusal is reported; for the shipped one they say what remains of that, and finding 2 what does not.

### The stream

`StreamsNeverLeak` is about texts of any length, cut into chunks of any size, in which every `<` begins a tag (`"less" \notin Pieces`;
with a stray one `think_leak` refutes it, finding 5). `StreamInv` splits the text at `Taken`, as far as the filter has dealt with it. `HeldInv`:
the buffer is the rest of what has arrived, `inThink` is whether a span is open at `Taken`, and no tag the filter looks for (`</t>` inside, `<t>` outside)
reaches across it. That is why `_longest_partial_suffix` must keep the longest suffix and not any. `WaitInv`: between two chunks the
buffer is no longer than such a tag could be, so that `flush` has nothing visible to add. `ShownInv`: deltas and parts are what is visible up to `Taken`.
`NeverLeaks` follows because what is visible of a beginning of the text is a beginning of what is visible. What is visible is a set of positions; `VisibleRun`, `SpanOpens`, `HiddenRun` and
`SpanCloses` say how it goes on behind `Taken`, one lemma for each thing a step of the filter may meet, and `SpansStay` that a text that goes on does not change
what is visible of it already. The tags have three and four characters in the theorem too.

### The loop

`LoopInv` joins the properties with `ProgressInv` (two requests an iteration at most, a decision first, so that no request id is used
twice), `UnansweredInv` (a tracked request has no answer yet), `EndedInv` (how many terminal events a turn has published, by where
its task is), `UserInv` (a queued user message starts a turn that nobody has started) and `ContentInv` (a queued answer is one some plugin may
give, a queued terminal event has been published by its turn). `OwnAnswer` needs the first two because the loop recognises an answer by
its request id only.

### The registry

`RegInv` follows a load through its task: `Sound` says of each load what its status implies (subscribed or not, in the table or not,
in the load order or not), `OneAtATime` and `TaskInv` which task may be where, `LoadingInv`, `RecordsInv` and
`StopInv` what the tasks and `stop` hold. The theorems about accounting are for `Serial` registries, those whose requests do not
overlap a load (or which have none): with overlapping ones the run `registry_overlap` refutes them (finding 3).
`OrderInv` adds that `stop` goes through the load order from its end (`LastFirst`) and who has claimed an unload (`UnloadsInv`).
`UnloadsAreOrderly` and the action property `StatusClimbs` are for registries without requests, which is what the run `live` checks:
a `remove` leaves the status at `loaded` while `on_unload` runs, and with it both are false (section 4).

### The session's tape

`TapeInv` joins the properties with `EventsInv` (an event is in one place of the bus at most), `TurnsInv` (turns start in the order
of their messages, and the one that runs is the last that did), `EntriesInv` (what the kinds of entries carry), `OwnInv` (behind the message
of a turn that is about to read there are only replies of earlier turns), `SummariesInv` and `CapturedInv` (a summary is of messages between the
compaction before it and itself; what a task has captured is still in the window) and `ManagerInv` (attempts, disabling, stopping). What a reader makes of the tape is a list comprehension; `Listed` writes it by positions, and `NthIs`, `ListedIs`, `ListedMore` say
once for all what such a list is and what an appended entry does to it. That a message is represented once comes from the positions: verbatim
ones are behind the last anchor, summarised ones before it.

### The connections of a session

`ContextInv` says of each connection: who is not registered yet got nothing and is on no list of the worker (`Absent`); a replay ends at the tape
it was read from, and whoever still waits for the event under way has it only from that replay (`InPlace`);
while a replay runs, everything up to its position was sent, and everything behind its end was missed by a fan-out that timed out on its lock (`Replays`).
`Hears` follows when the replay ends, since what was replayed and what came live meet there; `InOrder` because a live event is
newer than all that was sent, except where `InPlace` allows it once.

That a context never has more connections than its limit (`Room`, for `SessionsKeepTheirTypes`) is about cardinalities: two attaches may wait
for `store.open` together, but only the step that registers a connection lets anybody in, and it counts first (`session_context.py:280-293`).

### The session's files

`StoreInv` says what the server, a command and the files know of each other. `ProcInv`: a process that is down has cached nothing; a command has
cached ids of its own tape only; what an archive command has dumped is among the archives, and is what the tape still holds until it is removed, unless the tape is
`mixed` (a command has it open while a server runs). `IdInv`: on a tape that is not, ids are the positions, and whoever has cached the next id has the right one.
`SettledInv`: a session nobody disturbed has one tape, and each page, cache and command about it is about this tape. `NothingLost` follows from the order in an
archive (dump, then removal) and is inductive only with `ProcInv`; `ReadsWhatItWrote` from `SettledInv`. Any set of sessions, levels of ids, messages and upsets.

### The configuration

A write is queued, run by the database thread, resumed and announced. `KeyInv` says of each key that the last write
the database has run, and whose coroutine has not resumed, is what the database holds, and that without one cache and
database are equal (`CatchesUp`); when nothing is being written this is `CacheTellsDb`. It speaks of the keys that are not `apart`: an
`unset` that does not find its key in the cache deletes the row and leaves the cache alone, which is harmless only if no
`set` of the key is on its way before it (`BlindToNothing`). `ClientsFollow` is about the cache alone and excuses an instance whose
announcement is still to be delivered.
`BootInv` follows a boot that nobody disturbs through its list of writes (`Reached`): a key once written has its one value whatever crash came, so that a boot that
gets through, after however many that did not, leaves the whole bundled instance. Any set of instances and requests, any number of crashes.

`ConfigTypes` also counts: a task that awaits the database has one write in the queue or run, one that publishes has one event on its way. Tasks in a
queue are different, so the count is 0 or 1 (`OneOrNone`, `Owns`), and a crash takes both sides away. What is written is what the
task's list says (`ValuesInv`), which is what bounds the values in cache and database.

### Tools, strategy, serve

- `BashInv`: the tool's timer is no older than the bus's, and there is no child before its handler has spawned it (`Timed`, `Unborn`). Any bus timeout.
- `AgentInv`: for each call, what its place says of its subscriptions and of what it told (`PlaceTells`), that the events of its child stand in the order
  of the child's turn (`ChildInOrder`), that forbidden calls are counted in order or still to be delivered (`HitsInOrder`), and that the child is announced
  first (`Announced`). Any set of calls and tools.
- `ReactInv`: the last text is the last reply that had one (`LastTextIsLast`), and a call that ran is not decided on again before an empty reply (`RunOnce`). Any
  `max_iterations`; the two provider instances are those of `MCServices`.
- `BridgeInv`: an id of a client belongs to one caller wherever it still turns up, in `_pending`, at the child, in its answers or at the caller (`OwnIds`);
  whoever waits without a value has an entry in `_pending` (`Expected`), so a reader that ends fails it; how far a server's boot is tells whether its client is open (`StageInv`), and
  the plugin's records are what the tools and processes stand for, also half-way through `on_unload` (`RecordInv`). Any servers, attempts and calls; `MCServices` instantiates it twice.
- `ServeInv`: what each waiting place of `run_serve` implies about the parts that are up (`PlaceTells`), where a turn is (`TurnInPlace`), and what the
  tape has until the signal (`UntilAsked`). `InOnePlace` is kept beside it: a message the user typed is in the browser's queue, on the bus, heard by one turn
  or lost, in one of these places only (`SendsOnce`, `DeliversOnce`), however often the browser connects while the server boots or goes down. What a queue
  holds of messages, and that it has each once, is proved for joined and popped sequences (`MessagesAre`).
- `ChatInv`: a generation has one call, and the latest one's is for what was clicked last (`GenerationInv`), whose outcome is shown or offered under the banner once
  the call is over (`OutcomeInv`); the server knows the tab's open socket under the session it shows and no other (`SocketInv`); no reload, banner or
  transcript is ahead of what was said (`SaidInv`), from which `OneTranscript` follows when frames and live events meet; no session has said more than all of them
  (`EventsInv`, for the types). Any sessions, clicks, drops and sockets.

### From a component to a sum

A run checks a sum, and the theorems say the same of the sum. `TapeAlone`, `ContextAlone`, `StoreAlone`, `RegistryAlone`, `ConfigAlone`, `BridgeAlone`,
`BridgesAlone`, `BashAlone`, `AgentAlone`, `ReactAlone`, `ServeAlone` and `ChatAlone` state that a behaviour of the sum is one of the component, of its
variables, or never about it; the component's theorem then gives the sum's. `GateAlone` and `StreamAlone` say the same of the gate and the stream in `MCTurns`.

### Only model-checked

- All liveness (`CallsReturn`, `Ends`, `TurnTerminates`): the prover has no rule for fairness and `ENABLED`.
- Of `ReadsWhatItWrote` the parts about `Transcript` and `SqliteMemory`: what recursive or folded functions and sorted queries compute for
  every input is induction over data, which the prover cannot do. TLC compares them with a reference definition (`Remembers`) or
  with each other (`Projected`, `Selected`, `Hydrated`) over bounded inputs. The store's part of `ReadsWhatItWrote` is `StoreReadsWhatItWrote`.
- The registry with requests that overlap, which is refuted, and with requests one at a time as far as the order of unloads is concerned.

## 6. Not modelled

- `kernel/events.py`, `payload.py`, `plugin.py`: types and constructors. They have no state; the models use the kinds and the routing they define.
- `kernel/config.py`, `logging.py`, `errors.py`: read once at start, pure output, exception classes.
- `kernel/llm.py`, the forks' entries in `session.py`, the eviction at 1024 compactions, the one-second archive names: no caller in
  the shipped program, or a limit out of proportion to what it adds.
- `mercari_jp`: a stateless search, one HTTP query and the scoring of its answer.
- `doctor`, `plugin`, `config`, `update`, `version` commands, the updater, the repository's scripts: one-shot programs without concurrency.
- The UI's settings page, markdown and schema forms; the adapter's static files, plugin list and diagnosis routes.

In the modelled parts: texts, payloads, logging, paths, token counts, the validation of tool arguments, JSON coding, the SDKs' own
retries. `WebChat` does not delete a session the tab is on, `Transcript` does not drop the tab's socket, `SqliteMemory` has no
failing statement, and no model has a failing disk under SQLite. `LlmStream` leaves out the final `strip()` of the response, `McpBridge` a
notification that fails after the handshake, `Serve` a wiring that raises after the registry has started (`serve.py:370`), and `WebChat` a
failing `list_sessions` and the late accept of a stale connecting socket.

## 7. What could follow

1. A proof of the transcripts with a prover that does induction.
2. An abstract ask-and-be-answered specification that `Approval`, the loop's tracker and the MCP client implement.
3. A composed kernel (loop, dispatcher, approvals) over `SessionFifo`, now that the bus is shown to implement it.
4. Nested sub-agents and the entries of a fork, once `serve` binds a session to the agent tool.

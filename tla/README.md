# Arthur Agent, specified in TLA+

Arthur Agent is a research assistant behind a FastAPI server: a user logs in,
opens a WebSocket for a *Thread*, submits a query, and a LangGraph agent works
on it as a background *Task*. Sensitive tool calls stop the graph until a human
decides an *Approval*. Everything the page shows arrives as *Research Events*,
which are logged in SQLite first and delivered afterwards, live or by replay.
The words are those of `CONTEXT.md`.

This directory is a model of that system in TLA+: one module per component,
configurations that check the modules with TLC on small instances, and theorems
checked by TLAPS. Paths below are relative to the repository; "model" names in
`code font` are TLA+ definitions. `PROJECT.json` maps every definition to the
lines it stands for.

## 1. The system

| Component | Code | State it keeps | Operations | Talks to |
|---|---|---|---|---|
| Task admission | `api/admission.py` | per-user request times and counters, thread table, leases (memory) | `acquire`, `release`, `cleanup_idle_users` | called by `TaskService.schedule`, `_run` |
| Task store | `api/task_store.py` | tables `tasks`, `task_events`, `consumed_approvals` (SQLite) | claim, create, set status, append and trim events, replay, consume approval, cleanup, reconcile | task service, connection manager, HTTP handlers |
| Per-thread lock | `TaskService.locked` | table of reference-counted `asyncio.Lock`s | enter, leave, cancelled wait | `_run`, `decide_task_approval` |
| Task service | `api/task_service.py`, `api/server.py` handlers, `api/runtime.py` | background tasks; durable rows and checkpoints below it | `POST /api/task`, `POST …/approval`, `schedule`, `_run`, `shutdown`, start | all of the above, the agent |
| Agent run | `agent/main_agent.py` | LangGraph checkpoint (SQLite, external) | `run_deep_agent`, `_stream_agent`, the model's turns and the calls in worker threads | tools, monitor, store (through events) |
| Event delivery | `api/monitor.py`, `websocket_endpoint` | `active_connections`, bounded queue, worker task | `publish`, `publish_from_context`, register with replay, `disconnect`, `stop` | store, WebSockets, tool threads |
| Page | `static/index.html` | object `state` (login, connection, task, approval), its sockets and promises | listeners of forms, buttons, sockets | all HTTP endpoints, the WebSocket |
| Sessions and tokens | `api/auth.py`, `websocket_endpoint` | JWT with expiry | login, decode, socket authentication with timeout | page, server |
| Session workspace | `api/workspace.py`, `api/context.py` | uploads and output directory of a Thread | save, import, list, resolve | endpoints, tools |
| RAGFlow tools | `tools/ragflow_tools.py` | a temporary remote session | create, ask, delete | RAGFlow |
| Other tools, converters | `tools/`, `utils/` | files of the workspace | one request after another, or one file; a failure is mapped by `tools/outcomes.py` | services, workspace |
| Subagent reflection | `agent/reflection_middleware.py` | none | one or two model calls around a final answer | nothing: only its tests use it |
| Models, prompts, subagents | `agent/llm.py`, `agent/subagents/` | none | configuration | the graph |

How they interact: a handler *calls* the task service, which calls admission
and the store synchronously and starts an asyncio task; the task takes the
thread's lock, runs the graph, and the graph's tools *call back* into the
monitor from worker threads; the monitor *writes* the store, which *derives*
the row's status from the event, and *sends* to the socket; the page *reacts*
to events and to HTTP answers, which travel separately.

### What is hard here

* **Interleaving.** Everything in the server is one event loop plus tool
  threads. Handlers await the checkpoint between looking and acting
  (`server.py:185`), sends are awaited one event at a time (`monitor.py:88`),
  lock entries are dropped while others wait for them (`task_service.py:109`).
* **Two durable stores with no common transaction.** The row and the consumed
  approvals are in one SQLite file, the interrupt is in the checkpoint of
  another; a crash or a failing task falls in between (`task_service.py:78`).
* **Two writers of one status.** `set_status` and the event's side effect
  (`task_store.py:307`) both set it, the latter from tool threads that may
  report after the task has ended.
* **Limits.** A sliding window of requests, three limits on running tasks,
  retention by number and by bytes, a delivery queue that drops.
* **Order across channels.** HTTP answers, live events and replayed events
  reach the page in any order; tokens expire in the middle.
* **Threads nobody can cancel.** The calls of a turn run at the same time, and
  a Task that fails leaves its threads behind: they may write files while the
  next Task works on them (`markdown_tools.py:27`).
* **Services and disks.** Every request of a tool may fail in several ways,
  and the clean-up after a failure may fail too (`ragflow_tools.py:67`).
* **Timers.** A socket has some time to send its token, and a token some time
  to live, counted from before to after a send (`server.py:358`).

### What makes each component correct

* *Admission:* counters and tables tell of exactly the leases held; limits and
  the rate hold over any history; `Retry-After` is right; it is a pool of slots.
* *Task store:* what is stored is a suffix of the log as long as the limits
  allow; a replay completes a reader or shows the gap; a cleanup spares recent,
  waiting and running threads; to a reader it is an append-only log.
* *Lock:* mutual exclusion in spite of dropped and re-created entries, exact
  reference counts, no starvation; it is one FIFO lock per Thread.
* *Task service:* Tasks of a Thread are sequential; slots match tasks; an
  approval is accepted at most once and the graph is given only accepted
  decisions; rows at rest do not claim to be running; requests end, slots
  return.
* *Event delivery:* a registered socket misses only counted drops; the newest
  socket keeps its place; no more than two copies; order per source; `stop` ends.
* *Sessions and tokens:* no connection outlives its token; every socket is closed.
* *Tools:* a failure is told to the model, never as a result, and offered for
  retry exactly when it may pass; a temporary session does not stay behind.
* *Workspace:* a Task sees the uploads its Thread had when it began; what a tool
  made stays until a tool or an import replaces it; no torn file counts as made.
* *Agent run:* nothing a sensitive tool does goes without an approval.
* *Page:* the card and the task state agree with the server once everything
  has arrived; "submitting" and "connected" are true when shown.

The hazards, at their lines and with the properties that watch them, are listed
in `PROJECT.json`.

## 2. The modules

| Module | Models | State and actions |
|---|---|---|
| `LeasePool` | what admission promises | the set of slots held; `Grant`, `Return` |
| `Admission` | `TaskAdmission` | the fields of the class and of its leases; each method holds the `RLock`, so each outcome is one action: `RateLimited`, `Refused`, `Admit`, `Release`, `CleanupIdle`; `Tick` is the clock |
| `AdmissionProofs` | | theorems about `Admission`, and that it implements `LeasePool` |
| `FifoLocks` | what `locked()` promises | owner and queue per thread |
| `ThreadLock` | `TaskService.locked` with `asyncio.Lock` | the entry table, `users`, the lock's waiters; `Enter`, `EnterAndWait`, `Resume`, `Exit`, `Cancel` |
| `ThreadLockProofs` | | theorems about `ThreadLock`, and that it implements the safety of `FifoLocks` |
| `TaskRow` | the columns `status`, `result`, `approvals_json` | pure operators: `Updated` (`set_status`), `AfterEvent` (`_event_state`), `Restarted`, `Reconciled` |
| `ReplayLog` | what the store promises | owner, log, first readable event, spent approvals |
| `TaskStore` | `TaskStore` | the three tables; one action per method, each a transaction; EXTENDS `TaskRow` |
| `TaskStoreProofs` | | theorems about `TaskStore`, and that it implements `ReplayLog` |
| `TaskService` | handlers, `schedule`, `_run`, `run_deep_agent`, `open_app_runtime` | rows, consumed approvals, checkpoints, lock, slots, handlers in progress, background tasks, tool threads; EXTENDS `TaskRow`, INSTANCEs `FifoLocks` and `LeasePool` |
| `TaskServiceProofs` | | theorems about `TaskService` |
| `EventDelivery` | `ConnectionManager` and the socket session | the log as far as it matters, queue, callbacks, sends in progress, sockets |
| `SocketSession` | `websocket_endpoint`, the life of a token | per socket its phase, the timer that runs and the life left to its token; `Accepts`, `Refuses`, `AuthTimesOut`, `Authenticates`, `Greeted`, `SessionTimesOut`, `Finally`, `Tick`; EXTENDS `EventDelivery`, whose steps are its own |
| `SocketSessionProofs` | | theorems about `EventDelivery` and `SocketSession`, and that the latter does only what the former allows |
| `ToolCalls` | the tools that ask services | each call's next request and what has failed; the sessions RAGFlow keeps. A tool is a table: request → answer → what follows (`GetWeather`, `CreateAskDelete`, …), interpreted by `Answered` |
| `Workspace` | `SessionWorkspace` and the tools on files | upload and output directory; `SavesUpload`, `Import`, `ImportFails`, `Opens`, `Writes`, `Renders`, `Loads`, `Scans`; EXTENDS `ToolCalls` |
| `AgentRun` | `run_deep_agent` and the graph it streams | the Task's phase; `Starts`, `Proposes`, `Decides`, `TurnEnds`, `TaskFails`, `LeftoverEnds`, `Ends`, `Crash`; EXTENDS `Workspace`, whose steps are its own |
| `ToolCallsProofs`, `AgentRunProofs` | | theorems about `AgentRun` and what it extends |
| `WebClient` | the script of `static/index.html` | `state`, its sockets, its asynchronous listeners; a server reduced to what the page can tell |
| `WebClientProofs` | | theorems about `WebClient` |

Composition is by promise: `TaskService` uses the *abstract* lock and pool,
and `ThreadLock` and `Admission` are shown to implement them (`IsFifoLocks`,
`IsLeasePool`). `TaskStore` and `TaskService` share the row's arithmetic in
`TaskRow`; `TaskStore` implements `ReplayLog` (`IsReplayLog`), which is the log
that `EventDelivery` and `WebClient` assume. `SocketSession` is composed with
`EventDelivery` step by step: it registers and ends a socket by `Register` and
`SessionEnds` of that module, and lets every other step of it happen (`Delivery`).
`AgentRun` is what `TaskService` sees from outside: its `Decides` is the latter's
`GraphTakesDecision`, its ends the latter's `JobCompletes`, `JobErrors` and
`JobWaits`; that one Task of a Thread runs at a time, which `AgentRun` assumes,
is `SequentialTasks`.

A step of `TaskService`, `ThreadLock` and `EventDelivery` is what the event loop
does between two awaits that suspend. An `await` that cannot suspend (the
uncontended `_locks_guard`, an uncontended lock) is not a step of its own.

Some definitions come in pairs: a first one whose name tells a mistake
(`ThreadKept`, `NeverReconciled`) is a mutated form of the one that follows. It
is used by no specification; `PROJECT.json` says which property finds it out.

### Abstractions

* *Payloads.* An event is its kind, its approvals and its size (`TaskStore`),
  its number (`EventDelivery`), or its kind (`WebClient`). Queries, messages,
  timestamps of rows for display and JSON encoding are left out.
* *Approvals.* One interrupt at a time: the middleware bundles the calls of one
  model turn. `TaskService` gives every interrupt a fresh name.
* *Owners* matter in `TaskStore`; `TaskService` has one user, and its
  handlers find their thread claimed.
* *The graph* (LangGraph, checkpointer, models) is external: it takes an input,
  saves the step that handles it, may call tools and interrupt, and ends.
* *Rate limit in `TaskService`*: `LeasePool` abstracts from it; a refusal there
  is an action that is always possible.
* *Services* (`ToolCalls`): an answer is good, empty, too late, refused (an error
  the service's library has for its errors), broken (any other exception), or
  garbled (handed over, but the tool cannot read it). The tools of a subagent count as calls of the turn that delegated
  to it. What is told to the model is the outcome, not its wording.
* *Files* (`Workspace`): two names, one Markdown document and its PDF; a content
  is a version of the user's, a text of the model (approved or not), or `Torn`:
  emptied by an open, cut short, or mixed by two writers.
* *Waits for the store's lock* (`TaskStore`): a method is one step, but the time
  it writes or judges by is one it may have read up to `MaxWait` ticks before.
* *Time* (`SocketSession`): the timers that run and the life left to a token are
  counted down, so that no clock needs a bound; a greeting takes at most
  `MaxGreeting`.
* *The server in `WebClient`*: one task at a time, one checkpoint, a complete
  replay. Its stops, and the losses of replay, are in the modules that own them.

## 3. What is checked

Every run below is a configuration of an `MC` module; times are a few seconds
to three minutes on two cores.

| Run | Configuration | Question |
|---|---|---|
| `admission` | `MCAdmission.cfg` | Do the counters, the limits and the rate hold over any sequence of requests, releases, cleanups and ticks, and is admission a `LeasePool`? |
| `thread_lock` | `MCThreadLock.cfg` | Is the reference-counted table one FIFO lock per thread, cancelled waiters included, and does every wait end? |
| `task_store` | `MCTaskStore.cfg` | Do retention, replay, approvals and cleanup keep their promises in every order of operations, and do the tables implement `ReplayLog`? |
| `task_service_safety` | `MCTaskServiceSafety.cfg` | Two task requests, two decisions, two approvals, a tool that reports late, and a shutdown or a crash: what holds throughout? |
| `task_service_liveness` | `MCTaskServiceLiveness.cfg` | Does every request end and every slot come back? |
| `task_service_continue` | `MCTaskServiceContinue.cfg` | Can a Thread always be continued? No (finding 1). |
| `event_delivery_safety` | `MCEventDeliverySafety.cfg` | Two sockets that come and go, three sources of events, a full queue: what can a client miss, see twice, or see out of order? |
| `event_delivery_replay` | `MCEventDeliveryReplay.cfg` | Are events replayed in order? Not while live ones go on (finding 2). |
| `socket_session` | `MCSocketSession.cfg` | Does a connection end with its token, every socket close, and `stop` end although clients stall? |
| `agent_run` | `MCAgentRun.cfg` | Two calls at a time of every kind, failing services, uploads, decisions, failing Tasks and crashes: what is the model told, what is left in the workspace and at RAGFlow, what ran unapproved? |
| `web_client` | `MCWebClient.cfg` | Does the page agree with the server once everything has arrived? |
| `web_client_reconnect` | `MCWebClientReconnect.cfg` | Does a reconnect restore the progress? Not after an earlier task (finding 3). |

### Properties

Each is stated in the module, with a comment. In short:

* `Admission`: `LeaseAccounting`, `RateWindow` (under
  `HistoryTTL >= Window`, which the settings do not enforce; nothing but the tests
  calls `cleanup_idle_users` so far), `RetryAfterSuffices`,
  `IsLeasePool` (the limits on running Tasks are the pool's).
* `ThreadLock`: `MutualExclusion`, `EntryIsCurrent`, `UsersExact` (the count is
  exact up to cancelled waiters, which leak one each), `WaitEnds`,
  `IsFifoLocks`.
* `TaskStore`: `LogIsWindow` (the tail of the log, as long as the limits allow),
  `ReplayCompletes`, `RecentHistoryKept` (the TTL holds less the wait of a call
  that has read the clock and not yet the lock), `IsReplayLog`.
* `TaskService`: `SequentialTasks`, `LeasesMatchTasks`, `AcceptedOnce` (and the
  graph is given accepted decisions only), `RestingStatus`,
  `WaitingIsDecidable`, `DiscardedOnlyByRace`, `SlotsReturn`, `RequestsEnd`.
* `EventDelivery`: `NothingMissed`, `LatestStaysActive`, `AtMostTwice`,
  `OrderedPerSource`.
* `SocketSession`: `NeverOutlivesToken`, `SessionsClose`, `StopEnds`.
* `ToolCalls`: `FailuresAreTold`, `SessionsDeleted`. `Workspace`: `TornIsTold`.
  `AgentRun`: `OnlyApprovedEffects`, `TaskSeesUploads`, `ArtifactsKept`.
* `WebClient`: `CardAgrees`, `NotLeftRunning`, `SubmittingIsUnderWay`,
  `ReadyMeansConnected`.

`TypeOK` of a module is a conjunct of one of its properties, or a property of
its run.

Several carry an exception in their statement, and a history variable that says
when it applies. These are not conveniences: each is a race the code loses,
found when TLC refuted the property without it.

| Exception | What happens |
|---|---|
| `raced` (`DiscardedOnlyByRace`) | `run_task` read the checkpoint before the interrupt was saved; the new message makes the graph forget the approval |
| `tardy` (`RestingStatus`) | a tool thread of a cancelled task reports `tool_start`, and the row of an ended task says `running` until the next start |
| `torn` (`WaitingIsDecidable`) | a crash between `consume_approval` and `set_status` leaves a row that waits for an approval already consumed |
| `expired` (`AcceptedOnce`) | a cleanup took the row, in status `error` or `interrupted`, and with it the consumed approvals, while the checkpoint still waited: the approval is accepted a second time |
| `abandoned` (`UsersExact`) | a coroutine cancelled while it waits for the lock never decrements `users`; its entry stays in the table |
| `overtaken` (`CardAgrees`, `NotLeftRunning`) | the answer to a decision or to a refresh is handled after newer events and overwrites what they set |
| `stranded` (`SubmittingIsUnderWay`) | a submission fails while a login is under way; its catch clause does nothing and the form stays disabled |
| `crossed` (`ReadyMeansConnected`) | the late close event of an old socket clears the promise of a newer one (`index.html:1153`), so that the next request opens one socket more; or the reconnect listener, which still waited for the old socket, tells a page with a newer one that it is disconnected (`1282`) |
| `stray` (`CardAgrees`, `NotLeftRunning`) | an event came by a socket that is not the page's own, which is only there after `crossed`: nothing orders it with the events of the page's own socket |
| `silent` (`NotLeftRunning`) | the model's final answer has no text: `_stream_agent` returns without an event, and the page stays at "running" |
| `late` (`NeverOutlivesToken`) | sending `auth_ok` took time, after the token's remaining life had been computed |
| `excused` (`TornIsTold`) | the failure was told (a `ToolFailure`, a 500), the process died in the middle of a write, or two calls wrote one file, or converted it while it was written: then both may report success, and the file is torn |
| `touched` (`TaskSeesUploads`) | a tool has opened the file since the Task began; also one of an earlier, failed Task whose thread still ran |

### Bounds, and why they are enough

* `MCAdmission`: two users and three threads, so that a user can be full while
  the other is not and a third thread is free; two slots in the process, so that
  each limit bites; two requests per window; four ticks against a window and a
  TTL of three, so that windows slide, requests expire singly and idle users are
  forgotten. Two ticks make a second, so that rounding shows.
* `MCThreadLock`: three coroutines (one inside, two waiting) on two threads and
  three entries; one abandoned wait per entry.
* `MCTaskStore`: one thread (rows are independent but for `cleanup` and `clear`,
  which take sets), two owners, sizes 1, 2 and 4 against limits of two events
  and three bytes, so that one event drops none, one, two, or itself; three
  ticks pass the TTL of two, and a call waits for the lock for up to one
  (`MaxWait`), so that a row can be stamped with a time before its last event.
  Three events fill and trim the window.
* `MCTaskService`: one thread, two requests of each kind (a race needs two),
  two approvals (a decision must not reach the other one), two tasks alive, one
  late tool of the Task that runs or of one that has ended, one stop or crash. The liveness run has one request of each kind
  and one approval, without symmetry.
* `MCEventDelivery`: a queue of one that overflows at the second event, two
  retained events of three, two sockets, one source of each kind. The run of
  finding 2 retains three and has one socket, so that a live event can come
  between the first and the last of a replay.
* `MCSocketSession`: one socket, a queue of one, a token of two units, of which
  one or two are left, an authentication of one unit and a greeting of none or
  one, so that each timer can run out first and a greeting can use up what is
  left; a replay of up to two events of three, in the middle of which the client
  stalls or the token ends. Sockets of one Thread meet in `MCEventDelivery`.
* `MCAgentRun`: two calls, which is what two writers, a writer and a reader, or a
  leftover and its successor need; two uploaded versions, so that a later Task
  can import over an artifact; the tools in three sets (those that write, those
  that look at what is written, those that ask services), as services and files
  have nothing in common but the turn. A Task may follow a Task for ever.
* `MCWebClient`: two sockets (one that closes late, one that replaces it), one
  listener of each kind, three state events (asks, resumed, and one more), one
  login (`LogsIn` has one under way at a time; in the page a `clearSession` in the
  middle of one enables the button again, `index.html:887`, `957`, so that two may
  be); a Task that ends without an event counts as one. With three sockets the
  state space is beyond a small run, and the superfluous socket of `crossed`, with
  what comes by it (`stray`), needs them: the theorems of section 4 hold for any
  number of sockets, submissions, events and logins.

Symmetry is used for names that are only compared, and in no run that checks a
liveness property. `CHECK_DEADLOCK FALSE` is said where the system may stop: the
clock of `Admission` at its bound, a stopped connection manager, a page whose
bounds are used up.

### Fairness

* `ThreadLock`: weak fairness of resuming and of leaving: the event loop runs
  what is ready, and what is done under the lock ends, a checkpoint read or an
  agent run, which has a recursion limit of 40 and tools with time limits.
* `TaskService`: weak fairness of each request's and each task's own steps and
  of a shutdown that has begun; none of crashes, of new requests, or of tools.
* `SocketSession`: weak fairness of callbacks, the worker, the end of a send,
  each send of a replay, the steps of `stop`, the timers, the `finally` clause and
  the clock; a stalled client is cut off by the server's ping, so that a send
  ends. None of clients leaving, speaking or of new events.
* `AgentRun`, `ToolCalls` and `Workspace` claim no liveness of their own: that
  runs end is an assumption of `TaskService`.
* `WebClient` claims no liveness: a user may do nothing.

### Findings

1. **A Thread can be stuck for ever** (`ThreadCanContinue`). `schedule` consumes
   the approval (`task_service.py:78`) long before the graph has taken the
   decision. If the task then fails or the process dies, the checkpoint still
   waits at the interrupt, the approval counts as consumed, every decision is
   refused and every new Task is turned away. `CONTEXT.md:8` promises a Thread
   that survives restarts.
2. **Live events overtake a replay** (`ReplayedInOrder`). A socket is registered
   before its replay is sent, one awaited send per event (`monitor.py:86`–`88`).
   The first of them starts before anything else can happen; a live event may be
   sent before the second, and so the client has a newer event before older ones.
   `CONTEXT.md:38`: replayed in order.
3. **A reconnected page shows a running task as completed**
   (`ReconnectRestores`). The replay contains the results of earlier tasks, and
   `handleMonitorEvent` takes every one for the current task's.
   `static/index.html:1167`: reconnecting restores the progress.

Smaller observations on the page, which no document contradicts: the approval
buttons stay disabled after a successful decision (`index.html:1012`, `1039`),
so that a second approval needs a reload; a login while a task runs closes the
socket and sets the connection to idle (`1198`–`1201`), so that no reconnect
button appears and the page stays at "running".

Observations on the rest, met as exceptions or in the tables of the tools:

* A final answer without text ends a Task without any event (`main_agent.py:143`);
  its page shows "running" until a reload.
* An approval can be accepted again after a cleanup (`expired`), which
  `CONTEXT.md:32` excludes: `cleanup`, which runs when the process stops
  (`runtime.py:35`), deletes the consumed approvals with the row. It takes a row
  older than the retention and a checkpoint that still waits.
* Two Markdown calls with one name, or a conversion beside a write, in one turn
  leave a torn file that both report as made.
* `get_stock_quote` says `not_found`, not retryable, when its sources only timed
  out (`stock_tool.py:134`, `141`), and an `OSError` of a conversion is
  `conversion_failed`, as the converter catches it before the tool does. These two
  are the exceptions of `FailuresAreTold`.
* A `ValueError` while a SQL tool connects or reads is told as
  `configuration_missing` (`db_tools.py:45`, `69`, `115`), and what is no error of
  the MySQL library is not mapped; the assistants of RAGFlow are read outside the
  `try` (`ragflow_tools.py:39`). The latter two end the Task.
* The bodies of answers are parsed outside the `try` of `get_weather`
  (`weather_tool.py:61`, `90`); a file that is not UTF-8 makes
  `read_file_content` raise `UnicodeDecodeError` (`:85`); a name without a stem
  makes `with_suffix` raise `ValueError`. These end the Task.
* `list_artifacts` asks for the size of files that may be gone
  (`workspace.py:85`).
* A download is read while a tool may be writing the file (`server.py:328`).
* A crash between `create_session` and `delete_sessions` leaves a session at
  RAGFlow that nobody deletes.
* `publish_from_context` checks the store, the loop and the queue in a tool's
  thread and uses them afterwards (`monitor.py:65`), while `stop` sets them to
  `None`: an exception in a tool of a process that is stopping.

## 4. What is proved

### The lock

`ThreadLockProofs` proves, for any finite set of coroutines, any threads and
entries, and any bound on cancelled waiters:

| Theorem | States |
|---|---|
| `TypeCorrect` | `Spec => []TypeOK` |
| `MutualExclusionHolds` | `Spec => []MutualExclusion` |
| `EntryIsCurrentHolds` | `Spec => []EntryIsCurrent` |
| `UsersExactHolds` | `Spec => []UsersExact` |
| `ImplementsFifoLocks` | `Spec => Locks!Safety`, the part of `IsFifoLocks` that is not fairness |

Assumptions: the coroutines are finitely many (`FiniteProcs`) and `None` is no
name (`NoneIsNoName`).

Mutual exclusion is not inductive by itself. The danger is an entry that is
dropped from the table while a coroutine still waits for it: the next one would
create a second lock for the same thread. So the inductive invariant `Inv` says
that whoever uses an entry has the one in the table (`UsesCurrent`), that
threads do not share entries (`OneThreadPerEntry`), that a lock is locked by the
one coroutine inside (`LockedByOne`), and that `users` counts exactly
(`UsersExact`). `UsersExact` is what makes the drop in `Exit` safe: the entry
goes only when its count is one, and then its user is alone (`LastUserIsAlone`).
The lemmas `UserJoins` and `UserLeaves` carry the count through every step; the
step lemmas take one conjunct each, with one case per action.

For the refinement, `QueueInv` adds that whoever is queued at an entry waits for it,
once (`WaitersWait`, `WaitOnce`), and that a locked lock has somebody inside
(`LockedHasOwner`): so an entry that is new or dropped has no queue, and the queue of
a thread is that of its entry (`QueueOf`). Each action is then one of the abstract
lock: `EnterTakes`, `EnterQueues`, `ResumeIsGranted`, `ExitLeaves`, `CancelGivesUp`.

### The agent run

`AgentRunProofs` proves the properties of the run `agent_run` for any set of
calls, any sets of tools, and any number of uploads:

| Theorem | States |
|---|---|
| `Approval` | `Spec => []OnlyApprovedEffects` |
| `UploadsSeen` | `Spec => []TaskSeesUploads`, which holds the type invariant |
| `TornFilesTold` | `Spec => []TornIsTold` |
| `FailuresTold` | `Spec => []FailuresAreTold` |
| `SessionsGone` | `Spec => []SessionsDeleted` |
| `ArtifactsStay` | `Spec => ArtifactsKept` |

Assumptions: the models draw from the tools there are (`ToolsKnown`), and `None`,
`Torn`, the user's versions and the model's texts are told apart (`NamesDiffer`).
The set of calls may be infinite. There are two file names, as in the model.

None of the six is inductive. `OnlyApprovedEffects` looks at files and at SQL
under way; what makes it stay true is a fact about every sensitive call that has
left the approval: it carries the approved text (`Cleared`). `FailuresAreTold`
looks at ended calls; it needs to know where a call may be that has met a failure
(`Told`), also one at the start of the call, before any request (`Tells`), and
`SessionsDeleted` where a call may be that has a session (`Kept`).
Both need that a step belongs to its tool (`Fits`). These four, with the type of the
record, are `CallOK`, a fact about *one* call: the proof is that a step moves one
call and leaves it OK (`Moves`), and that the actions on all calls at once (the
proposal, the decisions, the ends of turns and Tasks, the crash) leave each of
them OK (`CallsOfEach`). `ToolCallsProofs` opens the tables of the tools once, row
by row, and shows there that an answer keeps `Fits`, `Told` and `Kept`
(`AnswerFits`, `AnswerTold`, `AnswerKept`).

The invariant of the files (`FilesInv`) rests on the calls: who writes is OK, so
what it writes is approved. `TornIsTold` further needs that a writer stays at its
file while others move, also when its Task fails (`HeldStays`, `OthersHold`), and that
a crash excuses exactly the files that were held.

### Admission

`AdmissionProofs`, for any users and threads, a finite set of leases, and any
positive limits and times:

| Theorem | States |
|---|---|
| `LeaseAccountingIsInvariant` | `Spec => []LeaseAccounting` |
| `RateWindowIsInvariant` | `Spec => []RateWindow` |
| `RetryAfterSufficesIsInvariant` | `Spec => []RetryAfterSuffices` |
| `ImplementsLeasePool` | `Spec => IsLeasePool` |

Assumptions: the settings are positive, as `auth.py` insists
(`SettingsArePositive`); the leases ever made are finitely many (`FiniteNames`);
`None` is no lease (`NoneIsNoLease`).

`LeaseAccounting` lacks one fact to be inductive: a user with leases is known, so
that a cleanup of idle users forgets no counter (`LeaseInv`). The rate gate counts
what it remembers, and the property speaks of what happened; between them stands
`Remembering`: of each user, the times that are kept contain every request of the
last window, because what a purge drops has expired and an idle user was last
seen before all that counts. `RetryAfterSuffices` follows from the types: the
oldest time that is kept is the next one to expire. The refinement maps the pool's
slots to the leases held; that a grant respects the pool's limits is
`LeaseAccounting` again.

### The task store

`TaskStoreProofs`, for any threads, owners, sizes of events, and positive limits:

| Theorem | States |
|---|---|
| `LogIsWindowIsInvariant` | `Spec => []LogIsWindow` |
| `ReplayCompletesIsInvariant` | `Spec => []ReplayCompletes` |
| `CleanupKeepsRecentHistory` | `Spec => RecentHistoryKept` |
| `ImplementsReplayLog` | `Spec => IsReplayLog` |

Assumptions: positive limits (`LimitsArePositive`), and `None` is no value
(`NoneIsNoValue`).

The invariant `StoreInv` says of each thread that what is stored is the log from
some number on (`Window`), that it fits the limits and that one event more would
not, that the sequence numbers are places in the log, and that a thread without a
row has nothing. Retention by bytes is a sum over a sequence, and sums are proved
about without induction over data: a sum is a function with `f[0] = 0` and
`f[i] = f[i - 1] + bytes`, and two of them that differ would differ first
somewhere, which `LeastNatural` excludes. `RecentHistoryKept` compares
the last event with `updated_at`, and needs that the row is older by no more than
a wait for the lock (`MaxWait`).

### The task service

`TaskServiceProofs`, for any Threads, requests, decisions, approvals, Tasks,
limits, and any number of late tools, stops and crashes:

| Theorem | States |
|---|---|
| `InvIsInvariant` | `Spec => []Inv` |
| `SequentialTasksIsInvariant` | `Spec => []SequentialTasks` |
| `LeasesMatchTasksIsInvariant` | `Spec => []LeasesMatchTasks` |
| `AcceptedOnceIsInvariant` | `Spec => []AcceptedOnce` |
| `RestingStatusIsInvariant` | `Spec => []RestingStatus` |
| `WaitingIsDecidableIsInvariant` | `Spec => []WaitingIsDecidable` |
| `DiscardedOnlyByRaceIsInvariant` | `Spec => []DiscardedOnlyByRace` |

Assumptions: requests and Tasks are different things and `None` is none
(`NamesDiffer`, `NoneIsNoRecord`), the bounds are numbers (`BoundsAreNumbers`).

The argument is in layers. `Exclusive` says who may be where: a Task that lives has
the one slot of its Thread (`OneSlotEach`), and the owner of a lock is the decider
or the Task inside (`LockHolders`). On it rest facts about what was read before an
await and is used after it: a decider that has the lock still sees the approval it
read, and a Task that the graph has not met yet will find the approval it decides
(`DecisionsFit`); what a message may find pending was asked for behind its back
(`MessagesRace`). `AcceptedOnce` follows, since every accepted approval is consumed
while no row is deleted (`AcceptedIsConsumed`) and an approval belongs to one Thread
(`OneThreadEach`). `WaitsForWhatIsAsked` and `RestsWhenDone` tie the row to the
checkpoint. Each layer is proved from the ones before it, over lemmas that say
which actions can change what (`ControlUnchanged`, `TaskMoves`, `ConsumedMoves`).

### Event delivery and sessions

`SocketSessionProofs`, for any sockets, tools, publishers, sizes and times:

| Theorem | States |
|---|---|
| `NothingMissedIsInvariant` | `Spec => []NothingMissed` |
| `LatestStaysActiveIsInvariant` | `Spec => []LatestStaysActive` |
| `OrderedPerSourceIsInvariant` | `Spec => []OrderedPerSource` |
| `AtMostTwiceIsInvariant` | `Spec => []AtMostTwice` |
| `SessionsDeliver` | `SessionSpec => Spec`, so that these hold of the sessions too |
| `NeverOutlivesTokenIsInvariant` | `SessionSpec => []NeverOutlivesToken` |

Assumptions: positive sizes and times, as the settings insist
(`SizesArePositive`, `TimesArePositive`); the names are told apart (`NamesDiffer`,
`NoneIsNoValue`).

* `NothingMissed`: what a socket *had* (received, still to be replayed, on its way
  in a callback, the queue, a tool's thread or a send, or counted as dropped) grows
  with every event recorded (`HadGrows`); nothing leaves it.
* `OrderedPerSource`: what has come to a socket, the queue, the callbacks and the
  tools' hands are four sets on one path, and of two events of one source the
  older one is further along (`Path`). Steps move events along it; the lemmas say
  that recording, handing over and taking keep the order.
* `AtMostTwice`: an event that may still come by replay and may still come live has
  not come; one that may still come either way has come at most once (`Twice`).
* `NeverOutlivesToken`: while the session's timer runs, it shows what is left of the
  token and the time the greeting took (`Clock`).

### The page

`WebClientProofs`, for any sockets, submissions, and bounds on events and logins:

| Theorem | States |
|---|---|
| `CardAgreesIsInvariant` | `Spec => []CardAgrees` |
| `NotLeftRunningIsInvariant` | `Spec => []NotLeftRunning` |
| `SubmittingIsUnderWayIsInvariant` | `Spec => []SubmittingIsUnderWay` |
| `ReadyMeansConnectedIsInvariant` | `Spec => []ReadyMeansConnected` |

Assumptions: the bounds are numbers, and the listeners and `None` are told apart
(`BoundsAreNumbers`, `NamesDiffer`).

The properties speak of a page to which everything has come; the invariant of one
to which something is still coming. The messages under way to the registered socket
are the end of the log (`Wires`), so the page has been told the log up to `Told`. Up
to there, the card shows nothing older than the last event told (`CardInv`), and an
active task that does not run is due to a submission the server has not served
(`TaskInv`). A question is the last event of the log, or the next one is its
decision (`LogInv`); what listeners and card ask about is a question of the log
(`AskInv`). `SocketInv` says that the page's socket is the only one alive and that
`connection` tells its state, until sockets have crossed.

The attempt to prove this found two gaps in what the run had shown. With three or
more sockets an old socket's late close can leave a page that has a newer socket
with a wrong `connection`, and a superfluous socket can bring events to the page;
`ReadyMeansConnected` and `CardAgrees` were false there, which TLC confirmed, and
`crossed` and `stray` now say so (section 3).

### What is not

Only model-checked are:

* all liveness (`WaitEnds`, `SlotsReturn`, `RequestsEnd`, `SessionsClose`,
  `StopEnds`), which is out of the proof system's reach;
* of `IsFifoLocks`, the fairness of the abstract lock: that weak fairness carries over
  speaks of `ENABLED`;
* that the code does *not* keep three promises (the findings): a counterexample is
  TLC's to find.

Every invariant that a passing run checks is proved, and so are the other action
properties and refinements.

## 5. What is not modelled

* *Read-only endpoints* (`GET` task, approval, files): they change no state. The
  mix of row and checkpoint in `get_task` is a listed hazard.
* *Password hashing, JWT encoding, most settings*: library calls and
  straight-line code. The life of a token is in `SocketSession`, its refusal in
  `WebClient`.
* *The path boundary* (`resolve_artifact`, `resolve_upload`): a pure function on
  path strings; the models take its three outcomes (a path, a refusal, an
  exception) and not its arithmetic.
* *Reflection*: no agent of the server is built with this middleware; only its
  tests use it, and it keeps no state.
* *What a turn of the model is*: LangGraph's node scheduling, the human-in-the-loop
  middleware and `deepagents` are external, modelled from how `main_agent.py` and
  the endpoints use them. A process that is stopped in good order in the middle of
  a turn is a `Crash` of `AgentRun`; `TaskService` has the shutdown.
* *Models, prompts, subagent definitions*: configuration. *Rendering* of
  documents: external programs.
* *`rawflow/`, `prompt/`, `evals/`, `.understand-anything`*: demos, texts and
  generated data, not part of the running server.

## 6. Plan

Done: admission, lock, store, task service, event delivery with its sockets and
tokens, tools, workspace and agent run, page; every invariant the runs check, the
action properties, and the refinements without their fairness, are proved. The order was that of
importance: what a Task and an Approval go through first, then what the user sees
of it, then what a Task does.

Next: *composition*: `TaskService` over the concrete lock, to see that nothing of
the abstraction hides a step; `AgentRun` as the refinement of the job steps of
`TaskService`.

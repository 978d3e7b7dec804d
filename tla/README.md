# walastack-rs in TLA+

Specifications, model-checking instances and machine-checked proofs for walastack-rs: its
runtime kernel, the event bus, the scheduler, both job stores and their workers, the MCP
client, the HTTP application server, and the plugins and the example that put them
together. Paths below are relative to `src/crates/` unless they begin with `examples/`.

## 1. The system

WalaStack is a set of crates around one kernel, `walastack-runtime`. Everything that lives
for a while (HTTP server, job workers, MCP server connections, the metrics recorder) is a
*service* that the kernel starts, watches, restarts and stops. An application is
configured by a chain of builder calls and plugins, after which its registries are frozen.

| part | source | state | operations | talks to |
|---|---|---|---|---|
| SupervisionTree | `walastack-runtime/src/supervision.rs` | children map; per service a watcher task with attempt counter and JoinHandle | start_service, supervise, drain, shutdown_now | Service::start, EventBus, shutdown signal |
| Runtime | `walastack-runtime/src/runtime.rs` | the list of services, the drain deadline | build, start, wait_for_shutdown, shutdown_gracefully, run | SupervisionTree, EventBus, plugins |
| EventBus | `walastack-runtime/src/events.rs` | broadcast and work channels by type, shutdown watch | publish, subscribe, enqueue, try_enqueue, worker, shutdown | everybody |
| Scheduler | `walastack-runtime/src/{scheduler,backoff}.rs` | map of active schedules, id counter; per task its clocks and attempt | schedule, cancel, shutdown, fire and retry loop | EventBus |
| Capabilities, resources, plugins | `walastack-runtime/src/{capabilities,resources,plugins}.rs` | typed maps, frozen before start; round-robin counters | register, build, get, validate_requirements | Runtime::build, Service::start |
| Jobs | `walastack-jobs/src/lib.rs` | store: queues and records behind a mutex; per worker the record it works on | enqueue, pull_next, mark_completed, mark_failed, worker_loop, dispatch_one | SupervisionTree, EventBus |
| SQLite job store | `walastack-jobs/src/sqlite.rs` | one table that outlives processes | the same contract in single statements | sqlx |
| MCP | `walastack-mcp/src/{stdio,service,descriptors,registry,plugin}.rs` | pending requests, subprocess and its pipes, connection map | open, request, notify, close, ping loop, look-ups | SupervisionTree, subprocess |
| Observability | `walastack-observability/src/lib.rs` | per service status and counts, totals, phase | one handler per event type, overall | subscriptions to every kernel event |
| Application | `walastack-app`, `walastack-router`, `walastack-http` | routes, openapi routes; listener, one task per connection | route calls, run, accept loop, dispatch, extractors | Runtime as a service |
| Authentication | `walastack-auth` | signing secret and settings; sessions in a map | issue, decode, the Auth extractor | resources, extractors |
| OpenAPI | `walastack-openapi` | specs of described routes | builder of a spec, render_document | App |
| Database, LLM, secrets | the crates of those names | external pool or client | what their plugins register | plugins |
| Example | `examples/hello-auth-db*` | a table of users | signup, login, me | all of the above |

What is hard here. Every service has a watcher that races three things: the service's
exit, its own backoff and the shutdown signal. Shutdown is a flag plus an event, set by
anybody at any time; drain works against a deadline and a map that other calls change. The
scheduler's map is updated by the task it describes. A job is in a queue, in a record and
in a worker's hands, and these are updated at different moments, for the SQLite store
across processes that die. A response of an MCP subprocess can come after the request
timed out or was dropped, and one writer blocked on a full pipe holds up all. The recorder
handles events of different types in any order. Handlers on different connections
interleave between a SELECT and an INSERT, and a client that hangs up drops one between
any two awaits. Plugins can be added in any order and some need what others bring.
`PROJECT.json` lists these hazards line by line, each with the properties that would show
it going wrong.

Three numeric edges carry no property. `scheduler.rs:314` casts the retry index to i32, so
past 2^31 attempts the exponent is negative and the delay collapses; Paced therefore is
checked for attempts that fit (`IndexBits` is that width, small). `walastack-jobs/src/
lib.rs:935` passes the attempt, not the attempt less one, as retry index, so a job's first
retry waits twice its base; jobs model no durations. `supervision.rs:365` saturates the
attempt counter of `Always`, which WithinBudget reaches with `U32Max` = 3.

## 2. Modules

| module | models | main idea |
|---|---|---|
| `ServiceLifecycle` | what a subscriber may expect of ServiceStarted, ServiceStopped, ServiceFailed | abstract: one variable, the last event of each service |
| `Supervision` | `supervision.rs` | one action per stretch of code between two awaits; the watcher's place is its program counter |
| `RuntimeLifecycle` | start, wait and shutdown of `runtime.rs`, `EventBus::shutdown` | EXTENDS Supervision; the main task and callers of shutdown take the tree's actions as theirs |
| `Tables` | the hash maps of the builders | pure: extend and insert |
| `Capabilities` | `capabilities.rs` | pure: registration, resolution, the three strategies, requirements |
| `RuntimeBuilder` | the Configure phase: `RuntimeBuilder`, `plugins.rs`, `resources.rs` | EXTENDS Capabilities; a plugin is a record of what its hooks do |
| `BundledPlugins` | the plugins of all crates | pure: one such record per plugin |
| `EventChannels` | the channels of `events.rs` | one event type; one program counter per sending or receiving task |
| `Backoff`, `Triggers` | the retry and trigger arithmetic | pure: sets of delays |
| `Scheduler` | `scheduler.rs` | EXTENDS both; one program counter and three clocks per spawned schedule |
| `JobLifecycle` | the `JobStore` contract | abstract: status, attempts and budget of each job |
| `InMemoryJobStore` | `InMemoryJobStore` | the store's operations as action operators; one mutex, so one step each |
| `JobWorkers` | `worker_loop`, `dispatch_one`, `enqueue` | EXTENDS InMemoryJobStore; one program counter per worker |
| `SqliteJobs` | `sqlite.rs` under the same workers | rows survive, processes do not; a statement and its result are two steps |
| `McpConnection` | `stdio.rs` | callers, the pending map, stdin's mutex, two pipes, the subprocess |
| `McpService` | `service.rs` | EXTENDS Supervision and McpConnection; the root task is one of the callers |
| `Routing` | `walastack-router` | pure: insertion with its conflicts, matching, dispatch, parameters |
| `OpenApi` | `walastack-openapi` | EXTENDS Routing; path normalisation, specs, the document |
| `AppBuilder` | `walastack_app::App` | EXTENDS RuntimeBuilder and OpenApi; one action per builder call |
| `JwtAuth` | `JwtCodec` | issue and decode against a clock |
| `Extractors` | the extractors and their rejections | EXTENDS JwtAuth |
| `HttpServer` | `HttpService`, accept loop, connection tasks | EXTENDS Routing; handlers are supplied by the module above |
| `HelloAuthDb` | `examples/hello-auth-db`, `-openapi` | EXTENDS HttpServer and Extractors; one step per query |
| `Observability` | `walastack-observability` | takes what supervision publishes from an INSTANCE of ServiceLifecycle |
| `*Proofs` | | theorems and proofs, see section 5 |
| `MC*` | | the constants of the runs |

Definitions whose comment begins with "Mutant" are wrong versions of the action that
follows them. They are part of no specification: they show that each property can be
broken by a plausible bug.

Compositions: `RuntimeLifecycle` and `McpService` act on the variables of `Supervision`
(and the first is shown to implement it); `HelloAuthDb` puts handlers, extractors, tokens
and a database into `HttpServer`; `AppBuilder` puts routes and documents beside the plugin
machinery. Abstract specifications and their refinements: `ServiceLifecycle` by
`Supervision` (EventProtocol), `Supervision` by `RuntimeLifecycle` (RuntimeSupervises),
`JobLifecycle` by `JobWorkers` and by `SqliteJobs` (ImplementsLifecycle). `Observability`
builds on the first of them: it needs of the kernel only what ServiceLifecycle promises.

### How state corresponds to code

`Supervision`. `call[s]` is the progress of `start_service` for a registration,
`handle[s]` is what the watcher's `handle` variable would report when polled,
`watcher[s]` is where `supervise` stands (`watching`: first `select!`; `backoff`: second
one; `restarting`: inside `service.start`), `attempt[s]` its counter. `children` is the
map by name; two registrations may share a name. `draining`, `graceful` and `late` are
the local variables of `drain`. `last[s]` is the last lifecycle event published.
A clean exit is one step in which the event is published and the watcher moves on: there
is no await between them. ServiceStopped carries no attempt in the code; the model
records the attempt that stopped.

`RuntimeLifecycle`. `main` is where `Runtime::run` stands, `queue` the services not
started yet, `current` the one being awaited. `caller[c]` is where a task is inside
`EventBus::shutdown`, whose check, replacement and publication are three steps because
nothing makes them atomic. The main task calls `shutdown` in the same way.

`RuntimeBuilder`. `plugins`, `resources`, `registry` and `services` are the builder's
fields, `staged` the planner's services before they are moved behind the application's
own. A value in `resources` and in the registry is named by who inserted it. `rotation` is
the round-robin counter of a contract, which has `CounterSize` values; `pick[t]` what a caller's
`fetch_add` returned, before it resolves the slot. `own` and `served` are reference
variables that only properties read.

`EventChannels`. `pattern` says whether the event type is broadcast or a work queue; the
two maps of the bus are then one `entry`. A channel is named by the task that made it, so
that a second channel for the type is a different one: the look-up under the read lock
(`Lookup`) and the second one under the write lock (`Make`) are two steps. `buffer` of a
broadcast channel keeps all it carried, and `Unread(r) > Capacity` says that the oldest
are gone. `owed` is a history variable. tokio's broadcast and async-channel are modelled
by what their calls do here: drop the oldest and count them, or suspend and wake.

`Scheduler`. `entry[s]` is the progress of `schedule()`, `tasks` the map's keys,
`unseen[s]` whether the cancel channel changed since its receiver last looked. `left` is
what remains of the sleep before a fire, `elapsed` the time since `last_fire` was set,
`idle` that since the last fire was over. Clocks stop counting when they reach the
trigger's span; beyond it the code and the properties no longer tell values apart, so this
loses nothing. `overrun` counts fires after a cancellation, up to two.

`InMemoryJobStore` and `JobWorkers`. `Pull` already changes the store although the
`select!` may still drop its result: `pull_next` does its work when the branch expression
is evaluated, before any branch is polled. `held` and `taken` are the worker's copy of the
record. `known` is the set of jobs with a registered handler, chosen once and for all at
the start. JobFailed is always followed, in the same step, by JobDead or JobRetrying and is
left out; JobRetrying is recorded with the attempt that failed, of which the code publishes
the successor.

`SqliteJobs`. `status`, `attempt`, `limit` and `when` are the columns; `QueueOf` the queue
each job is enqueued in and `listens` the `JobsConfig::queues` of each process, which
`pull_next` selects by. `pull_next` commits its UPDATE (`Pull`, to the state `pulled` with
`held` set) before the worker has the RETURNING row: the row is Running, and a process that
ends there leaves it so. Only then is the row converted (`into_record`): `readable` says
whether its payload and times, which were written as text, parse again. A payload nested
deeper than serde_json's recursion limit and a time whose year has five digits do not;
what writes them is one of the `errors`. `PullUnreadable` is the pull that fails there: the
worker sleeps and the row stays Running, whereas `PullError`, a statement that failed,
leaves no trace. `up` is the state of a process; a crash takes all its workers at once, a
shutdown one abort at a time. `orphaned` is a history variable: rows whose worker, or the
outcome it meant to write, was lost.

`McpConnection` and `McpService`. `request[c]` is where a caller is inside `request`, with
the JSON-RPC id; `pending` the keys of the pending map; `inbox` the oneshot values sent and
not yet received; `stdin` who holds the writer's mutex; `torn` whether a dropped writer
left half a line; `pipe`, `working` and `stdout` the lines on their way to, inside and from
the subprocess, which may answer in any order, late or never, stop reading, or die. Every
response carries the identity of the request it answers, which no code looks at: AnswerIsOwn
compares it. `root` is where `Service::start`, then the root task, stands; `registered`
whether the connection is in StdioMcp's map.

`Observability`. `channel[t]` is what the recorder's subscription to an event type holds,
`lagged` the types whose next `recv` is an error. The recorder may take from any channel
that is not empty. `published`, `about` and `overflowed` are reference variables.

`HttpServer` and `HelloAuthDb`. `listener` is the accept loop: `starved` while every
`accept` fails for want of a file descriptor, which the loop warns of and goes on
(`AcceptError`); `conn[c]` is a connection,
`at[c]` the await its task stands at, `request`, `handler` and `reply` the locals of
`serve_request`. `users` and `nextId` are the table, `subject[c]` the id a handler holds
between two awaits. `minted` and `since` are reference variables: every token issued, with
the account it was asked for, and the time a request was sent. `Worker` are the runtime's
threads and `ContextThread` those whose thread-local context `main` has set: a handler runs
on any worker.

### Abstractions

Payloads, messages, type names and log lines are dropped, and so are durations except in
`Backoff`, `Triggers`, `Scheduler` and the lifetime of a token: elsewhere a sleep may
elapse, a deadline may pass and a job may become due at any moment, which adds behaviours
and hides none. A path is a sequence of segments, a token its claims and the key that
signed it, a request body the record the handler reads from it or one that does not parse.
Locks that are held without an await make one step. External code (sqlx, matchit,
jsonwebtoken, tokio's channels, the subprocess) is modelled from how this code uses it.

## 3. Runs

| run | instance | shows |
|---|---|---|
| `MCSupervision` | two registrations of one name (OnFailure with two attempts; Always) | WithinBudget: no more starts than the policy's budget. ExitReported: a watcher that ends by itself published a final event. NoneForgotten: a live watcher is in the map or accounted for. EventProtocol: refinement of ServiceLifecycle. ShutdownEndsWatchers (liveness) |
| `MCRuntimeLifecycle` | a plan of two services, one caller of shutdown beside the main task, two calls of shutdown_gracefully | FailFast: after a failed start no further one. QuietAfterStop: after RuntimeStopped nothing runs that drain did not give up on. RuntimeSupervises: refinement of Supervision. ShutdownCompletes (liveness) |
| `MCJobWorkers` | two workers, two jobs (budgets 0 and 2; the second may hang; the first may be unknown), two listed queues and an unlisted one, panics, shutdown | Sound: records and queues agree. HolderUnique: one worker per job, at the attempt it took. OutcomePublished: the store never runs ahead of the bus. ImplementsLifecycle. JobsSettle (liveness) |
| `MCSqliteJobs` | two processes with a worker each, which listen to both queues or one to a single queue and the other to none; two rows, two crashes or shutdowns, one failing statement or unreadable row | Sound: one worker of all processes per row. StuckOnlyByFault: a Running row nobody works on was orphaned by a fault, or did not convert when it was pulled. ImplementsLifecycle. RowsSettle (liveness): a row of a queue somebody listens to is settled, unless a fault took it |
| `MCScheduler` | a one-shot schedule (After, At) that may hang and a recurring one (FixedRate, FixedDelay, Cron) with retries under jitter | Paced: no fire before its time, and every retry's delay between the first delay and the cap. CancelSuppresses: at most one fire after a cancellation. Sound: shutdown can reach every live schedule. CancelEnds, ShutdownEnds (liveness) |
| `MCEventChannels` | two senders, two receivers, capacity two, four calls, handles and bus dropped at any moment | Sound: every event a subscriber missed was reported to it. ExactlyOnce: a work event goes to one worker. ClosedIsDrained. ProducerWakes (liveness) |
| `MCMcpService` | the pings of the service, one client, three requests, a pipe of one line | AnswerIsOwn. Sound: a waiting request can still be answered, and answers and timeouts leave nothing pending. DisconnectedIsGone: events tell the truth about process and map. RequestsEnd, DeathNoticed (liveness) |
| `MCAppBuilder` | every bundled plugin and two of an application, of which three are added, one with* call of the application's own (a service that looks something up and providers under a name of their own included), routes over colon, brace and literal paths, six capability look-ups by two tasks | ServicesResolve: a plugin's service that fails to start in a validated build found every resource and has providers for every contract; one of its contracts has them under names its strategy does not look for. Balanced: weighted selection is exact under races. DocumentedIsRouted: what a document describes is what the router serves |
| `MCHelloAuthDb` | two connections, three requests, forged and expired tokens, one database error, a second worker thread, failing accepts | AcceptedIsOwn: /me speaks of the account whose credentials were given. OneAccount. Served (liveness): a connection in the backlog is accepted, unless the process runs out of descriptors, and a request whose body has come is answered |
| `MCObservability` | a plan of three services, the recorder the second; two slots, three events of a type | NoFalseAlarm: "Failed" means that some service has failed for good. Tally: once caught up and short of overflow, totals are exact |

Two of each thing suffice for the interesting cases: two watchers race drain and shutdown,
two registrations collide on a name, two workers compete for a job, two callers race
`shutdown` or `fetch_add`, two signups race for an email. The bounds:

- `U32Max` 3 (2 in `MCRuntimeLifecycle`): u32::MAX. Two attempts make a first failure, a
  restart and an exhausted budget; 3 lets an `Always` service saturate its counter.
- `MaxShutdownCalls` 2: the second call of shutdown_gracefully is the documented no-op.
- `MaxJobs` 2, `Limit` {0, 2} in `MCJobWorkers`: a job without retries, and one whose first
  attempt is not its last; a retried job and a fresh one meet in a queue. `MCSqliteJobs` has
  `Limit` {2}: the judgement of the budget is `dispatch_one`'s in both.
- `MaxTime` 1, `MaxStops` 2, `MaxErrors` 1 in `MCSqliteJobs`: a retry that is due later, a
  crash of both processes or of one twice, one statement that fails, or one row that is
  written unreadable, while others are not. Its two jobs are in two queues: in `Alike` they
  compete for the workers, in `Apart` nobody takes the second.
- `Capacity` 2, `MaxCalls` 4: four calls overrun two slots by two. They are too few for
  producers that compete for ever for the space of one queue, about which ProducerWakes
  says nothing. `MaxPublished` 3 overruns the recorder's two slots by one.
- `IndexBits` 3, `MaxNanos` 100, `JitterUnit` 4: the width of the retry index, the clamp
  of a delay and the fractions that jitter can take; the delays used reach their caps.
- `PipeSize` 1: a full pipe after one line, the case that blocks. `MaxRequests` 3: the
  ping, the client's request, and one after a timeout whose late answer may still come.
- `CounterSize` 16, `MaxLookups` 6 < 16: two whole rounds of the weights 2 + 1. The
  assumption LookupsAssumption keeps the counter from wrapping: at its wrap the rounds are
  not exact unless the total divides the counter's size (see below).
- `MaxPlugins` 3, `MaxOwn` 1, `MaxCalls` 3 in `MCAppBuilder`: a provider, a consumer and
  something between them, in every order; two conflicting routes and a document.
- `MaxRequests` 3, `MaxClock` 1, `Ttl` and `Leeway` 0, `MaxDbErrors` 1 in `MCHelloAuthDb`:
  two racing signups and a request with a token that may have expired.

`CHECK_DEADLOCK FALSE` stands where the system may really stop: a runtime that has stopped,
workers that have stopped, a schedule that is over, bounded calls that were all made.
`Supervision` never stops in that sense and is checked for deadlock.

### Where code and documentation disagree

Each of these runs ends in a counterexample; `PROJECT.json` quotes the lines.

| run | the source says | the code does |
|---|---|---|
| `MCWillRestart` | after ServiceFailed with will_restart the start is tried again | a *failed restart* is followed by ServiceStopped; under OnFailure with three attempts the watcher ends there, after two (`supervision.rs:391`). Under Always only the event is wrong |
| `MCAtLeastOnce` | at-least-once delivery | a row whose process dies while it is Running is never selected again (`sqlite.rs:121`), under a specification that restarts every process |

Smaller divergences, met while modelling and not given a run. The models do what the code
does.

- Kernel. drain drops the handle of watchers that miss the deadline, documented as
  aborted (`supervision.rs:242-244`, `262`). Two callers that race `EventBus::shutdown`
  both publish RuntimeStopping, documented as fire-once (`events.rs:239-244`), and
  RuntimeStopped may precede it. ServiceFailed is documented for a `start` that returns
  `Err`; the initial start publishes nothing. A second `shutdown_gracefully`, documented
  as a no-op, publishes RuntimeStopped again. A work queue is never Closed while the bus
  lives, though `events.rs:178-179` has `enqueue` report it when no Worker remains.
- Scheduler. `shutdown` misses a schedule between spawn and insert (`scheduler.rs:590`,
  `638`); `pending_count` counts schedules whose task panicked or ended before it was
  inserted. An exhausted Cron expression, documented as "do not fire", yields a delay of
  zero and fires at once for ever. FixedRate is measured from the last actual fire and so
  drifts.
- Builder. A requirement of *any* provider is met by one of any name, while consumers look
  up "default" (`MCAppBuilder` reaches this: the service's start fails); `plugins.rs:42-50`
  wants a plugin added before those that need it, yet validation runs after all of them. The
  round robin answers None for a picked name that is not registered, which its doc excludes
  (`capabilities.rs:241-243`), and "only modulo matters" of its wrapping counter is wrong
  unless the total of the weights divides 2^width. `JobsPlugin::auto_migrate` is not read by
  the SQLite plugin; of two JobsPlugins or two McpPlugins the last one's resources win. An
  HTTP service is the application's own and starts before plugin services such as
  migrations.
- Jobs. The SQLite `pull_next` converts the row after its UPDATE has committed
  (`sqlite.rs:160`): one that does not parse again is left Running and its worker only logs
  an error. The order of `JobsConfig::queues` is documented as no priority; the in-memory
  `pull_next` scans in that order. A panicking handler, or a record dropped at shutdown,
  leaves its job Running in either store (`lib.rs:879`).
- MCP. A failed ping ends the root task cleanly, so OnFailure never restarts the server,
  though `events.rs:73-74` and `plugin.rs:34-36` say so. A write to stdin lies outside the
  request's timeout (`stdio.rs:219`), so a full pipe blocks every request. `list_servers`
  says connected for each (`descriptors.rs:67-70`). A failed initial start is not
  retried, against `service.rs:9-11`. The abort of the root task at shutdown may leave the
  connection in the map and McpServerDisconnected unpublished. A failed or cancelled
  write leaves its entry in the pending map. The branch "Reader task dropped the sender"
  cannot be reached.
- Observability. A ServiceStarted handled after the ServiceFailed that followed it leaves
  a failed service at Ok, so the converse of NoFalseAlarm does not hold; a stopped service
  shows Ok; Lagged is ignored.
- Application. Draining does not await or abort connection tasks, so kept-alive
  connections are served after the runtime stopped; reading a body has no timeout, and
  neither the number of connections nor the time one may idle is limited: without file
  descriptors `accept` fails, the loop spins on it and the backlog waits; the
  secret is looked up twice per extraction, documented as once. The `Path` extractor takes
  one parameter of a route that has several. `translate_path` and `normalize_path` differ
  on a segment with a colon inside (`/a:b`; not modelled).
- `hello-auth-db`. Its context is a thread-local set on the main thread only
  (`examples/hello-auth-db/src/main.rs:31`) while `#[walastack::main]` builds a
  multi-threaded runtime: on a worker thread `issue_token` panics and a signup or login
  goes without an answer. The tests run on one thread. Two signups that race for an email
  give the second a 500 instead of a 409.

## 4. Fairness

Nothing anywhere makes anybody begin a call, ask for shutdown, or send a request.

`Supervision`: tokio runs every runnable task, so watchers, the placeholder task, aborted
watchers, `drain` and the rest of `start_service` get weak fairness. `SeeShutdown` gets
strong fairness: a restart loop leaves and re-enters the `select!` for ever, and tokio
polls its branches in random order, so a branch that is ready again and again is taken.
Weak fairness of `Supervise` includes that a restart's `Service::start` returns: a
service that hangs there blocks its watcher, which is why ShutdownCompletes of the
runtime assumes no such thing and holds by the drain deadline alone. Nothing makes a root
task exit. `RuntimeLifecycle` assumes only that the main task and entered calls of
`shutdown` go on and that the deadline passes; the watchers have no fairness at all.

`EventChannels`: a call in progress goes on, an open receiver is received from, the queue
wakes a waiting producer. `JobWorkers` and `Scheduler`: workers and schedules run, clocks
advance, aborts are carried out, and handlers outside `Hanging` return, fail, time out or
panic. `SqliteJobs`: also that somebody migrates the schema and starts ended processes
again, without which no row could settle. `McpService`: tasks run, timeouts expire, lines
arrive; stdin's mutex is tokio's, which is fair, hence strong fairness of `LockStdin`;
nothing makes the subprocess read or answer, and RequestsEnd excepts the case that it never
reads. `HelloAuthDb`: each connection task, and the accept loop for each connection in the
backlog, weakly: a loop that can accept a connection does so. An `accept` that fails for
want of descriptors (`AcceptError`) may do so at any moment and nothing makes one come back
(`DescriptorBack` has no fairness), so Served promises nothing to the backlog meanwhile. A
client need not finish its body. `AppBuilder` and `Observability` have
safety properties only.

## 5. Proofs

TLAPS proves the following for every value of the constants, from the named assumptions
of the modules alone; TLC evaluates each of them on the runs. Most say that bounds are
numbers, that placeholders such as `NoService` and `NoJob` are none of what they stand
beside, that a plan's entries are distinct. Those that say more:

- `RequestAssumption` (`HelloAuthDb`): clients have no token signed with its secret but
  those it issued.
- `SchedulerAssumption`: a retry's backoff does not shrink (`IsBackoff`: a factor of at
  least one, a base within a Duration). The code takes any f64; a factor below one shrinks
  delays by design, so that retries may then come sooner than the first is no fault of the
  scheduler.
- `LookupsAssumption`: a rotation's counter does not wrap, which `usize` grants for any
  number of look-ups a process lives to make; at the wrap the claim is false (section 3).
- `ServicesAssumption` (`RuntimeBuilder`): what a plugin answers for alone. A service of
  its own reads only resources it inserts and uses only contracts it provides or requires.
  Nothing is asked of the application, nor of anybody's names and strategies. The builder
  does not enforce it; `MCAppBuilder` evaluates it on every plugin the repository ships.
  What remains to be shown is what the builder is responsible for: order, replacement,
  validation, freezing.
- `RoutesAssumption` (`AppBuilder`): a described route declares the parameters of its path,
  which its author writes twice, and the placeholder value of DocumentedIsRouted is no
  literal of a route.

| module | theorem | property |
|---|---|---|
| `RuntimeLifecycleProofs`, part I | `TypeCorrect` | TypeOK |
| | `BudgetKept` | WithinBudget |
| | `ExitsReported` | ExitReported |
| | `LiveRootsAnnounced` | LiveRootAnnounced: while a root task runs, the last event is its ServiceStarted |
| | `ProtocolKept` | EventProtocol: implements `ServiceLifecycle` |
| | `WatchersRemembered` | NoneForgotten |
| `RuntimeLifecycleProofs`, part II | `RuntimeIsSupervision` | RuntimeSupervises: implements `Supervision` |
| | `RuntimeTypeCorrect` | RTypeOK |
| | `FailsFast` | FailFast |
| | `StoppedIsQuiet` | QuietAfterStop |
| `JobWorkersProofs` | `StoreSound` | Sound |
| | `HoldersUnique` | HolderUnique |
| | `OutcomesPublished` | OutcomePublished |
| | `ImplementsJobLifecycle` | ImplementsLifecycle: implements `JobLifecycle` |
| `SqliteJobsProofs` | `RunnersAreSole` | Sound |
| | `StuckByFault` | StuckOnlyByFault |
| | `ImplementsJobLifecycle` | ImplementsLifecycle: implements `JobLifecycle` |
| `McpServiceProofs` | `AnswersAreOwn` | AnswerIsOwn |
| | `ConnectionIsSound` | Sound |
| | `EventsTellTheTruth` | DisconnectedIsGone |
| | `UnderSupervision` | the service implements `Supervision` |
| `SchedulerProofs` | `PendingSound` | Sound |
| | `CancellationSuppresses` | CancelSuppresses |
| | `PaceKept` | Paced |
| `EventChannelsProofs` | `NoSilentLoss` | Sound |
| | `ClosedMeansDrained` | ClosedIsDrained |
| | `WorkDoneOnce` | ExactlyOnce |
| `ObservabilityProofs` | `FailedIsNoFalseAlarm` | NoFalseAlarm |
| | `TotalsAreRight` | Tally |
| `ApplicationProofs`, the builder | `StartsFailByName` | ServicesResolve |
| | `BalancedHolds` | Balanced |
| | `DocumentedAreRouted` | DocumentedIsRouted |
| `ApplicationProofs`, the example | `AcceptedAreOwn` | AcceptedIsOwn |
| | `AccountsAreSingle` | OneAccount |

Hardly any of the properties is inductive as it stands. What each proof adds:

`RuntimeLifecycleProofs`, part I: the supervision tree. WithinBudget says nothing of a
watcher in its backoff, which is about to count one attempt more; ExitReported nothing of
what a watcher that still runs has published. `IInv` adds to TypeOK, for each service,
`Sound`: nothing has happened before its root task exists (`Untouched`); in a backoff an
attempt is left (`Budget`); at each place of the watcher the last event, the counter and the
handle fit each other (`InStep`): in particular a watcher that backs off or restarts has a
dead root task and announced that a restart is due; and a watcher that ended by itself
published a final event (`ExitInOrder`). `StepTouches` and `Frame` reduce a step about one
service to that service. `KInv` is NoneForgotten with one fact about drain: only a running
drain holds watchers.

Part II: the runtime. `RInv` joins these two with what the main task's place says: how
many RuntimeStopped were published (`Counted`); that at most one start_service is open
(`OneStart`); that the map is empty from the drain on and that nobody calls shutdown_now
(`Drained`); that a watcher that ended left no root task running (`RootsEnded`, false of
`Supervision` alone, where shutdown_now aborts watchers); and how far the plan has come
(`InOrder`). Every step is sorted first into the few kinds of `RuntimeCases`, so that each
part is checked only against the steps that can disturb it. QuietAfterStop then follows:
when the runtime has stopped, NoneForgotten leaves a live watcher no place but `late`.

`JobWorkersProofs`. `StoreInv` is a matter of the store alone: each of its operations keeps
records and queues agreeing (every waiting job once in its queue, no other job in any),
given that its caller holds a Running job, which `HolderUnique` and `AtWork` supply.
`Judged` says that what a worker is about to tell the store has been published and that a
retry is only judged with an attempt left; `Recorded` that what the store tells was
published, from which OutcomePublished follows; `AttemptsLeft` that a job that waits may
run once more, without which a pull would break the abstract budget.

`SqliteJobsProofs`. The same three facts about rows instead of a store, with `DownIsEmpty`:
a process that is down has no workers left to hold a row. StuckOnlyByFault is inductive
beside them, as a row that cannot be read stays so (`WriteRows`). The proof needs no assumption on
how many processes share the table, because the UPDATE that takes a row is one statement.

`McpServiceProofs`. AnswerIsOwn rests on where the lines are. Whatever line is on its way,
in a pipe, in the subprocess or in a request's channel, its id was handed out before, and
if a request in progress has that id the line is that request's (`LinesFit`); no two
requests in progress share an id (`IdsApart`). Responses may be late, reordered or
missing, requests may be cancelled between any two steps. The accounts of the pending map
(`PInv`) are five facts that only hold together: an id belongs to one request for good
(`Owned`); no line with the id of a request that is not yet written is on its way
(`Unsent`); a response that was handed to a request has left the map and finds it waiting
(`Received`), so a request in progress is in the map or answered (`Awaited`); and a request
that ended by an answer or a timeout has left the map (`Settled`). `SInv` says for each
place of the service's task what the supervision tree sees of it (`Placed`), what the map
and the last event say (`Announced`) and who holds the subprocess (`ChildHeld`);
DisconnectedIsGone follows from the last two, and `UnderSupervision` from the first: the
events the service's task takes part in are steps of `Supervision` at that place, so its
theorems hold of an MCP server, restarts and aborts included.

`SchedulerProofs`. `OneLate` strengthens CancelSuppresses: once a fire has overtaken the
cancellation, the schedule is cancelled and not about to fire again. `OnTime`: what is left
of a sleep, added to what the clock of its trigger shows already, never falls below the
trigger's span; `DelayIsLongEnough` is the step that subtracts the time since the last fire,
`DueTicks` the one in which left falls and the clock rises. The other half of Paced is
arithmetic: the delay of a retry lies between the first delay and the cap
(`ExponentialInTime`, `JitterInTime`, `DelayInTime`), because the powers of a factor of at
least one grow (`PowerGrows`), and the invariant `Counted` says that an attempt that is
retried has a number. Beyond 2^31 attempts the index turns negative and the claim is false;
`FitsSigned` is that guard.

`EventChannelsProofs`. `OneChannel`: while the bus lives, whoever found a channel found the
one in the map, although it is looked up and made in two steps. `Accounts`: for an open
subscriber, what was published since it subscribed is what it received, what it was told
it lost, what it has yet to read and what it will be told it lost, in this order; the
lemmas `Opened`, `Owing`, `Losing` and `Receiving` say of this account, as a fact about
sequences, what opening, publishing, overflow and receiving do to it. `Ended`: who was told
that the channel is closed had drained it. ExactlyOnce counts; `Once` says instead that
whatever was taken is older than all that is queued, that one channel at most holds events
and that nobody took what another took, from which the count of one follows.

`ObservabilityProofs`. The recorder empties its channels in any order, so what its tables
say at a moment fits no single moment of the past. `OInv` therefore keeps an account per
channel. `Alarms`: an event in the channel of ServiceFailed that rules a restart out is the
last event of its service, as is one that made a service Failed. No step of the protocol
`ServiceLifecycle` publishes anything of a service after it (`Announced`, `LastWord`; that
supervision keeps this protocol is `ProtocolKept`), so the alarm stays true while it waits.
`Counted`: what was handled and what waits make up what was published, until a channel
overflows. `Accounted`: the same for each service, where the events about it are counted by
a function over the channel (`Leads`) whose existence, not value, is what the invariant
carries; the lemmas `Leads...` append to it and drop its head.

`ApplicationProofs`, the builder. None of the three properties can be inductive: each
speaks of one moment, when all calls have returned, when a service starts, or when a
document is served, and depends on everything before it.

Balanced. `RotationInv` keeps a tally at every moment, for every contract and provider:
the answers the provider has given and the calls in flight whose slot is its own are
together as many as the slots, of those the counter has handed out, that are its own
(`Tally`). A `fetch_add` adds a slot and a call in flight (`FetchAdd`), a `ResolvePick`
turns a call in flight into an answer, and no call in flight depends on another, which is
why races do not matter. What a whole number of rounds comes to is a fact about
sequences of weights: every slot below the total lies in one entry (`EntryOfSlot`,
`EntryIsOne`), an entry holds as many slots as it weighs, and k rounds hold k times as
many.

ServicesResolve. `ResolvingInv` says what the plugins applied so far have left in the
registries: their resources (`ResourcesIn`), the names they registered (`ProvidersIn`), only
services they or the application planned (`ServicesIn`); once built, requirements that are
met (`Validated`); and after a failed start, that a look-up of that service found nothing
(`Blamed`). Later plugins and the application may replace providers and strategies; the
parts hold because they speak of names, not of who is behind them. `HasProvider` then gives
every contract a plugin declares some provider in a build that passed, `ServiceFinds` turns
this into what a plugin's service reads and uses, and `ReachedResolves` says, strategy by
strategy, that a contract whose strategy looks for a name its providers have is obtained:
so one of the contracts of a service that failed is not `Reached`.

DocumentedIsRouted. `RoutesInv` ties each description, in a document or waiting for one, to
its route (`RoutedList`), and says that no two routes of the router have one method and one
shape (`RouterApart`), so that no two descriptions render into one operation. That a
request built from a documented path matches that route and no better one is
proved of paths of any length, since `translate_path` and `normalize_path` agree segment by
segment.

`ApplicationProofs`, the example. Between two queries a handler holds an id and a token
whose meaning rests on rows and tokens that other connections only ever add to. `Held` says
what it holds at each await; `Accounts`, that ids and emails are keys; `Tokens`, that a
token is signed and its subject is an account with the email it was asked for. `MeVerdict`
opens the chain of extractors: a request that passes has a token the server accepts, and one
that is turned away is not answered with 200. A row is never deleted, which the argument
needs and the code grants.

Induction over numbers (running totals, powers, rounds) is done without the library's
induction theorems, which take an operator as a parameter: `Descent` says that a set of
numbers without a least one is empty, which follows from `WFMin` and
`NatLessThanWellFounded`; a claim is then proved by giving it the set of numbers it fails
for. A recursive function is first shown to exist (`PowersExist`, `RunningTotalIs`) as a
function that meets its equation.

Only model-checked: the liveness properties (ShutdownEndsWatchers, ShutdownCompletes,
JobsSettle, RowsSettle, CancelEnds, ShutdownEnds, ProducerWakes, RequestsEnd, DeathNoticed,
Served). They rest on fairness and ENABLED, which the prover does not treat. Every
invariant and every action property of the runs that pass is proved, and so are all
refinements.

What is left for proofs: that `Observability`, driven by `Supervision` in place of its
protocol, keeps its theorems, by `ProtocolKept`.

## 6. Not modelled, and why

`PROJECT.json` gives the status of every part.

- `walastack-runtime/src/lib.rs` (re-exports, init_tracing, the OS signal), the test
  harness, macros, CLI, facade crates and xtask: no state of their own, or developer tools.
- Schemas, titles and descriptions of OpenAPI documents, headers and bodies of HTTP,
  LLM requests and responses: plain data that no control depends on.
- The session store: a map behind a lock with no interleaving inside an operation. That
  `get` does not look at the expiry is a fact of one line.
- The in-memory MCP client and LLM mocks: fixed answers for tests.
- Cron expressions: `Cron(n)` stands for any expression whose next time is n units away,
  zero included.
- sqlx, matchit, jsonwebtoken, tokio and the subprocess are external; their operations
  appear as this code uses them.

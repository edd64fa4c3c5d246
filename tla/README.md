# TLA+ models of hermes-agent-rs

hermes-agent-rs is an AI agent runtime in Rust. An agent loop alternates provider
calls and tool calls; a gateway serves chat platforms and an OpenAI-style HTTP
API; *managed runs* are kept in SQLite, survive the gateway's restarts and are
replayed; a scheduler runs cron jobs from a JSON file; MCP servers lend tools and
are shared by workers that may die. This directory models the parts whose
correctness depends on the order in which things happen, checks them with TLC
and proves some of the results with TLAPS.

Paths below are relative to `src/crates/`. `PROJECT.json` maps every definition
to the lines it stands for, lists the hazards of the code with the properties
that watch them, and names for each property a plausible bug (an operator
`Bad...` next to the definition it replaces) with which TLC finds it violated.

    tlc -workers 2 -config RunGateway.cfg ManagedRun        # one run
    tlapm ManagedRunProofs.tla                              # the proofs of one module

## 1. Inventory

| part | state it keeps | operations | what makes it hard | what must hold |
|---|---|---|---|---|
| managed run lifecycle (hermes-managed/store.rs, run_registry.rs; hermes-gateway/api_server.rs) | table `runs` (status, terminal hint, owner, claim token, lease), table `run_events`, in-memory `RunRegistry`, the run task and its heartbeat | create, claim, start, heartbeat, finalize, terminate (timeout, disconnect), cancel, recovery sweep | several gateways on one database, handlers dropped by clients, crashes between two statements, unconditional updates next to fenced ones | one ending, the recorded one; no agent works on an ended run; every accepted run ends |
| replay of interrupted runs (api_server.rs, run_summary.rs) | `replay_of_run_id`, recovery decisions and takeover updates in the event log, milestones of tool calls | startup and periodic sweep, replay request, cancel | the sweep works on what it read; lineages of children; milestones that travel through a channel | one executor per lineage, a budget of automatic replays, no effect a second time |
| what is told of a run (run_summary.rs, api_server.rs, hermes-cli/runs.rs) | derived: summaries, reports, notes; followers and verifiers of the log | follow, list, verify, summarise | many queries, one after the other, while the run and its children go on | what is told was true, in order and complete |
| agent loop (hermes-agent: loop_runner.rs, compressor.rs, parallel.rs, budget.rs) | history, iteration budget, running tools | provider call, tool batch (parallel or in order), compression, history cap, checkpoint | an interruption at any step, compression of a history that is also an index | requests the provider accepts; a stored call is not executed again |
| conversations (api_server.rs, hermes-cli/repl.rs, hermes-config/sqlite_store.rs) | table `messages`, `persisted_len`, provider fences; the REPL's `pre_len` | load, checkpoint, continue; /undo, /retry, /new, /compress, resume | a run that dies in the middle of a turn and is continued by another; two copies that differ after compression | what was said is stored; one answer per prompt, to that prompt |
| providers (hermes-provider) | the assembly of one answer, retries | request, stream, retry | streams that break off, fragments in any order | the answer is what was sent and shown |
| gateway sessions (hermes-gateway/session.rs, runner.rs) | concurrent map chat -> sender, one task per chat, bounded channels, `last_active` | route, evict, panic | eviction against routing against a busy agent | one agent per chat; every message answered |
| chat adapters, API chats (telegram.rs, discord.rs, message_split.rs, api_server.rs) | polling offset, channel, pieces of an answer; map of waiting requests, streams | poll, confirm, accept, send; chat, completion, stream | death between confirming and accepting; a stream with several ends | what was confirmed was taken; each request gets its own answer, whole |
| cron (hermes-cron) | jobs.json, its .tmp, .tick.lock | tool calls, ticks of several processes | whole-file rewrite, a lock only ticks take, jobs that run for minutes | edits hold, once is once, nothing beside itself, everything due is served |
| process registry, session cleanup (hermes-tools) | maps of background processes, cleanup entries in memory and in SQLite | register, unregister, cleanup, recovery at start | register and unregister are separate tasks | no process outlives its run unrecorded |
| MCP (hermes-mcp, filtered_registry.rs) | leases and manifests in state.db, pending calls, HTTP sessions, caches, update buffer and file | connect, call, refresh, sweep, shutdown, admit | workers that die, bounded pipes both ways, notifications that are lost | nothing of a live worker is ended, what a dead one left is; every call returns |
| files of the home directory (hermes-memory, hermes-skills, approval.rs, file tools) | memory files, skill directories, approvals.json, the files tools write | read, change, write back | one file, several processes or tasks, death during a write | what was acknowledged stays; a decision is remembered |
| terminal and delegation (repl.rs, clarify.rs, delegate.rs) | questions and approvals on one input; a child agent and its channel | ask, answer, time out; delegate | readers that cannot be cancelled; a channel nobody reads | who waits is answered, and with the answer to their question |
| agent definitions (agents.rs, publish.rs, yaml.rs) | YAML file, versions in the store | sync, publish, archive | a plan made of older reads | a quiet file and its version agree |
| configuration, core types, prompt cache, token counter | next to none | | parsing | see section 6 |

How they interact: an HTTP request becomes a managed run; the run task drives the
agent loop; the loop calls providers and tools and tells a checkpoint observer of
each safe point; the observer stores messages and events; finalize writes the
ending to the store, the registry and the event log and cleans the session up; a
recovery sweep on any gateway ends what a dead one left, and the replay sweep
starts children that continue the stored conversation. Chat platforms and the
chat requests of the API bypass all this: a routed message goes through a channel to
the session's own agent. The cron scheduler creates a fresh agent per job. The
REPL has one agent, whose rows are written when a turn is over.

## 2. Modules

| module | what it is | run |
|---|---|---|
| `ManagedRun` | the table `runs`, one operator per SQL statement and per WHERE clause, and everything in a gateway that changes a row | gateway, live, cancel_race |
| `RunLifecycle` | the abstract specification: a run is accepted, begins or is turned away, and what has begun ends once | implemented by ManagedRun |
| `RunReplay` | sweeps, replay requests, lineages, decisions | replay (requests), settling (replay) |
| `RunHandoffs` | how tool calls announce what they did, and the verdict drawn from it | replay (handoffs) |
| `RunTakeover` | the walks that tell a chain of replays who continues it | replay (chain) |
| `RunEvents` | the event log, `runs events --follow`, `runs verify` | around (events) |
| `RunSummary` | a summary put together by queries while the run goes on | around (summary) |
| `RunReport` | what of a summary is copied to the run it continues, and told | around (report) |
| `LineageReport` | who is said to continue whom when events are lost | around (lineage) |
| `SessionCleanup` | what a run's tools leave behind, and who ends it | around (cleanup) |
| `Transcript` | messages, pairing, compression, the messages each provider sends and what its API asks of them: pure operators | with AgentLoop |
| `AgentLoop` | the turn loop with its checkpoints, open to any driver | with the two that follow |
| `ManagedConversation` | AgentLoop driven by managed runs that are cut short and replayed | agent (managed) |
| `ReplConversation` | AgentLoop driven by the prompt of hermes-cli | agent (repl) |
| `ProviderChat` | one request to a model, with its stream and retries | agent (provider) |
| `ApiChat` | the chat requests of the HTTP API | agent (api), stream_cut |
| `GatewaySessions` | session map, session tasks, routing, eviction | sessions (sessions) |
| `ChatAdapters` | Telegram, Discord, the pieces of an answer | sessions (chats) |
| `CronJobs` | the job file, the tool, the ticks | cron (cron) |
| `MemoryFiles`, `SkillFiles`, `Approvals`, `FileTools` | the other files that are rewritten whole | cron (memory, skills, approvals, tools) |
| `TerminalInput` | prompt, questions and approvals on one input | cron (terminal) |
| `McpRuntime` | leases, manifests, sweeps of workers that share a store | mcp (leases) |
| `McpHttp` | the session of an HTTP server and its client | mcp (http) |
| `McpAdmission` | which tools a run is given | mcp (admission) |
| `McpUpdates` | resource updates, their buffer and file | mcp (updates) |
| `McpClient` | calls over the pipes of a stdio server | settling (calls) |
| `McpRefresh` | the registry follows the tools of servers | settling (refresh) |
| `AgentVersions` | an agent's file and its versions | settling (versions) |
| `Delegation` | an agent and the child it waits for | settling (tasks), child_stuck |
| `ManagedRunProofs`, `RunReplayProofs`, `GatewaySessionsProofs`, `CronJobsProofs` | theorems about the module of that name | tlapm |
| `RunHandoffsProofs` | theorems about RunHandoffs and RunTakeover | tlapm |
| `McpRuntimeProofs` | theorems about McpRuntime, McpHttp, McpAdmission and McpUpdates | tlapm |
| `ConversationProofs` | theorems about ProviderChat, ApiChat, ReplConversation and ManagedConversation | tlapm |
| `MC...` | instances for TLC | |

An MC module extends one component and instantiates others beside it. A variable
`part`, chosen in the initial state, says which of them moves in a behaviour, the
others keep their initial state: one run checks several components, each alone, and the
state space is the sum of theirs, not the product. A property of one part is
stated for the behaviours in which that part moves. Real composition is elsewhere:
both conversations are AgentLoop driven in two ways over the operators of Transcript,
whose requests are built from either history.

### ManagedRun

`row[r]` is the database row, `log[r]` the lifecycle events of the run, `reg[r]`
its entry in the RunRegistry, `task[r]` and `hb[r]` the run task and the heartbeat
task, `spawn[r]` where the handler that starts the run is, `home[r]` the gateway
it was started on, `close[p]` a finalize, terminate or cancel in progress (the
run task itself, a response handler or a cancel request), `sweep[w]` the rows a
recovery sweep has read. A step is the code between two awaits: a store call and
what follows it, or a synchronous stretch such as an update of the registry.
A future that is dropped ends between two steps. A gateway has one database
connection, so a sweep, which is one call, excludes its other calls (`ConnFree`).

Constants: `MaxUp` gateways at once, bounds on crashes, failing store calls and
dropped futures, `Panics` (an agent may panic), `Prompt` (the timing assumption: a
run that is attended does not lose its lease; the lease is 45 s, the heartbeat 10 s)
and `Preemptive` (the run task may end before `register_owned`, which takes an
agent that ends within microseconds).

### Replay, and what is told

RunReplay has one tree of runs per root; `parent`, `auto`, `claimed`, `decision`, the order in
which rows were written (a relation), and the states of sweeps, spawns and requests. Deriving one summary is one step, and
so is one propagation to all ancestors; every other await separates steps. The
handoffs that block a replay are one flag `risk`. `MaxDepth` is
max_auto_replays_per_root_run, `Batch` the batch of 64. What RunReplay takes as one
step is taken apart elsewhere: the verdict in RunHandoffs, the walk to the ancestors in
RunTakeover, the queries of a summary in RunSummary.

In RunHandoffs a batch of calls runs against a process, browser or MCP server; `relay`
is the channel to the event log, `last` the latest milestone of each family,
`pending` the checkpoints that wait for their result, `acts` a history of the
effects. `Crash` may happen anywhere; `Replay` executes again what has no stored
result, if the verdict allows it. `Mixed` allows several calls of one family in a
batch, `RelayKeepsUp` says that the relay has stored what it was sent before a call acts.

RunEvents, RunSummary, RunReport and LineageReport are about readers: an event log that
only grows, queried one kind at a time, and copies of what was read.

### The agent loop and its drivers

`history` is the agent's list of messages, `durable` the stored one, `persisted`
the observer's index into the first. A message is a role, the set of calls it makes
or the call it answers, and the turn it belongs to. Token pressure is a free choice,
the tail a compression keeps begins anywhere the alignment allows, and a failing
append may or may not have left its row. `StartRun` is a new prompt on the session,
`CutRun` an interruption at any step, `Replay` the next run that continues what is
stored. `Protected` and `HistoryCap` stand for 3 and 500. At the prompt there is no
observer: `mode` says where the REPL is and `row` how much of the turn is stored.

### GatewaySessions and ChatAdapters

A step of GatewaySessions is what happens under one lock of the map, or one
operation on a channel. The clock only advances; a pass of the cleanup reads it once
(`cleaner.now`), visits the entries one by one, and subtracts modulo `Word`. In
ChatAdapters the server's confirmed updates, the adapter's offset in memory, the
channel and the pieces of each answer are separate, and the process may die between any two.

### CronJobs and the other files

A step of CronJobs is one system call: open with truncation, write, rename; an open
file follows its name. With `Atomic` no tool call overlaps another access to the file,
which is how a user at one terminal meets it; without it everything interleaves. The
other files are rewritten the same way, and a text is the sequence of its entries.

### MCP

In McpRuntime time is counted in heartbeat intervals and a lease is what remains of it.
`conn[w, s]` is how far worker w has come with server s, `res` the process group or
session itself, `rows` the manifests, `pass[w]` the sweep a worker is in, `tasks` what a
shutdown left to spawned tasks, and `lost` a history of what no row will ever name. `Punctual`
says that servers are connected while the lease is fresh and that a due renewal is not
overtaken by the next interval. McpClient has both pipes bounded, and `Independent` says
that the server reads while it writes.

## 3. What the runs show

| run | part and instance | what TLC finds to hold |
|---|---|---|
| `gateway` | two gateways of which one is up at a time, two runs, a response handler, one crash, one dropped future, panics, preemption; 850 000 states | `TypeOK`; a started run is told to have ended at most once, and as the row says (`OneEnding`); no agent executes an ended run (`NoOrphanExecution`); a run left to itself ends completely (`EndsCompletely`); `RunLifecycle` is implemented |
| `live` | one run, a restart, a failing store call, late heartbeats, a response handler, a cancel request; 64 000 states | `OwnerIsHome`, `FencedWriter`, the recorded intent decides (`HintHonoured`), `EveryRunEnds` |
| `replay` | requests: a run and two replays, a caller, dropped requests; no handoffs, which only make a sweep refuse | only an ended run is replayed and no automatic replay is deeper than the cap (`LineageSound`) |
| | handoffs: two batches of two calls, two crashes, a channel of two | no effect happens twice (`EffectOnce`); no replay goes on without a session or subscription that its stored results speak of (`NothingLost`) |
| | chain: three runs, one crash; 1.4 million states in all three | when every walk has ended the logs say what the rows say (`LogsAgreeWithRows`) |
| `cron` | cron: one client, two schedulers, two edits, one death or failed output | `TypeOK`, `LiveReadable`, `OnSchedule` (once is once, an interval keeps its grid), `RunsAlone`, `HomeHolds` (what was edited stays), `WhoWaitsIsServed` (what is due is served) |
| | memory, skills, approvals, tools: two agents or processes on each file, a fault or a death | `HomeHolds`: the newest memory entries are kept and the prompt tells them; a process knows the skills that are there; what runs was granted; file tools act as if in order and leave whole files |
| | terminal: three questions or approvals, two turns | `HomeHolds` (an answer is to the question shown), `WhoWaitsIsServed` |
| `sessions` | sessions: two chats, three messages, three tasks, panics, eviction | `OneAtATime`, `OnlyPanicsLose`, and in `SettlesAndChats`: every message answered, unreachable tasks end, idle sessions are evicted |
| | chats: three updates, two with no text, a pushed message, one fault and one death | `SettlesAndChats`: confirmed is accepted, an answer again only after a death, its pieces without a gap |
| `agent` | managed: two turns, three calls, batches of two, compressions, a failing append, an interruption | requests are paired and accepted by each API (`RequestsSound`), `RunsWhatIsStored`, `TurnsStoredOnce` |
| | repl: three turns, two commands, a kill | `TurnsAreStored`, `RequestsSound` |
| | provider: three protocols, three retries, two calls of two fragments | `AnswerIsWhatWasSaid` |
| | api: a chat, a plain and a streamed request, one fault; 5 million states in all four | `AnswerIsWhatWasSaid`: each request gets its own answer, a stream is a beginning of it |
| `mcp` | leases: a worker that may die and one that stays, a stdio and an HTTP server, two faults | `SweepsAreSafe`, `OrphansReclaimed` |
| | http: two calls, a restart, a fault | what is open is named by the row and ended by the shutdown (`HttpSound`) |
| | admission: two tools asked for, four servers, a refresh | what is admitted is allowed, what is refused is blamed rightly (`AdmissionSound`) |
| | updates: two servers, a buffer of three, a restart; 810 000 states in all four | what a clearing call removes is what it returned (`ClearRemovesReturned`) |
| `around` | events, summary, report, lineage: see the constants in `MCAroundRun` | `ReadersSeeTruth` |
| | cleanup: a command, a background process, a browser, an MCP session used twice; 1.3 million states in all five | `RunLeavesNothing` |
| `settling` | replay: one gateway, three crashes, start failures, chains of up to three children | `OneInBudget`, `DecisionsLead`, `NoRiskyReplay`, `SafeRunsReplayed` |
| | calls: two callers, pipes of one message, three calls, two requests of the server | `CallsSettle`: every call returns |
| | refresh: a local and a remote server, two changes, two faults | `CallsSettle`: the registry catches up |
| | versions: two specifications, a publisher, two edits | `SyncConverges` |
| | tasks: two tasks of two calls, a channel of eight | `CallsSettle`: a delegated task returns |
| `cancel_race` | one run, one cancel request | violated: `StoredTerminalIsFinal` |
| `child_stuck` | one task, a channel of two | violated: `ChildReturns` |
| `stream_cut` | one stream, a turn of two calls | violated: `StreamIsWhole` |

Why the bounds are enough. The interesting interleavings involve one run and the
few actors that touch it; the second run and the second gateway are there for a
restart that sweeps while another run is alive. One crash, fault or drop of each
kind is enough to separate any two adjacent statements, and the runs combine them.
Replay needs a chain of depth `MaxDepth` + 1 and a crash for each link; a walk needs a
run with two ancestors, one of which is told last; a batch of two calls has one that is served
when the other's result is stored. Two turns are needed to confuse one with the next,
three calls for a batch and a later one, and a compression needs Protected + a tail of
messages, hence Protected = 2 and a cap of 5. A chat needs a session that is evicted and one
that replaces it, the third task replaces the replacement. Cron needs times up to 3 so
that an interval of 2 can be late. A lease of 3 intervals can be fresh, due and nearly over.
Pipes and channels are as small as they can be, so that they are full. Deadlock is checked
in `cron`, where the schedulers go on for ever; elsewhere a bounded number of runs, messages
or turns legitimately comes to an end.

### Fairness

Weak fairness unless said otherwise; none for clients, users, crashes and faults.

- `ManagedRun` (FairSpec): what the tokio runtime polls (handlers, closers, cancel
  requests, sweeps), the clock (`LeaseExpires`), a gateway being started again, an agent
  that returns (its iterations are budgeted and provider calls time out). `EveryRunEnds` needs
  `Panics = FALSE`: see below.
- `RunReplay`: the sweeps and spawns of a live gateway, the clock.
- `SessionCleanup`: the spawned tasks, the agent or its abort, who ends the run, the sweep.
- `GatewaySessions`: strong fairness of routing a message (a full channel serves its
  waiting senders in turn), weak fairness of session tasks and of the cleanup interval.
- `CronJobs`: store operations end, ticks recur, agents return.
- `TerminalInput`: the handler, the prompt, the timeout and the queue; strong fairness of the
  approval handler, which takes turns with a reader for one lock, and of a user who answers
  what is on the screen.
- `McpRuntime`: the clock and the tasks of a live worker; the steady one is started.
- `McpClient`: callers, the reader task, and a server that works or is dead. `McpRefresh`:
  notifications that were sent, and the refresh tasks. `AgentVersions`: a sync that was begun.
  `Delegation`: the child, its tools, the handler that denies.
- The other modules claim nothing of liveness. That a turn ends follows from the iteration
  budget; in the model the bound on calls would end it instead.

## 4. Promises the code keeps in part

Three runs are expected to be violated, each against a sentence of the repository that the
`findings` of PROJECT.json quote:

- A cancel request overwrites a run that ended meanwhile (api_server.rs:1974).
- A delegated child that streams more than its channel holds waits for ever, and its
  parent with it (delegate.rs:173; the comment at 171 says the sends fail).
- A streamed turn that calls the provider twice is cut at the end of the first call
  (api_server.rs:6033, and 5757 for managed runs).

The following are stated in the modules, kept under the constants of the runs, and not beyond.
To reproduce, change the constants named and check the one property.

| property | fails with | what happens |
|---|---|---|
| `StoredTerminalIsFinal` | RunLive, no ApiCalls, `MaxUp = 2` or `Preemptive = TRUE` | the sweep of a second gateway, or a finalize that found no registry entry, writes without a condition |
| `HintHonoured` | RunLive, `MaxUp = 2` or `Preemptive = TRUE` | the same writers overwrite an intent recorded after they read the row |
| `LiveLeaseUntouched` | RunLive, `MaxUp = 2` | a lease renewed between the sweep's select and its update (store.rs:1206) |
| `ActiveRunHeartbeats`, `NoOrphanExecution` | RunLive as it is | one failed renewal ends the heartbeat task while the agent goes on (api_server.rs:5377) |
| `QuietRunHasEvent` | RunGateway | a response handler aborts the run task between status and event (4654), a crash between them (4604), a start handler dropped there; without responder, crash and drop it holds |
| `EndsCompletely` | RunGateway with one run, `MaxUp = 2`, `Prompt = FALSE` | finalize finds its claim taken and skips the cleanup (4567) |
| `EveryRunEnds` | RunLive, `Panics = TRUE` | a panicked task leaves its heartbeat, which keeps the lease alive (5288) |
| `OneExecutor` | RunReplay with two callers | two requests each create a child (api_server.rs:5527; docs/specs/2026-04-23-managed-run-restart-recovery.md:62 asks for one) |
| `NoStaleBranch` | the same | a replay goes on from a run that another child has already continued (run_summary.rs:2774) |
| `EveryCandidateDecided` | RunReplay, `Batch = 1`, two roots | the batch is filled with runs that are already decided (store.rs:970) |
| `EffectOnce` | ReplayRequests, `Mixed = TRUE` | a later call of a family hides one that was served and not checkpointed (run_summary.rs:2807; docs/STATUS.md:69) |
| `EffectOnce` | ReplayRequests, `RelayKeepsUp = FALSE` | a milestone dies in the channel |
| `LogsAgreeWithRows` | RunTakeover, `Patient = FALSE` | an older walk ends after a newer one; a cancel of a run already continued names that run again (api_server.rs:1947, 2016) |
| `FollowerSeesAll` | RunEvents, `KeepsUp = FALSE` | the relay stores events after the follower has read its last page |
| `NoteSaysWhy`, `NoteDecides`, `ChildIsFollowed`, `FollowedSaysTruth` | the run `around` | notes made of facts of different moments (run_summary.rs:2093, runs.rs:1837), a child that is not the one followed (run_summary.rs:2765, store.rs:1778) |
| `OwnPrompt` | AgentManaged | a run that died before its prompt was stored is replayed as the continuation of the turn before, and completes with its answer (api_server.rs:5281) |
| `TurnsAreStored` | the repl part with `Pressure = TRUE` | a compression moves the index from which a turn is stored (repl.rs:425) |
| `OneAgentPerChat` | SessionAll with two messages of one chat | a session is evicted while its agent works (session.rs:170) |
| `EvictsOnlyIdle` | SessionAll, `Timeout = 2` | a session used a second after the pass read the clock: the difference wraps in a release build, a debug build panics the cleanup task (session.rs:169) |
| `AcceptedIsAnswered`, `NothingIsLost` | the chats part | accepted messages die with the process; so do unconfirmed ones whose batch was cut |
| `FreshSession` | the api part | the chat of a completion request without an id is one that other requests may enter (api_server.rs:5985, session.rs:187) |
| `LiveReadable`, `EditsHold`, `OnceRunsOnce` | CronAtomic, `Atomic = FALSE` | writers share one .tmp, and read-modify-write without a lock (cron store.rs:99, 70) |
| `PauseHolds` | CronAtomic | a pause made while the job runs is undone (scheduler.rs:294; tool.rs:182) |
| `OneReader` | the terminal part | the reader of a question that timed out reads on beside the prompt (repl.rs:439) |
| `MemorySound` | two writers | the later write takes the older text back |
| `ApprovalsSound` | two processes up at once, or an unreadable file | `always` of one is overwritten by the other, or forgotten |
| `FilesSound` | paths `f` and `./f` | two spellings of one file run together and lose a patch (parallel.rs:127) |
| `ClearRemovesReturned` | McpUpdates, `Limits` above 1 | indices shift while they are removed (lib.rs:3420, 3375) |
| `EveryCallReturns` | McpClient, `Independent = FALSE` | server and client wait on each other's pipe (lib.rs:3813, 899) |
| `RegistryCatchesUp` | McpRefresh, `Apart = FALSE` | two refreshes replace tools of one name (lib.rs:3607) |
| `LiveIsLeft` | McpLeases, `Punctual = FALSE` | a sweep lists a worker whose renewal is late and ends its servers (lib.rs:2351) |
| `EndsWithRegistry` | McpLeases, a server in `Listing` | refresh tasks hold the registry that would abort them (registry.rs:202) |

What the properties except. `OneEnding` exempts runs that were never started: the start
handler's failure path writes unconditionally. `OneExecutor` and `AutoBudget` (in `OneInBudget`)
are checked with one gateway; with two that replay automatically nothing keeps them apart.
`RequestsSound`, `RunsWhatIsStored` and `TurnsStoredOnce` ask that the transcripts loaded
were complete (`whole`): a compression inside a turn shifts the history under
`persisted_len` and leaves a gap or a repetition in the stored one, a torn append leaves a
duplicate, a prompt put on a session that was cut short in the middle of a batch leaves its
calls unanswered, and a panicking parallel tool answers with an empty call id. That a turn has one
final answer in the loop (`OneFinalAnswer`, in `RequestsSound`) asks besides that no append failed
where the history was compressed: the observer counts what it stored, not where the compression has
moved it (api_server.rs:748). `TurnsAreStored` is stated for sessions whose history was not
compressed and none of whose writes failed; `HttpSound` counts as lost a session whose row
was being written when the process died. At the prompt
`RequestsSound` holds until a turn was stored in part (`torn`): resumed, such a history begins
with an assistant message, which the Messages API refuses (repl.rs:430). `AnswerIsWhatWasSaid`
exempts the Responses provider where it retries after it has shown text or returns a
truncated stream, and arguments that cannot be parsed, which Anthropic's becomes `{}`.

Seen in the code and kept in the models, with no property to state: the session limit is tested
before the entry is taken and refuses chats that already have a session (session.rs:82); two
updates of one chat may be routed in either order (runner.rs:584); a death while jobs.json
is created leaves it empty for good (cron store.rs:31); a refused or panicked /api/chat waits its
full 300 s and stays in `pending` (api_server.rs:1329); an error ends a stream as if it were
complete; an HTTP session id issued again is never recorded (lib.rs:2057), a failed DELETE
at shutdown still deletes the row (2183), a 404 ends the notification stream for good; a change
of tools during an outage of the stream is missed; the message of a refused tool always
names stdio side effects (filtered_registry.rs:468); a memory entry longer than the file
allows empties it and is reported as kept; one SKILL.md that does not parse fails every
reload; reading a file past its end panics (file_read.rs:122); a command between its spawn and its
durable row is lost to recovery (terminal.rs:234); concurrent syncs publish a version twice
(agents.rs:623); /undo, /retry and /new do not touch the database.

## 5. What is proved

Seven modules hold proofs, checked by TLAPS to the last leaf. A theorem holds for every
value of the constants that satisfies the assumptions its module states about them (sets of
actors that are disjoint, bounds in Nat, model values that are not members), and, where it has
hypotheses, under those; TLC evaluates the assumptions on the runs. Every property below was
checked with TLC before it was proved, and what had to be added to make it inductive
is named. `theorems` in PROJECT.json lists the results.

### ManagedRunProofs

For any gateways, runs and callers and any bounds:

- `TypesHold`: `TypeOK`.
- `OwnershipHolds`: `OwnerIsHome`. The owner columns are filled only on a running row,
  with a lease, and by the gateway that spawned the run.
- `FenceHolds`: `FencedWriter`. An update that passes the comparison of claim tokens,
  whose WHERE clause names no status, meets a running row.

Under `Alone` - one gateway on the database (`MaxUp = 1`), store calls succeed (`MaxFaults = 0`),
leases are renewed in time (`Prompt`), no cancel request (`ApiCalls = {}`) - for any number of
runs, response handlers, crashes, restarts and dropped futures, with panics and preemption:

- `NoOrphans`: `NoOrphanExecution`. No agent executes a run that has ended.
- `EndsOnce`: `OneEnding`. A started run is told to have ended at most once, and as its row says.
- `LeavesNothing`: `EndsCompletely`. A run that only its own task ended has its ending in the row
  and in the log, its session cleaned up and its registry entry gone.
- `KeepsLifecycle`: `ImplementsLifecycle`. Every step of ManagedRun is a step of `RunLifecycle`, or
  none, under the mapping `INSTANCE RunLifecycle WITH`.

Under `Single` - one gateway up at a time (`MaxUp = 1`) and no agent that ends between `tokio::spawn` and
`register_owned` (`~Preemptive`), but with failing store calls, late leases, panics, crashes, dropped
futures and cancel requests:

- `IntentDecides`: `HintHonoured`. Whoever ends a run stores the terminal intent recorded last, as long as
  no cancel request is at work.

Each of the four hypotheses of `Alone` is needed. With a fault, one failed renewal ends the heartbeat
while the agent goes on, and a failed status write is followed by its event; with a cancel
request, two closers write the row; with two gateways or without `Prompt`, a sweep ends what
still runs. Section 4 gives the counterexamples; the run `gateway` satisfies
`Alone`, and the run `live` satisfies `Single`, so they and the theorems are about the same system.

The argument. `OwnerIsHome` is not inductive alone: a claim fills the owner with the
gateway the spawn runs on, so one needs to know that a spawn in progress has a home
(`HomeOK`), and the pieces need types: `IInv == TypeOK /\ HomeOK /\ OwnerIsHome`, kept as three
groups so that the lemma of an action names only the group it disturbs. One lemma per
store operator says what it does to a row, one per action that the invariant is preserved.
The endings need more: what an executing task implies of its row, lease, heartbeat and
registry entry (`TaskLife`); that a run is not yet touched by a closer before it is
started (`StartLife`); that a closer that will write without a condition is the only one of
its run (`Blind`, `CloserLife`); that the log holds one ending and it is the row's (`EventLife`);
that what a sweep has read is still so when it writes (`SweepLife`). `Lives` is their conjunction
over all runs. `EndsCompletely` rests on `Own`: how far the run's own task has got while
nobody else has touched the run. The refinement then needs one lemma per action, which
says what happens to the abstract state of the run concerned, and one frame lemma for the others.
`HintHonoured` is about steps, and the invariant under it (`Means`) says why a hint can be trusted: while a
gateway lives, the registry is where its closers agree. A running row of a started run has an entry, its
hint is the entry's or none (`EntryMeant`), and every closer of the run wants what the entry says (`CloserMeant`).
It holds as long as no cancel request has begun (`Uncancelled`), and a slot that was taken is
never free again (`NeverIdle`), so the implication is inductive.

### CronJobsProofs

For any clients, schedulers, jobs and faults, whether accesses overlap or not:

- `TypesHold`: `TypeOK`.
- `AloneHolds`: `RunsAlone`. Tool calls take no lock and processes die anywhere; the lock of
  the tick alone keeps a job from running beside itself.

Under `Atomic` (no tool call overlaps another access to the file):

- `ReadableHolds`: `LiveReadable`. A file that was once readable stays so, deaths and failed
  writes included.
- `ScheduleHolds`: `OnSchedule`. A job due once runs once, plus what was asked for and what a
  fault repeats; an interval keeps the grid of its creation.
- `AcknowledgedStays`: `EditsHold`. What a client was told to be there, or gone, is.

Without `Atomic` the three fail (section 4). The argument. That two ticks do not run one job is
a consequence of where the lock is held: a scheduler anywhere between the snapshot and the
end of its tick is the holder (`TickerOK`), and only one that finds the lock free takes it.
The types need the time: a completed interval job is scheduled from its own due time, which
is in reach only because a tick works on jobs that were due when it read them and the clock
does not go back. `StoreInv` adds that one process at a time is in the store and that its copy is
what it read with its own change (`Holds`). `CountInv` adds what records say wherever they are -
in the file, at a client, at a tick that has been running the job for a while - and counts:
as long as another run of a once job is to be expected (`Expected`), one run fewer has been
made (`Counted`).

### GatewaySessionsProofs

For any messages, chats, tasks, limits and clock:

- `TypesHold`: `TypeOK`.
- `OneAgent`: `OneAtATime`. Two agents work on a chat at a time only when one of them was
  evicted or an agent of the chat has panicked.
- `NothingLost`: `OnlyPanicsLose`. A message that was accepted is held by a living task until it
  is answered; only a panic leaves one without a reply.
- `EvictionsHold`: `EvictsIdleOrUsed`. What a pass removes was idle for the timeout, or was used
  after the pass read the clock.

The attempt to prove that only idle sessions are evicted failed for a reason: `last_active` may
be later than the clock the pass has read, and the difference wraps (session.rs:169). The
model subtracts as the code does since then, and the theorem says what remains true.

The argument. The map, the senders messages are routed with and the tasks must agree
(`Routed`), and every accepted message is held in one place by one task (`Kept`); with the types
the two are inductive together, neither alone: a message is not lost because the sender it is put
into has a receiver, and it has one because a task leaves the map before it ends.

### RunReplayProofs

For any runs, gateways, callers, crashes and faults, any depth and any batch:

- `LineageHolds`: `LineageSound`. Only a run that is over is replayed, and no automatic
  replay lies deeper than the cap.

Under `Prompt` (a live run renews its lease in time), whoever else is at work:

- `NeverRisky`: `NoRiskyReplay`. No sweep replays a run with an unresolved handoff.

Under `Prompt` and `Sole` (one gateway that sweeps, and nobody who asks for replays), which is the
part settling (replay), for trees of any size:

- `OneRunsInBudget`: `OneInBudget`. Of the runs of a tree at most one executes and at most the
  cap are automatic.
- `DecisionsFollow`: `DecisionsLead`. The decisions of the runs that an executing run continues lead to it.

The argument. `Depth`, `Root`, `Sources` and `Leaf` are recursive along the replay tree, and induction over the
tree is not to be had; but the tree grows by one leaf at a time, so the invariant carries
that the recursive functions exist and are unique (`Deep`, `Ends`), and one lemma for each
shows that a new leaf keeps it so. `LineageInv` adds what each sweep, spawn and request knows of
the run it works on (`Proper`). For `NoRiskyReplay` what a sweep has listed was interrupted, and stays
dead as long as leases are renewed in time (`SafeInv`). For the last two the tree is a line
(`Trees`, `Lines`): every row but the last has ended (`Finished`), the automatic ones are as many
as the line is deep (`AutosDeep`), and the decision of a run that was continued names its only
child (`Followed`).

### RunHandoffsProofs

Under `Announced` - a batch holds one call each of the browser and of MCP (`~Mixed`), and the relay
has stored an announcement before the call acts (`RelayKeepsUp`) - for batches of any size, any number of
batches and crashes, and any capacity of the relay:

- `ActsOnce`: `EffectOnce`. No effect happens a second time.
- `LossIsSeen`: `NothingLost`. No replay goes on without a session or subscription that its stored
  results speak of.

With `Mixed`, or without `RelayKeepsUp`, an effect is repeated (section 4).
The argument. Whatever may have acted is known to the verdict, from the log or from
what is on its way (`Noted`, `CallOK`): `HandoffInv`. For the second, the checkpoint of a call that
succeeded waits until its result is stored, results are stored in the order of the calls, and
what a replay believes is a checkpoint or the one result between the two writes: `NewsInv`.

For chains of any length and any number of crashes, and for the requests of the run `replay`:

- `LogsHold`: `LogsAgreeWithRows`. When everybody who tells of a run is done, the logs of the
  runs it continues say what the rows say.
- `LineageHolds`: `LineageSound`, for the instance of RunReplay that the run composes with the two others.

For the chain the invariant names the last member (`ChainAt(l)`) and says of each walk what it has still to tell:
what a log lacks is told by a walk that has not passed, or by one that comes later.

### McpRuntimeProofs

For any workers and servers, any lease and any number of deaths and faults:

- `RowsGoLast`: `RowGoesLast`. A row is dropped only after what it names has ended, but for a
  session whose DELETE failed at shutdown.
- `SweepsHold`: under `Punctual`, `SweepsAreSafe`. What a live worker has opened is ended by
  nobody else, and the row is the last thing that goes.

The argument. A worker opens something only with a lease; while it lives and is punctual
its lease does not run out (`LeasesOK`); rows name what was opened (`RowsOK`); hence what a sweep
has listed belongs to workers that are over, and stays so, since no worker id is used twice
(`PassOK`, `Onward`); a row is dropped by the sweep that has just ended what it names, or by a task that
a shutdown left behind (`TasksOK`).

For any calls, restarts and faults, any tools and servers, and any number of updates:

- `HttpHolds`: `HttpSound`. A session open at an HTTP server is known to its client, to a row, or
  counted as lost; the client has one row; and it listens until the server refuses to stream.
- `AdmissionHolds`: `AdmissionSound`. A run that is admitted has the tools it asked for, built-in or
  of servers the operator allows; a refusal gives the reason that holds.
- `UpdatesHold`: under `OneAtATime` -- callers ask for one update at a time, section 4 says why -- `ClearRemovesReturned`.

The first rests on the order of the steps of one initialisation (`HttpOpening`, `HttpOrder`): who has a new
session and has not written its row is the only one that initialises. The second is a matter of what each gate
may assume of the gates before it (`AdmissionFinds`, `AdmissionGates`), a refresh between any two. In the third an
update is in the channel or in the buffer and there once, and what is about to be returned, or was, in neither; nor is
what was returned in a file that can be read (`Apart`).

### ConversationProofs

For any number of requests, texts, calls, fragments, retries and faults:

- `AnswerHolds`: `AnswerIsWhatWasSaid`. The answer of a request holds all that was said (with the
  exceptions of section 4), each request of the HTTP API gets its own turn's answer, and a stream is
  a beginning of it.

For any number of turns, calls, commands and kills, any protection and any cap:

- `TurnsHold`: `TurnsAreStored`. The rows of a session at the prompt are the turns that were
  answered, each whole and once.

The first needs, of each protocol, what has been put together of what was said (`Put`): of the Messages API an
open block is the last one; and of the HTTP API, which chat is whose and what each task has still to send
(`Seated`, `ApiType`). For the second `Kept` relates the history, the rows and what is written at
each mode of the prompt: behind `pre_len` is what this turn has said, before it what the rows hold
or a failed turn has left. A tool batch appends to the history through FlattenSeq, a recursive function on
naturals; the induction needed for it is done on sets of numbers, with the well-foundedness
of strict inclusion of finite sets, which the library states without an operator parameter.

For managed runs, with any number of turns, calls, batches, panics, faults and crashes, and whatever is
compressed:

- `RunsAreStored`: `RunsWhatIsStored`. A call is executed only when its message is among the rows, while
  nothing was compressed and no write failed, and never when its result is, while transcripts are sound.
- `RunsAreWhole`: `AllStored`, the half of `TurnsStoredOnce` that says nothing is missing.
- `RequestsHold`: `RequestsPaired`, the part of `RequestsSound` about pairs. In what is sent to the provider,
  every call is followed by its results and every result has its call.

All assume `Observed`: the runs of a durable session are given the checkpoint observer (api_server.rs:5063).
The invariant (`ManInv`) has three parts beside the types. `Told`: history, rows and what was said are one as far
as `persisted_len` says, while nothing was compressed and no write failed. `Batched`: calls to be run are in the
history. `Ordered`: what was said and the history are `Fine` -- a result lies behind its call, each call is
made once -- and the calls to be run are `Open` in both: no result of them anywhere. A call that is pending at a boundary is open
because behind the message that makes it are only results (`WaitingUnanswered`); a compression
keeps all this: `Summarized` takes whole messages out, and a result is made up only for a call whose
result is gone, behind the call (`SummaryFine`, `SanitizeFine`, `Compressed`).

`RequestsHold` needs a second invariant on top (`PairInv`). What was said is `Neat`: the results of a message lie
right behind it (`Owned`), one of each call (`Once`), and a call without one is pending, or a
tool of its message panicked (`Left`). `Paid` says when the loop has answered what was asked, `Tidied` that the
history, once compressed, is as neat. A compression keeps that because it cuts
whole blocks -- a message and its results -- or adds the results it has cut (`SummaryUnbroken`, `SanitizedTidy`,
`CompressedTidy`). Before it was proved, TLC checked `PairInv` on the instance of the run `agent`.

### Only model-checked

- Liveness and everything that needs fairness: `EveryRunEnds`, `SafeRunsReplayed`, `RunLeavesNothing`,
  `WhoWaitsIsServed`, `SettlesAndChats`, `OrphansReclaimed`, `CallsSettle`, `SyncConverges`.
- `OneFinalAnswer`, the other half of `TurnsStoredOnce`, in a managed conversation whose history is compressed,
  cut short and continued: how far a compression moves the messages under `persisted_len` needs facts about positions
  in sequences that the library does not have; the instance has two turns, three calls, and a compression and an
  interruption at every step. Of `RequestsSound`, what the three request builders make of a paired history.
- `HomeHolds`, `ReadersSeeTruth`: conjunctions over many small parts (five files, four readers), each checked
  exhaustively. Not attempted.

## 6. Not modelled

Artifacts, listings, search, usage figures and what the CLI prints; shells, browsers and pages
behind the tools; the parsing of configuration, agent definitions and SKILL.md; cron expressions
and delivery; the orderly shutdown of the gateway; signing of tool calls (hermes-tools) and the
filtered access to skills, which nothing calls; credentials and the JSON of requests; the prompt cache
and the token counter, which only choose when and what to send; two runs at once on one
session; memory providers outside the process. Event details that no decision reads are
left out; messages, ids and errors are model values.

## 7. Plan

1. `OneFinalAnswer` for every value of the constants, on top of `ManInv`: a compression keeps the order of final
   answers, and moves none forward by more than the summary.
2. `HomeHolds` and `ReadersSeeTruth`, part by part.
3. Two runs on one session, and SessionCleanup composed with the `Cleanup` step of ManagedRun.

# IronClaw Go in TLA+

A TLA+ model of the concurrent core of IronClaw Go, an AI assistant whose tool
calls may need a user's approval. The modules are translated from the Go source
(`src/internal/...`); TLC checks them on small instances and TLAPS proves
every safety property of the modelled components for instances of every size;
liveness is model-checked.

## 1. The system

One process. `app/builder.go` wires the parts together:

    repl, HTTP gateway, webhooks, websocket       (channels: message sources)
            |  channels.Manager: merges the streams
            v
    agent.Agent.Run  -- one goroutine, one message at a time
            |  LLM answers in text or asks for tool calls
            v
    tools.Dispatcher -- allow list, rate limit, approval, gates, tool
            |                              ^
            v                              |  same dispatcher, other goroutines
    gate.PendingStore  <-- HTTP handlers   worker.Pool (background jobs)
    gate.RiskBasedEvaluator  (approve / deny / list)

When a gate asks for an approval, the dispatcher files a request in the
`PendingStore` and returns a pause error; the agent saves the rest of the batch
in the `SessionManager` and answers `pending_gate`. The user approves over HTTP
and sends `__resume__`; the agent restores the batch and dispatches the paused
call again, which now finds the approval.

### Inventory

| Part | State | Operations | Works with | What is hard | What makes it correct |
|---|---|---|---|---|---|
| Approval store `gate/store.go` | four maps, TTL | Create, Get, GetByRequestID, Resolve, Deny, ConsumeResolved, ClearResolved, List | dispatcher, agent, gateway handlers, under one mutex | answers repeated or late; overwritten requests; lazy deletion | maps agree; one answer per request; an approval is given before the deadline and used once |
| Risk evaluator and gate `gate/risk.go`, `gate/approval.go` | learned approvals with their time | Evaluate, RecordApproval, CleanupExpired | dispatcher, approve handler | expiry; one key for many calls | nothing runs unasked that policy or a recent approval of the same user does not cover |
| Agent `agent/agent.go`, `router.go`, `session.go` | saved executions, sessions | ProcessMessage, runLLM, handleLLMToolCalls, Resume | LLM, dispatcher, store | pause, new message, expiry and answers in any order | each call of a batch ends once, in order; a dropped batch stays dropped |
| Dispatcher `tools/dispatch.go` | none of its own | Dispatch | limiter, store, gates, tools | approval taken and gate evaluated in two store calls | a high-risk tool needs an approval of its thread |
| HTTP gateway `channels/httpgw` | waiting requests, event subscribers | chat, stream, gates endpoints | agent, store, evaluator | many handlers at once | an answer reaches the request it is for |
| Channel manager `channels/manager.go` | registered channels, queues | Start, Add, Remove, Inject, Receive, ShutdownAll | all channels, agent | two hops over bounded queues; namesakes; closing; channels whose own Shutdown waits | nothing lost, doubled, reordered; shutdown ends unless a handler or a client holds it up |
| Worker pool `worker/worker.go` | semaphore, WaitGroup | Submit, poll loop, Stop | job table, dispatcher | Stop against a blocked loop; failing updates | Stop drains; jobs are taken up |
| Rate limiter `safety/ratelimit.go` | counter and window per key | Allow | dispatcher | window border, limit zero | bounded burst |
| Event hub, websocket, webhooks `httpgw/events.go`, `websocket/`, `webhooks/` | subscribers, connections, queues | subscribe, publish, connect, accept, Shutdown | agent, manager | full buffers, registration against shutdown, timeout against room | tables hold the live handlers; everything ends |
| Database, history, sessions `db/`, `history/`, `agent/session.go` | conversations, messages, jobs, action records; threads and turns | save, list, delete; switch, compact | agent, endpoints, jobs, audit goroutines | two drivers that differ; deletion in two calls; late and failing audits; lists cut at a limit | one owner; deleted is gone; pages and statistics are those of what was listed |
| Orchestrator `orchestrator/` | jobs, tokens | CreateJob, CancelJob, reaper | (not wired) | reaper between list and update | limit and index; only overdue jobs reaped |
| Extensions `extensions/` | map and directory tree | Discover, Install, Uninstall, Activate | (not wired) | overlapping calls, failed writes, crash | map and disk agree; an active module is the vetted one |
| Catalog `registry/` | manifests, entries | load, search, convert | extensions | missing or empty sources | nothing offered is lost; only an empty build source is added |
| Message path `agent.go`, `hooks/`, `document/`, `skills/` | handlers, skills | Trigger, Process, AttenuateTools | agent | skills overwritten or removed between two reads; failing hooks | hooks of a message in order; prompt and tools agree |
| LLM clients `llm/` | a streaming goroutine | Complete, StreamComplete | agent | results matched to calls; cancellation | calls and results correspond; a stream ends |
| Configuration `config/` | one record | Load | builder | four layers | order of the layers; usable result |
| Process `app/builder.go`, `cmd/ironclaw` | | Run, interrupt, Stop | agent, pool | exit under running jobs; a client that does not read | an interrupt stops the process if the clients read or leave; no job is cut |
| Safety patterns, tools, workspace, secrets, ownership, sidecar | little or none | text, I/O, crypto | | | see section 6 |

`PROJECT.json` lists every component with its sources and status, and the
hazards line by line.

## 2. Modules

| Module | Models | Extends / instantiates |
|---|---|---|
| `ApprovalLifecycle` | abstract: what the store promises its users | |
| `PendingStore` | `gate/store.go`, one action per exported method | refines `ApprovalLifecycle` |
| `RiskEvaluator` | `gate/risk.go`, `ApprovalGate.Evaluate` | |
| `AgentApproval` | agent, session manager, dispatcher, gate endpoints, a background job | extends `PendingStore`, instantiates `RiskEvaluator` |
| `ChannelManager` | `channels/manager.go`, repl as a closing source | |
| `Gateway` | chat requests and the agent that answers them | |
| `Identity` | `auth/auth.go` and who a caller is to each endpoint | |
| `EventHub` | `httpgw/events.go`, the event streams | extends `Identity` |
| `WebSocket`, `Webhooks` | the two other network channels | |
| `Providers` | `llm/*.go`: requests and answers in an exchange of the agent | |
| `LLMStream` | `llm/*.go`: `StreamComplete` | |
| `Database` | `db/memory.go`, `db/postgres.go` | |
| `Records` | sessions, history endpoints, jobs and audits over the tables | extends `Database` |
| `WorkerPool` | `worker/worker.go` and the job table | |
| `Lifecycle` | `app/builder.go`, `cmd/ironclaw/main.go` | extends `WorkerPool` |
| `Orchestrator` | `orchestrator/` | |
| `Extensions` | `extensions/extensions.go` and the disk | |
| `Catalog` | `registry/`, `extensions/registry.go`, `types.go` | |
| `Config` | `config/config.go` | |
| `Pipeline` | `ProcessMessage` with hooks, documents, skills, events | |
| `RateLimiter` | `safety/ratelimit.go`, one key | |
| `MC...` | instances for TLC | the modules of their run |
| `PendingStoreProofs` | theorems about `PendingStore` | `PendingStore` |
| `AgentApprovalProofs` | theorems about `AgentApproval` | `AgentApproval`, `PendingStoreProofs` |
| `ChannelManagerProofs` | theorems about `ChannelManager` | `ChannelManager` |
| `GatewayProofs` | theorems about the network channels | `Gateway`, `EventHub`, `WebSocket`, `Webhooks` |
| `ClientProofs` | theorems about the LLM clients | `LLMStream`, `Providers` |
| `RecordsProofs` | theorems about `Records` | `Records` |
| `WorkProofs` | theorems about pool, process and orchestrator | `Lifecycle`, `Orchestrator` |
| `PartsProofs` | theorems about policy, limiter, extensions, catalog, configuration, message path | `RiskEvaluator`, `RateLimiter`, `Extensions`, `Catalog`, `Config`, `Pipeline` |

`MCGateway`, `MCParts`, `MCWork` and `MCRecords` hold several parts that share no
state. A variable `focus` chooses one of them in the initial state and only that one
takes steps, so the state spaces add up instead of multiplying, and nothing is lost:
none reads another's variables. `MCManagerLive` keeps the kinds of channels apart by
its bounds instead; they refuse only steps that no fairness demands (adding, removing,
new messages and requests, a client that stalls), so they hide no fair behaviour of
what is left.

### State and actions against the code

**PendingStore.** Every exported Go method holds the mutex for its whole body, so
each is one atomic action. The maps keep their names: `byKey` (the waiting
request of a thread; the key drops the user id), `byReqID`, `resolved` (approved,
not yet used), `consumed` (used or denied, with the time). `gate` is the object
behind the pointers: its fields never change after `Create`. `granted` and
`refused` are history. `Create` purges old `consumed` records and overwrites the
waiting request of the thread, as the code does.

**RiskEvaluator.** `assessRisk`, `Requirement` and `Decision` are pure operators;
`learned` is the map of learned approvals, `taught` the history of what was
approved.

**AgentApproval.** The agent goroutine is one process with a program counter
`pc`; its steps are cut at calls of the store, the only places where the gateway
or a job can interfere. `run` holds the handler's local variables, `pe` the saved
executions. Dispatch is `DispatchRefused` (allow list, unknown tool, rate limit),
`DispatchConsume` (takes an approval), `GateAllow` or `GatePause`, `Execute`;
`SavePendingExecution` and `Resume` are the two ends of a pause. A background
job takes the same path with an empty thread id (`Job...` actions). The gate
endpoints are actions enabled at any moment; `RecordApproval` is the part of the
approve handler that runs after the store was released. `log` records how every
call ended. Messages are tool invocations, chat and `__resume__`; the system
commands, which do not touch this state, are actions of `Records`.

**WorkerPool.** The loop goroutine (`Poll`, `StartJob`, `PollEnd`, `LoopExit`) and
one goroutine per semaphore slot, step by step down to the two deferred calls,
which run in the order WaitGroup, semaphore. `DBFails` lets each status update
fail.

**RateLimiter.** One counter with its window end; `passed` is the history of
admitted calls.

**ChannelManager.** Each Go channel is a bounded queue; a goroutine that has
received a message and not yet sent it on has it in `hand` or `loopHand`. The
injected messages are one more source. `Add` is two actions, as registration and
announcement are not under one lock. A send on the closed `injectCh` panics:
`crashed`. `ShutdownAll` closes `stopCh`, empties the table, waits for the Shutdown of
each channel in turn (`shutting`), closes `injectCh` and waits for the merge loop.
`holding` has the channels that may keep it waiting: a gateway (`Handling`) whose
handler has a message to send (`Request`, `Emit`), which `http.Server.Shutdown` waits
for until the caller's context ends (`ShutdownExpires`); and a channel (`Writing`)
with a client that does not read (`ClientStalls`), as the WebSocket channel closes
its connections with a frame of their own, and a gateway's event stream writes to
its client.

**Gateway.** A request's handler registers its channel of capacity one (`responses`,
`respChan`), sends to `msgChan`, which may block, and waits for a reply, its
timeout or the shutdown; `ChatLeave` is the deferred removal. The agent copies the
table (`AgentReply`) and serves the channels one by one (`SendMessage`), so that
requests come and go in between. A reply is named by the message it answers.

**EventHub.** Subscribe, Publish and Unsubscribe hold the lock; the handler of a
stream writes events, ends with its client or at shutdown, and unsubscribes.
Unsubscribe cuts the first place of the stream out of its list, as the loop of the
code does; Publish walks over the list once and drops what finds its buffer full.
`Identity` computes the user of a request at each endpoint from the key and the
claimed id; the constant `Auth` is the authenticator Build installs.

**WebSocket, Webhooks.** A handler per connection: register, look at the shutdown
signal, read, send without a way out, leave. Shutdown signals first and sweeps the
table afterwards. A webhook is accepted when the queue has room, or refused.

**Providers.** `RunLLM`, `FirstAnswer`, `RunCall`, `Pause`, `ResumeExchange` and
`FinalAnswer` are the path from a question to its summary, `handleToolInvocation` the
turn of a `tool:` message, which leaves a saved execution alone; `convertMessages` and
`parseResponse` are the four clients: openai keeps calls and ids, anthropic leaves
out system messages, gemini speaks as the user and makes ids from names, ollama
has no ids. The service answers with any blocks of text and calls. `overtaking` is the
history of tools invoked while a question was paused.

**LLMStream.** The decoding goroutine, step by step: the look at the context, the
entry, the send over an unbuffered channel. A body is any sequence of deltas,
meaningless and undecodable entries; it may stop anywhere. The text of a chunk is the
set of the entries it comes from.

**Database, Records.** Each driver method is a step. Threads, turns and the current
thread of a user are the session manager's maps; the history endpoints delete in
two steps beside the agent; a job's audit record is saved by a goroutine of its
own, or with PostgreSQL is not (`AuditFails`; a save that fails after the server has
committed is `Audit`). Lists come in pages: from the memory driver any order of the
map, from PostgreSQL conversations with the latest change first; `ConversationLimit` and `JobLimit` are the 100
and 10000 that the history asks for. A message is its time of creation. What the LLM is told is looked at turn by
turn: a turn gives the user's message and, unless it is empty, the reply.

**Lifecycle.** The agent loop, the repl's end, the interrupt and Stop around the
pool's own steps, up to the exit, which cuts whatever still runs. `AgentAnswers` is
the broadcast: while a WebSocket client does not read (`blocked`), it waits.

**Orchestrator.** Table methods are atomic; CreateJob is two steps; the reaper
lists, compares and updates in separate steps, through pointers that see later
changes.

**Extensions.** Install is mkdir, open (truncates), write, config, map; Uninstall
is map, then tree. Each file operation may fail and the process may crash between
any two. A file is the set of installs whose bytes it holds.

**Catalog, Config.** Pure conversions as operators, the loads as actions. A source is
its type with the field that says where, which may be empty. Config takes one layer per
step and ends in validate.

**Pipeline.** One message from before:message to the broadcast, with handlers registered
and skills registered, overwritten and removed at any moment, a hook that fails, an
attachment, a tool chain. `lost` is the history of the skills that the prompt speaks for
as installed and that were removed or became trusted before the tools were chosen.

## 3. What is checked

| Run | Bounds | Shows |
|---|---|---|
| `store` | 2 threads, 3 requests, TTL 1, time 0..3 | `IndexSound`, `ApprovalSound`, `OneAnswer`, `ConsumedRemembered` and the refinement `ImplementsLifecycle` for any sequence of calls |
| `agent` | 1 session, a job, 3 requests, 2 batches, TTL 1, time 0..2 | `BatchInv`, `AuthorityInv`, `ExecutionsKept` |
| `sessions` | 2 sessions, 2 requests, 2 batches, TTL 0, time 0..1 | `AgentInv`: authority, batches and store across threads; `AgentReturns` |
| `manager` | 2 channels of one name, one of them closing, queues of one, up to the return of ShutdownAll | `Conserved`, `ManagerInv` |
| `manager_live` | one channel: a repl that ends, a gateway with two requests and a queue of one, or a WebSocket channel whose client stops reading while it is shut down, and an injected message; the gateway, and a channel beside an injected message, are added once | `Delivered`, `ShutdownReturns` |
| `gateway` | see below | network channels and LLM clients, with liveness |
| `records` | 2 users, threads, jobs and tools, 4 writes, limits 2, both drivers | `ThreadsInv`, `HistoryInv`, `RowsInv` |
| `parts` | see below | orchestrator, extensions, catalog, configuration, message path, policy, limiter |
| `work` | see below | process, pool and reaper, with liveness |

Most runs check conjunctions of named parts, one per component; every part has its
own definition and comment. Besides the component's type invariant:

| Property | Its parts |
|---|---|
| `BatchInv` | `BatchOrder`: the calls of a batch end one at a time and in order; `BatchComplete`: none is missing in the summary |
| `AuthorityInv` | `Authorised`: a high-risk call has its own approval, of its thread; `BackgroundNeverHighRisk` |
| `ExecutionsKept` | `DroppedStaysDropped`, `LiveExecutionKept`: a saved execution is resumed, expires or is dropped for good |
| `AgentInv` | `StoreInv`, `BatchInv`, `AuthorityInv`; `Positions`: agent and saved executions stand where the log of their batch ends; `Owners`: a batch goes on in one place; `Replaceable`: a new batch overwrites no live execution; `Approvals`: an approval is in the store, with its call, or spent |
| `Conserved` | nothing lost, doubled or reordered while the manager runs; nothing overtaken or received twice when it shuts down |
| `ManagerInv` | `OneForwarder` for a name; `OwnMessages`; `Registered` |
| `GatewayInv` | `WaitersRegistered`, `ReplyKept`, `FirstReply`: a handler answers with the first reply after it registered, and misses none; `OneBroadcast`, `RepliedLater`, `FirstReplyWaits`: where that reply is meanwhile |
| `HubInv` | `SubscribersOpen`: no event meets a closed channel; `EventOrder`; `KeyHolderIsOneUser` |
| `SocketInv`, `HookInv` | `ClientsRun`: the table holds the running handlers; `AcceptedOnce`: accepted means queued once |
| `ProviderInv` | `QuestionsOnWire`: the questions in their order, but for tools invoked while one was paused; `ResultsOnWire`: the results of the last calls, for each client; `ExchangeKept`: list, calls and results of an exchange, running or paused |
| `StreamInv` | `DoneMeansAll`, `OneAfterCancel`; `NothingSkipped`, `LookIsNext`: how far reader and goroutine are |
| `HandlersEnd` | `StreamsEnd`, `SocketsClosed`, `WebhookReturns`, `StreamCloses` |
| `ThreadsInv` | `ContextIsRecent`, `TurnsKept`: the latest turns, as many as compaction keeps; `OneOwner` |
| `HistoryInv` | `DeletedIsGone`; `PagesCover`: the pages of a thread; `RecentAreLatest`: the latest messages of as many conversations as are listed; `TimesApart`: each message has its own time |
| `RowsInv` | `NoOrphanRows`; `AuditTrail`: a completed job has its record, an audit under way or a failed save, and the statistics are those of the listed jobs (`StatisticsOf`); `OneRecord` of each job: to be saved, saved once, or given up |
| `OrchInv` | `JobIndex`, `TokenForEveryJob`, `ReapedWereOverdue`, `StampsOrdered`, `Tracked` |
| `ExtInv` | `MapMatchesDisk`, `ActiveIsVetted`; `CallsApart`: what a call under way has done to the tree |
| `CatalogInv` | `OffersKept`: an entry keeps what its manifest offers and adds an empty build source at most (`KeepsOffers`); `IndexMatchesCatalog` |
| `ConfigInv` | `LayersInOrder`, `LoadedIsUsable`, `MinimaxComplete`; `LayerByLayer`: the configuration after each layer |
| `PipelineInv` | `HooksPaired`, `ResponseEvents`, `DocumentText`; `PromptIsAttenuated`: an installed skill of the prompt means read-only tools, unless it was removed or became trusted in between; `OnItsWay`: the same for a message under way |
| `RiskInv` | `AllowedOnlyIfTaught`; `LearnedFromUser` |
| `LimiterInv` | `BurstBounded`; `WindowsApart` |
| `PoolInv`, `LifecycleInv` | `WaitGroupCounts`, `DrainedOnReturn`; `AppWaits`, `NoJobCut` |

`gateway`, by focus. *chat*: two requests and a message of another channel, a queue
of one: `GatewayInv`, `ChatReturns`. *streams*: two pages with one claim, one of them
with the key, 3 events, buffers of 2: `HubInv`, `StreamFollowsChat`, `StreamsEnd`.
*sockets*: two connections with two messages each, a queue of one: `SocketInv`,
`SocketsClosed`. *webhooks*: three requests, a queue of one: `HookInv`,
`WebhookReturns`. *exchange*: three questions, answers of up to two blocks, each
client: `ProviderInv`. *answer*: bodies of up to two entries, each client:
`StreamInv`, `StreamCloses`.

`parts`, by focus. *orchestrator*: 3 ids, limit 2. *extensions*: two callers with two
calls each. *catalog*: two loads, two names. *config*: every combination of environment and
files that differ in a deciding field. *message*: one message, one handler per
event, two skill names, attachments of each kind, chains of two. *policy*: 2 users, three calls of one key and
different risk, TTL 1. *limiter*: quota 2, window 2, time 0..9. Each of them checks
the invariant of its component.

`work`, by focus. *process* and *pool*: 2 jobs, 2 slots, failing updates: `PoolInv`,
`LifecycleInv`, `StopReturns`, `JobsTaken`, `InterruptStops`. *orchestrator*: one job,
timeout 1, time 0..4: `StuckJobsEnd`.

Why these bounds are enough to see the interesting cases: three requests are two
pauses of one batch and one more that overwrites or is denied; plans put the
pause first, second and twice; the clock passes each TTL or timeout once, so
everything can happen before, at and after its deadline; queues of capacity one
are full as soon as they are used, so every blocking send blocks; a subscriber's
buffer of two holds, keeps the order and overflows; two users and two threads are
enough for one to meet what is another's; two callers of the extension manager
overlap in every pair of steps, and their second calls meet what the first left
behind; three of four clients have a streaming goroutine and two entries give
each of them a text, a skipped or undecodable entry and an end; two jobs and two
slots fill the semaphore, because a job that cannot be marked running is handed
out again. The limits of 100 and 10000 are 2 here, and the properties look at every smaller
limit too, so lists that are cut and lists that are complete both occur; a gateway
with two requests has one in the queue and one handler waiting for its room. Symmetry is used only in runs without liveness properties. Deadlock
checking is off where the system really may stop: a pool, manager or server that
was shut down, a bounded set of sources that have nothing more to send, a
configuration that is loaded.

Every property comes with a mutant, an operator under a `\* Fault:` comment that
stands before the definition it replaces.

### Fairness

The agent: weak fairness of its steps (goroutines are scheduled; LLM and tool
calls return: the LLM clients, the http and the shell tool set timeouts). No
fairness for users, clients, handlers of others' requests or time, unless said.
The pool: weak fairness of the loop and of each job goroutine, strong fairness of
leaving the loop, since Go's `select` picks at random among ready cases, so a
closed `stopCh` next to a firing ticker is taken in the end. The manager: the
same for its selects; the agent keeps receiving, and a handler of the gateway sends its
message once there is room. `ShutdownReturns` assumes of each channel that its Shutdown
is not held up for ever, by a handler that waits at a full queue or by a client that
does not read; no fairness says so, because nothing in the code does: the write has no
deadline, and the context of ShutdownAll need not end. Gateway, websocket and webhook
handlers: weak fairness of the handler's own steps, its timer among them, since
timers fire; `ChatReturns` and `SocketsClosed` except the blocking send, which has
no timer. A sender blocked on the message queue is served in the end while the
queue is drained (strong fairness of `ChatQueue`: Go wakes senders in order), and an
event stream's `select` takes a shutdown that stays signalled (`StreamEnd`); so does
the agent's when it is interrupted (`AgentCancelled`). A stream: weak fairness of the goroutine and of a reader that stays;
reads of the body end by the client's timeout. The reaper: its ticker fires
again and again, and the clock goes on. The process: once interrupted, agent and
pool go on; `InterruptStops` assumes besides that from some time on no WebSocket client
stops reading, since the broadcast waits for it without a deadline. Nothing forces a source to speak, a channel to be added or an owner
to shut down; once begun, a shutdown goes on.

## 4. Where comments and code part

Three runs end in a violation, each of a statement quoted from the repository:

- `agent_match`: an approval is spent by the next call of the thread, also when it
  is another call than the one it was given for (`ApprovalMatchesCall`,
  dispatch.go:99). `Authorised` says what does hold.
- `agent_results`: after a pause and resumption the LLM is shown the results since
  the resumption only (`SummaryShowsAllResults`, design document line 459).
- `page_stream`: without an API key the stream belongs to `anonymous` whatever the
  page claims, the chat to the claimed user; the page, which claims `web`, never
  hears of its own messages (`StreamFollowsChat`, index.html:761). With a key, the
  run `gateway` shows that it holds.

Met while modelling, and not given a run:

- Approvals. Resolve answers success for a request that was denied (store.go:116).
  A repeated approval fails once the approval was cleared or its record purged
  (store.go:105). `GetByRequestID` may return another request of the thread
  (store.go:84). Learned approvals have no target in their key and age from the
  approval, not from the last use (design document lines 48 and 52, risk.go:149
  and 162). A resumed batch can be paused again (agent.go:470 calls it impossible).
  Background jobs are evaluated in interactive mode, so they leave requests behind
  (gate.go:34, dispatch.go:109).
- Agent. The answer of a tool chain is published twice: by finalizeToolResults
  (agent.go:513) and by ProcessMessage, whose comment names the first (agent.go:113).
  The tools the LLM calls run without the hooks of hooks.go:18-21, which are triggered for
  `tool:` messages only. `ResponseEvents` and `HooksPaired` ask for neither: they hold for a
  code that publishes once, and that triggers the hooks around every call. A `tool:` message sent while a question is paused adds its turn before the
  turn of that question (agent.go:223), so later requests have the two in another order
  than they were asked. The broadcast waits for a WebSocket client that does not read
  (websocket.go:76), and everything the agent does waits with it, an interrupt too. An
  installed skill that is in the prompt and is removed or overwritten by a trusted one
  before the tools are chosen no longer restricts them (agent.go:271). Conversations of the tool path
  are not persisted, compaction happens on the echo path only, a deleted thread
  comes back with its next text reply, `/new` creates no thread. A call whose output
  fails sanitising has run and is not audited (dispatch.go:159-163). Calls in the
  answer to the second request are dropped (agent.go:502).
- Clients. anthropic never gets the system prompt (anthropic.go:150, whose comment
  asks for special treatment) nor the calls its results belong to; ollama's stream
  ends without an error when its body is cut; a reader that leaves a stream leaves
  its goroutine behind; an unknown provider gives neither a client nor an error
  (llm.go:104), and the agent echoes.
- Channels. Nothing in the program calls `ShutdownAll`. With a context that has no end it
  may wait for ever on the gateway, whose server waits for a handler blocked on the full
  queue that the forwarder has left (httpgw.go:222). A channel added under a name whose old forwarder still runs, or while
  `addCh` is full, is never merged (manager.go:158). `Receive` on the closed stream
  returns an empty message without an error (manager.go:217). The default webhook
  port, HTTP port + 1, is the default websocket port. Hub keys join user and
  thread with a bar that a user id may contain.
- Jobs and records. A poll reads the 100 newest jobs of any status (worker.go:79).
  `Submit` and `SaveMessage` have no caller in the program. PostgreSQL refuses the
  audit record of a call outside a job, and any failed save of one is ignored
  (dispatch.go:210). The statistics are those of 10000 jobs. `RecentMessages` is to
  return a user's latest messages over all threads (history/store.go:41): it looks at 100
  conversations at most, any of them with the memory driver, and asks each thread for its
  oldest messages, so a limit of one and a thread of two messages yields the older.
  `RecentAreLatest` says what holds. The orchestrator
  counts ended jobs against its limit, never revokes a token, and its reaper may
  fail a job that has just completed.
- Start and stop. "Type 'quit' or 'exit' to stop." (builder.go:203): quitting ends
  the repl only. Audit goroutines are cut at exit. `MINIMAX_API_KEY` overrides the
  key meant for another provider; libsql passes validate and fails in db.New.
- Extensions. An install that fails at its configuration leaves the active entry on
  new code; an overlapping install and uninstall leave an entry without a module; a
  manifest with neither artifact nor source yields an entry with a build source that has
  no directory (manifest.go:167);
  the search of the catalog for "" lists hidden entries.

## 5. What is proved

Each theorem holds for every value of the constants that satisfies the named
assumptions of the modules: sets of threads, users, channels, jobs, pages and
messages of any size, every capacity, limit, timeout and TTL, every bound of the
model. The assumptions say that markers such as `None`, `NoReply`, `NoJob` and
`Never` are no ordinary values, that capacities are positive and bounds natural
numbers, that manifests, settings, files and attachments are of their types, and a
few things of the program: job ids are not empty
(`DatabaseAssumption`), jobs left by an earlier process are
finitely many (`LifecycleAssumption`), the owner of the API key has a name
(`IdentityAssumption`), a file that parses holds a number of workers
(`ConfigAssumption`), an attachment arrives without a text or with the one it was given
(`AttachmentAssumption`), and a job can be overdue before the model's clock ends
(`OrchestratorAssumption`; the reaper's liveness needs it).

| Module | Theorem | States |
|---|---|---|
| `PendingStoreProofs` | `TypeCorrect`, `IndexCorrect`, `ApprovalCorrect`, `AnswerCorrect` | `StoreSpec` keeps `TypeOK`, `IndexSound`, `ApprovalSound`, `OneAnswer` |
| | `StoreCorrect` | their conjunction `StoreInv`, which is inductive |
| | `RecordsKept` | `StoreSpec => ConsumedRemembered` |
| | `Refinement` | `StoreSpec => ImplementsLifecycle` |
| `AgentApprovalProofs` | `AgentCorrect` | `Spec => []AgentInv` |
| | `BatchCorrect`, `AuthorityCorrect` | its parts `BatchInv`, `AuthorityInv` |
| | `ExecutionsCorrect` | `Spec => ExecutionsKept` |
| | `AgentUsesStore` | `Spec => StoreSpec`: agent, job and endpoints change the store by its methods only |
| | `AgentImplementsLifecycle` | `Spec => ImplementsLifecycle` |
| `ChannelManagerProofs` | `ManagerCorrect`, `MergeConserves` | `Spec` keeps `ManagerInv`, `Conserved` |
| `WorkProofs` | `PoolCorrect` | `PoolSpec => []PoolInv` |
| | `LifecycleCorrect`, `AppUsesPool` | `AppSpec` keeps `LifecycleInv` and `PoolInv`, and makes only the pool's steps on the pool |
| | `OrchestratorCorrect` | `OrchSpec => []OrchInv` |
| `PartsProofs` | `PolicyCorrect`, `LimiterCorrect` | `RiskInv`, `LimiterInv` |
| | `ExtensionsCorrect`, `CatalogCorrect`, `ConfigCorrect`, `PipelineCorrect` | `ExtInv`, `CatalogInv`, `ConfigInv`, `PipelineInv` |
| `GatewayProofs` | `ChatCorrect`, `HubCorrect`, `SocketsCorrect`, `WebhooksCorrect` | `GatewayInv`, `HubInv`, `SocketInv`, `HookInv` |
| | `StreamsFollow` | `HubSpec => []StreamFollowsChat`, if both endpoints take every page for one user |
| `ClientProofs` | `StreamCorrect`, `ProvidersCorrect` | `StreamInv`, `ProviderInv` |
| `RecordsProofs` | `ThreadsCorrect`, `HistoryCorrect`, `RowsCorrect` | `RecordsSpec` keeps `ThreadsInv`, `HistoryInv`, `RowsInv` |
| | `DeletionsFinal` | `RecordsSpec => []DeletedIsGone`, the part about deletions |

Every proof has the same shape: the initial states satisfy an inductive invariant,
a lemma per action (or per group of actions that touch the same state) shows that a
step keeps it, and the property follows. Where the property was not inductive, what
it lacked became a named conjunct, so TLC checks the inductive invariant in the same
run as the property.

**Store.** None of the three safety invariants is inductive alone. `ApprovalSound`
says that an unused approval has no `consumed` record; `Resolve` and `Deny` preserve
this only because a waiting request has none either (`OneAnswer`). That a denied
request was not granted needs that a waiting request has no answer, which `Create`
preserves because a fresh request has none. `IndexSound` survives removals through
a stale request id because a request is filed under its own thread. In the
refinement `Create` maps to `Ask`, `Resolve` to `Approve` or `Lapse`, `Deny` to
`Refuse` or `Lapse`, `Get`, `List` and `GetByRequestID` to `Lapse` or a stutter,
`ConsumeResolved` and `ClearResolved` to `Spend`, `Tick` to `Pass`.

**Agent.** `StoreMoves` shows that each action is a step of the store or leaves it
alone, so `StoreInv` and the refinement carry over. That calls end once and in order
needs to know where a paused batch stands: `Positions` ties the index of the running
and of every saved batch to the log, and `Owners` says that no batch is at two places,
which is what keeps the agent's and the job's entries apart. `Authorised` needs the
way of an approval: taken out of the store, it is in the hand of one call until the
call is logged (`Approvals`); no one approves in the empty thread of a job, so a job
has none. `GateStopsHighRisk` is the fact about the policy: without an approval no
call of high risk passes the gate, whatever was learned. `ExecutionsKept` is an action
property: a step that overwrites a saved execution comes from a batch that met no
live one (`Replaceable`).

**Manager.** The numbers of a source's messages are looked at stage by stage, from
the agent back to the source. `Conserved` says that the stages are sorted, that each
is ahead of the next and that together they hold everything sent. A step moves the
head of one queue to the end of the next one (`MoveConserves`), adds a message
(`EmitConserves`), or, in a shutdown, drops some (`DropConserves`). That a goroutine
holds at most one message, and its own source's (`OwnMessages`), makes its hand a stage.

**Pool, process, orchestrator.** `WaitGroupCounts` counts by cardinality the slots
between `wg.Add` and `wg.Done`; a goroutine's step changes the count by one, or not at all
(`CountStep`). `DrainedOnReturn` follows, since `Stop` returns at zero and the loop,
the only one to start jobs, has ended by then. `AppSpec` makes pool steps only, so
`PoolInv` holds in the process, and `AppWaits` leads from there to `NoJobCut`. The
reaper decides on what it listed earlier: `Tracked` remembers that a job in progress
past its timeout is one of the overdue jobs, so `ReapedWereOverdue` survives the steps
between its look and its update.

**Policy, limiter.** A learned time is the last approval of some call of the same key
by the same user (`LearnedFromUser`); hence what is allowed was taught. `BurstBounded`
counts over a history; `WindowsApart` places the calls of the current window, the
previous one and all older ones by the counter alone, and `BurstFromWindows` turns the
places into the bound: a stretch as long as a window meets at most two windows.

**Extensions.** The two properties speak of moments between calls, which no step starts
from. `CallsApart` fills the gap: while the history is clean, the one caller inside a call
has done to the tree what its position says, and nobody else anything. Whatever fails,
overlaps or crashes ends the clean history until an install runs alone again.

**Catalog, configuration.** The index is the catalog seen through the conversion, so it
is a bijection from the usable manifests to the entries that gives both the count and
the searches (`CatalogEntries`). `LayerByLayer` states the configuration after every
layer as what the layers so far make of the defaults; the properties then follow field by
field (`EnvFields`, `FileFields`).

**Message path.** `HooksPaired` and `ResponseEvents` look at a finished message;
`OnItsWay` says for each place on the way what has been triggered, run, added and
published by then. Handlers and skills that change meanwhile change none of it
(`QuietStep`). Between the prompt and the tools a skill of the prompt is installed in the
registry still, or is in `lost`; so if one of the others is installed, the tools are
attenuated. What becomes of a skill once the tools are chosen has no effect on the request.

**Gateway.** While a handler has no answer, its channel holds the first reply since
it registered, or no broadcast has passed it yet (`FirstReplyWaits`); so the send to
a full channel, which is dropped, drops later replies only. `RepliedLater` excludes a
reply before the registration. The hub's invariant has one part per key and one per
stream; a list has no repetition, so `Publish` offers an event once and one cut
removes a stream. `StreamsFollow` has a hypothesis, `OneName` of every page: with a key
configured the page shows no key or the right one; without, it shows any key or claims
no other name than `anonymous`. For a page outside it the two endpoints may disagree, and the
run `page_stream` shows such a page missing its events.

**Streams.** While the goroutine runs the reader has the texts of exactly the entries
handed over, and none of these ended the answer (`NothingSkipped`); when Done comes
through the last entry is the ending one, so nothing is missing. After a cancellation
the goroutine has at most the chunk it was about (`LookIsNext`).

**Exchange.** `ExchangeKept` follows the list of an exchange from the question to the
summary: it asks the questions in order (`Before`: by number, with the pairs of
`overtaking` the other way round) and ends with its own, a paused batch keeps it,
and the results so far belong to the calls before the next one. What each client makes of
the list is then a lemma per client (calls are numbered in the order of their blocks,
`InOrderOk`); the one of anthropic, which skips messages, goes
through the list (`KeptInOrder`, `KeptTail`).

**Records.** Steps of the agent and the history endpoints leave the jobs alone, and
the other way round (`Apart`), so each invariant has half of the actions to survive.
A deletion is complete although messages are saved between its two calls: the memory
driver drops them with the conversation, and PostgreSQL has them only under a
conversation, with which they go; `DeletedIsGone` thus needs `NoOrphanRows`. The
statistics are cardinalities: `OneRecord` says that the list of a job is empty or
holds the record of its one call, so the records a tool is credited with correspond
one to one to its listed jobs (`ToolCounts`). A list that is cut is a first part of a list of
all (`FirstOfList`, `LimitFacts`): it has no repetition, and is complete if the limit is
not reached; one in descending order leaves out only what changed earlier (`LatestOk`).

Pages and latest messages are facts about what a state's lists yield; the only thing to
be inductive is `TimesApart`: every message has a time of its own, ascending in a thread.
So PostgreSQL's `ORDER BY` gives back the list as it is (`ByTimeIsList`), and a page is a
part of it (`PageOk`). `sortMessagesDesc` is shown to sort: after i rounds the
first i messages are later than all behind them (`SortedDesc`), since the inner loop for i
keeps in place i the latest of what it has passed (`InnerLoopSorts`, `ExchangeStep`), and
each exchange only rearranges.

**Loops.** The loops of the code over lists (`Kept`, `History`, `InnerLoop`,
`sortMessagesDesc`, `Gathered`) are recursive functions. The library's induction rules
take a predicate as a parameter, which the provers cannot instantiate; the proofs use the
least number principle instead (`LeastNumber`, from `WFMin`). `UpTo` is
induction in the form of a set of good indexes; with it `RecursionExists` shows that the
function a recursion asks for exists, so that the `CHOOSE` behind the definition has the
values of the loop.

Only model-checked:

- liveness, which is out of the prover's reach together with fairness and `ENABLED`:
  `AgentReturns`, `Delivered`, `ShutdownReturns`, `ChatReturns`, `HandlersEnd`,
  `StopReturns`, `JobsTaken`, `InterruptStops`, `StuckJobsEnd`;
- the violations of section 4, which are counterexamples and need no proof.

## 6. Not modelled

Not modelled, and why:

- the safety patterns, document formats, skill manifests and search snippets: text
  against patterns, without state; the models keep only their verdicts;
- tools, workspace, sidecar and the Rust runtime: I/O behind one step of the
  dispatcher. One race lives there: the memory tool lists a namespace after it has
  released its lock (memory.go:104);
- a thread that is switched between a pause and its resume: `Providers` follows the
  exchanges of one thread (the switch itself is an action of `Records`);
- compaction and the LLM's context in one process: compaction is on the echo path, which is
  taken without a client only, so no execution has both;
- errors of `ReadDir` and `Stat` in Discover, which it skips over; an explicit empty string
  in the TOML file;
- the order of `ListJobs` in PostgreSQL, by creation: the model allows every order, and with it
  every choice of the listed jobs;
- secrets and ownership: a map behind one lock, cryptography, and types that nothing
  in the program uses yet; observability: counters nothing decides on;
- the settings table, catalog bundles, generated gRPC code.

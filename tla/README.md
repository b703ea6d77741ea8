# FinHarness in TLA+

TLA+ models of FinHarness (`src/`), an agent loop for financial research behind
a streaming HTTP server, and of its web client: TLC model-checks them on small
instances, TLAPS proves the central invariants for every value of the constants.
Paths below are relative to `src/src/finharness/` unless they start with `docs/`,
`tests/` or `frontend/`.

Contents: [the system](#1-the-system), [modules and code](#2-modules-and-code),
[runs](#3-what-the-runs-check), [disagreements](#4-where-the-code-and-its-documentation-disagree),
[proofs](#5-what-is-proved), [left out](#6-what-is-not-modelled), [plan](#7-plan).

## 1. The system

A browser posts a chat message; the server starts one *run* of the agent loop
for the conversation and streams its events back. The loop asks a language model
for a batch of tool calls, puts some of them to the user, executes them, feeds
the results back, and so on until the model answers. Every step is written to a
snapshot table, so that a run whose process died can be resumed. Heavy
calculations are queued to worker containers.

| component | state it keeps | operations | interacts with |
|---|---|---|---|
| Agent state reducer (`engine/state.py`, `machine.py`) | `AgentState`: phase, batch of calls with status and result, prompt on record, turn counter | `transition(state, event)`, pure; `dispatch` persists, then publishes | store (one transaction per event) |
| Agent loop (`engine/loop.py`, `runner.py`) | per-run fields: resume phase, approvals, skipped permission checks, reminders; the tool coroutines of a pass | `run`, one effect per phase, `_classify_tool_calls`, `_execute_tool_use`, `_execute_inner`, prompts, wrap-up, abort | machine, gate, tools, memory, interaction port |
| Permission gate (`permissions/`) | session mode, categories allowed for good | `decide`, `resolve` | loop |
| Memory store (`context/memory/`) | messages, snapshots, runs, summaries, episodes (SQLite) | `commit_agent_transition`, `append_messages`, `abandon`, summary, search | loop, server |
| Working memory, compaction (`context/`) | buffered frames, summary and the prefix it covers | `hydrate`, `compact`, `flush` | loop, store |
| Confirmation bus (`server/confirm.py`) | pending prompts with futures, index by dedupe key | `request`, `respond`, `cancel_session`, time-out | loop's prompts, HTTP answers |
| Chat stream, sessions (`server/api.py`, `sessions.py`) | live loop per session, busy flag, stop event | stream, stop, disconnect, eviction | loop, bus |
| Compute channel (`compute/`, `server/compute_api.py`) | job table, input packages, output directories, worker processes | `enqueue`, `lease_next`, `mark_running`, `renew`, `finish`, `cancel`, clean-up; `execute`; `run_once` | tools, workers over HTTP |
| Data access, cache (`data/access.py`, `cache.py`) | table files, an index of rows, a write lock | read-through, stale copies, versions, clean-up | tools, adapters |
| Adapters (`data/adapters/`) | failure counts per interface, the session of an MCP client | chains of sources, retry, pacing, handshake | data access, external services |
| Long-term memory (`context/memory/distill.py`, `vector.py`) | episodes, facts, vectors, a ledger of distilled conversations | distil, index, edit, delete, prune | store, sweeper, a model |
| Tenant erasure (`server/tenant_data.py`) | all stores | `purge_tenant` | every writer of the tenant |
| Authentication (`auth/`) | users, tokens, login window | register, login, revoke, rate limit | server |
| Configuration (`config/`, `provider/resolver.py`) | provider rows, secrets, a cached provider | create, update, activate, delete, resolve | server, loop |
| Observability (`observability/`) | trace rows, events, rounds; a stack of spans per task | start, record, finish, clean up; spans | loop, server |
| Coordinator, reviewer (`coordinator/`, `shared/review.py`) | reports, side files with verdicts, usage of sub-agents | `spawn`, `review_report`, `write_report` | loop, files |
| Plan, citations, conclusions (`context/session.py`, `data/citation.py`) | a plan with its progress, numbered citations, conclusions | plan tools, register, persist, restore | loop, store |
| Tool registry, repeat guard, gate (`tools/registry.py`, `engine/loop.py`, `permissions/`) | shelf of offered tools, fingerprints, remembered consents | activate, check, decide, resolve | loop |
| Result rendering (`tools/base.py`, `shared/budget.py`) | none kept | trim, note, fence, cut | every tool, loop |
| Factor and backtest engines (`factor/engine.py`, `tools/fin/backtest.py`) | a panel while it is collected | evaluate, backtest, rank | data access, worker |
| Web client (`frontend/src`) | the shown conversation, a queue of prompts, timers, cached views | send, stop, answer, select, delete; frames | HTTP stream |

Evaluation harness, skills and prompts, and deployment files complete the list.

What is hard about it:

* **Coroutines that outlive their run.** `asyncio.gather` does not cancel the
  siblings of a tool coroutine that raised: they go on, have their effect, and
  dispatch into whatever the state machine is doing by then. A cancelled run
  leaves tools running in threads.
* **Crashes between durable steps.** The snapshot names calls as *running* whose
  effect may or may not have happened; the message log lags behind the
  snapshots, because frames are buffered until the model has answered.
* **Prompts that outlive their process.** The prompt on record, the calls
  marked as waiting and what is in flight must agree when another process
  resumes.
* **Leases.** A worker that lost its lease goes on computing, and its finish
  request races the recovery, another try, a cancel and the clean-up of files
  that no transaction covers.
* **A submitter that is cancelled while a thread works for it**; likewise a
  cached table, a stored fact, a deleted conversation: the coroutine is gone and
  its thread goes on.
* **Prompts with several waiters, several timers and one future**, settled by an
  HTTP request, by time, by a stop or by the end of the run that asked.
* **Streams that end in five ways**, at any await, with one terminal frame, one
  usage row and one release of the session due each time.
* **Two budgets, two ranges, two digests** that must agree: what a compaction
  summarises and what it discards, what a tool trims and what the loop cuts, the
  body a reviewer read and the body its verdict is filed under.

`PROJECT.json` lists these as hazards, each at its line with the properties
about it.

What makes each component correct: the reducer and the loop, that no write is
repeated without an approval, that an approval covers exactly what was shown,
that every tool call in the history the model reads is answered, and that a run
ends; the store, that an ended run is never reopened; the bus, that an answer
reaches every caller it is for and none that came later; the sessions, that one
run is alive per conversation and that a busy mark goes away; the compute
channel, that jobs end, each with one outcome, one job of a tenant at a time,
input present until the end and no output without a success; the stream, that the
client is told how its run ended; working memory, that what it drops is in a
summary; long-term memory, that nothing outlives its source; erasure, that what
is left was written later; the cache, that an index row and its file are of one
table; adapters, that a source is shunned for a cause; configuration, that a
replaced provider is not served; the trace, that a run reads back as it happened;
reports, that a verdict is on the body it was given on; research, that a
conclusion keeps its data; backtests, that they do not look ahead; results, that
what is left out is told; the client, that it shows its own conversation, keeps
open prompts and comes to rest.

## 2. Modules and code

### Agent core

* **`AgentState`**: `transition` as one operator per event, with a `Can...`
  guard each where the reducer raises. Statuses, results and prompts are kept.
* **`AgentRun`** (extends it): one conversation. Durable: `st`, the newest
  snapshot, and `log`, the messages. Per process: `loop` (where the coroutine
  stands, with the fields of `AgentLoop`), `task` (each tool coroutine),
  `orphans` (coroutines left behind that still hold the live machine), `stop`,
  `granted`. The rest is history for properties and bounds. An action is what
  the coroutine does between two points where something else may get in: one
  dispatch with the local work around it.
* **`ToolLedger`**: the abstract specification of tool effects (in flight before
  it has an effect; one effect per approval; at most one effect nobody approved
  for a write; closed is final). `AgentRun` implements it by `Entry`.
* **`AgentRunInv`**: the inductive invariant, in ten named parts.
  `AgentRunProofs` and `AgentRunRecordProofs` hold the proofs: types, ends and what
  may still run; what the log and the ledger record.
* **`MCAgentRun`**: gives each call its permission class.

| action | code |
|---|---|
| `StartRun`, `AbandonPrevious`, `Resume`, `Hydrate`, `Compact` | `run`, `_run_once`, `StateStore.abandon`, the hydrate and compact effects |
| `CallModel`, `StreamStopped`, `StreamFails`, `ModelCalls`, `ModelAnswers`, `ThinkExhausted`, `ThinkStopped` | the thinking effect |
| `ClassifyAfterResume`, `MarkUncertain`, `AskRetry` | what a resume makes of calls that were under way |
| `PartitionCalls`, `StartCall`, `GuardReplies`, `GuardEscalates`, `RefuseCall`, `RunTool`, `FinishTool`, `OrphanEnds` | a pass over the batch and its coroutines, `_execute_inner` |
| `AskUser`, `Prompt`, `Answer` | grouping of calls that need consent, the prompt, `ConfirmationResolved` |
| `EndBatch`, `AbortCall`, `LoopAborted`, `FailAfterLoop`, `WrapUp`, `WrapUpEnds` | the end of a round, regular, aborted or at the turn limit |
| `CancelledRoundCloses`, `CancelWaiting`, `CancelTools`, `Crash`, `Stop` | cancellation at a suspension point, process death, `chat_stop` |

Abstractions. Tool call ids are fresh, a call is a member of `Calls` that the
model hands out at most once. Texts, usage, retry and compaction counters and
the snapshot's revision are dropped: they feed no guard, except that a stale
machine's write fails on the revision, which the model keeps by accepting an
orphan's dispatch only while its machine is the newest. The fingerprints of the
repeat guard become "a reminder was given". Session and remembered grants are
both "always". A refusal by a hook, an unknown tool or invalid arguments is
`RefuseCall`. The retry prompt offers yes and no only. Failures of SQLite itself
are left out, and so are the legacy paths without an interaction port.

### Compute channel

* **`ComputeQueue`**: the table `compute_jobs` (`compute/queue.py`), one
  operator per method, each one write transaction. The clock is the bit "live"
  of a lease and the action `LeaseExpires`; `created_at, job_id` is an arrival
  number.
* **`JobLifecycle`**: what the queue promises (bounded tries, one held job per
  tenant, only a held job succeeds, an end is final).
* **`Compute`** (extends `ComputeQueue`): submitters (`RemoteComputeExecutor.execute`
  and its enqueue thread), workers (`run_once` with the loop and the container's
  restart policy around it), finish requests in the server
  (`finish_compute_job`, with the file callback inside the transaction, the
  second transaction after a 422 and the `finally` clause), the input packages
  and the output directories, clean-up, and faults: lost answers, killed workers,
  a server crash.
* **`MCCompute`**: tenants of the jobs and worker symmetry.

| actions | code |
|---|---|
| `Submit`, `EnqueueThread`, `SeesEnd`, `TimesOut`, `StopEnqueueing`, `StopPolling` | `compute/executor.py` `execute` |
| `Lease`, `LeaseAnswer`, `StartJob`, `ChildEnds`, `ChildRaises`, `ReportError`, `RenewRefused`, `Restart` | `compute/worker.py` with the lease, running and renew handlers |
| `Transaction`, `FailInvalid`, `Unwind` | the finish handler, `_finish`, `allocate_artifact_dir` |
| `CleanupTick`, `LeaseRunsOut` | periodic clean-up, the clock |
| `LoseAnswer`, `KillWorker`, `ServerCrash` | the environment |

Abstractions. Signatures, the package format, validation of artifact paths and
the child process are left out: a child ends with files, a result that is no
object, a result with a file that cannot be decoded, or an exception; a result
without any file is left out. The disk may refuse the directory or a file, which
answers the worker 500 and leaves the job as it was. A submitter
reads the status and looks at the deadline in one step that may use a status
already out of date (so `TimesOut` has no guard on it). A renewal that is granted
changes nothing the model keeps: leases simply do not expire meanwhile. A finish
request a worker has stopped waiting for goes on in the server; at most one of
each kind is in flight per worker id. A worker id is reused after a restart
(host name and pid in a container). A directory a server crash leaves behind is
marked "torn", so that properties can tell it from finished output; no guard
looks at the mark.

### The conversation on the server

* **`ConfirmBus`** (`server/confirm.py`): callers that ask, the prompts on record,
  one future per prompt that several callers may await, a timer for each of
  them. `Ask` joins a pending prompt of the same key or registers one,
  `TimerFires`/`Wake` are the two halves of the wait, `Respond`, `CancelSession`
  and `Kill` settle it from outside; `Leave` is `_release`. A step is what
  happens between two awaits.
* **`ChatStream`** (extends `ConfirmBus`: its requests are the callers): `Admit`
  is the request with the session registry (reuse, refusal while busy, eviction
  of idle or surplus sessions), `Generator` the event generator of
  `server/api.py` step by step with its `finally` clause and its handler of
  cancellations, `Run` the task it drives, as far as a stream can tell what a
  run does, `Stop`, `Answer`, `Disconnect`, `TransportFails`, `DeleteStarts` and
  `DeleteEnds` the rest of the API. **`ChatStreamProofs`** proves the safety
  properties of both; **`MCChat`** gives it to TLC.
* **`ChatClient`** (`frontend/src`): the other end. `PanelNext` is one panel with
  its stream, queue of prompts, watchdog and grace timer; `AppNext` the
  application around it, which selects, caches, loads and deletes conversations, and
  starts a new one some time after the settings have been saved: `RestartReturns` is
  called, like `DeleteReturns`, by the render of the click and caches the panel of now
  under the conversation of then. Saving counts against the bound on turns sent.
  The server is any stream its protocol allows.

### What a conversation keeps

* **`WorkingMemory`** (`context/memory/working.py`, `summary.py`,
  `compaction.py`, the reload in `engine/loop.py`): window, buffered messages,
  summary segments with the merge of neighbours, a bounded reload by another
  process. A message is its role; whether a window fits is any outcome.
* **`LongTermMemory`** (`distill.py`, `vector.py`, `store.py`,
  `server/distill_sweeper.py`): two distillers, handlers that edit, delete and
  index, each awaiting its store call in a thread; rows, vectors and index
  marks apart.
* **`ResearchState`** (`context/session.py`, `data/citation.py`,
  `engine/plan_progress.py`): plan, citations, conclusions in a loop and on
  disk, with a turn's transactions in their order, one that fails, evictions and
  crashes. Plans and citations are explored as two parts.
* **`Erasure`** (`server/tenant_data.py`, `hooks/audit.py`): the purge step by
  step beside the runs that go on writing, and a restart in its middle.

### Around the server

* **`Accounts`** (`auth/`): registration whose reads lie before its transaction,
  the claim of single-user data in two databases, tokens, the login window.
* **`ProviderConfigs`** (`config/store.py`, `server/config_api.py`,
  `provider/resolver.py`): handlers that check, change in a thread and
  invalidate; a resolver that reads in two transactions and caches by time stamp.
* **`StateMigration`** (`config/state_migration.py`; extends `Accounts`): the command that copies key,
  accounts, conversations and configurations of an earlier layout one after the
  other, cut off anywhere and run again, with the check that keeps a server from
  starting without the old accounts and servers that ran before that check existed.
* **`DataCache`** (`data/access.py`, `data/cache.py`): fetches, the threads that
  write file and row, the lock that belongs to the coroutine, expiry, a crash.
* **`SourceCalls`** (`data/adapters/`): chains of interfaces with their cooldown
  (part `chains`), and the MCP session that all threads share (part `datasets`). A
  server is taken to answer 400 or 404 to a call with a session exactly when it has
  forgotten that session, as the client assumes of any such answer
  (`mcp_client.py:43`, `:207`).
* **`RunTrace`** (`observability/`): the trace store's rows, numbered events and
  rounds written twice (part `trace`), the span stacks of forked tasks (`spans`).
  `MaxBlocks` bounds how deep the blocks of a task go.

### What tools do

* **`ToolCalls`**: the shelf of `tools/registry.py`, the repeat guard of
  `engine/loop.py`, the consents of `permissions/gate.py` and `server/api.py`.
  The shelf's list `_order` is kept as the number of the activation that put each
  tool on it, which orders it.
* **`ReportReview`** (`shared/review.py`, `tools/fin/writer.py`,
  `coordinator/reviewer.py`): a report, its side file and its verdicts; the tasks
  of a spawn and the booking of what they used.
* **`BacktestPool`** (`tools/fin/backtest.py`): the collection of many tables, the
  ranking into groups, and which ranking earns the return of which day (part `pool`).
  How large a pool's returns are, and its costs, are left out. The requests it may be asked for, and which of
  them need valuations, are constants; a factor's value is one of `Scores`.
* **`Backtest`**, on top of it (`factor/engine.py`, `tools/fin/backtest.py`): the factor
  language as expressions with their validation and evaluation by recursive operators over
  rows, the position and what it earns (part `series`), and from the language the requests
  for a pool. Prices are small integers or `Missing`.
* **`ResultBudget`** (`tools/base.py`, `shared/budget.py`, `shared/fencing.py`,
  `engine/loop.py`): trimming by columns, rows and groups, notes, the loop's cut.
  A text is a sequence of pieces with sizes; a size replaces the tokenizer.

The proofs about these components are in **`MemoryProofs`** (working memory,
long-term memory, research), **`AccountProofs`** (erasure, accounts and migration,
configurations), **`DataProofs`** (cache, adapters, trace and spans) and **`EdgeProofs`**
(reports and sub-agents, the client, the shelf, the repeat guard, consents).

**`MCComponents`** puts all of these except the chat stream and the agent into one
run. They share no state in the code, so the run explores them one at a time:
`part` is chosen at the start and says which one moves, and the initial choices of
the others are pinned. The state space is the sum of theirs, not the product. Four parts
have a bound of their own there: facts differ in statement or in subject (`SomeFacts`), and
a conversation is deleted when the user is done with facts (`FactsInUse`); only accounts that
are erased have facts (`FactsOfErasable`); at most two histories load at a time, and
deletions and changes of settings are explored apart (`ClicksInOrder`); of two traced runs,
which are alike, one is the first (`FirstRunFirst`). The theorems of section 5 know none of
these.

Operators whose comment begins with "A slip" are bugs somebody could make in the
definition after them. `PROJECT.json` lists one for each property of a run, which
finds the property violated with it; the others break another conjunct of the
same property.

## 3. What the runs check

| run | instance | checks |
|---|---|---|
| `agent_run` | an allowed, a gated and a denied call; 2 turns, 2 starts, 2 crashes or cancellations | `TypeOK`, `BatchResolvable`, `PromptCoversWaiting`, `NoBlindReplay`, `PairedUnlessTorn`, `TerminalIsFinal`, and the refinement `LedgerSpec` |
| `agent_resume` | a write and an egress call; 1 turn, 3 starts, 2 faults; fair | the inductive invariant of the proofs, `RunEnds` |
| `compute` | 2 jobs of one tenant, 2 workers (symmetric), 2 tries | `TypeOK`, `OneActivePerUser`, `PackageWaits`, `ReportIsTrue`, and the refinement `LifecycleSpec` |
| `compute_faults` | 2 jobs of two tenants, 1 worker, 2 tries, 1 fault, a disk that may refuse; fair | `NoStrayOutput`, `JobsEnd` |
| `chat` | 2 requests, 2 sessions, 1 conversation; fair | `ChatTypeOK`, `RunsAreAlone`, `BusyHasARequest`, `UsageIsAccounted`, `ClientIsTold`, `PromptsHaveWaiters`, `StreamsClose` |
| `components` | the parts of `MCComponents`, see below | one property per component, and `PartsTypeOK` |

and six runs that show the disagreements of section 4. All runs are exhaustive;
the longest take two to three minutes.

The properties of `components`:

| property | part | what it says | instance |
|---|---|---|---|
| `AnswersReachTheirWaiters` | `bus` | nobody joins a prompt already answered, an accepted answer reaches every caller that waits for it, a caller that leaves disturbs no other | 3 callers of 1 session |
| `HistoryIsAccountedFor` | `memory` | the window is the tail of the history, and what lies before it is in a summary, across compactions, reloads and lost buffers | 9 messages, 1 to 3 rounds kept, windows of 2 and 3 rounds |
| `MemoriesMatchTheirSource` | `facts` | an episode has its conversation, a vector marked as current is of the present text | 1 conversation, 1 key, 2 texts, 2 distillers |
| `PurgeIsExact` | `erasure` | what is left of a purged tenant was written after its own step, what is missing of others was appended in one known window | 2 accounts, 1 erased, 1 line |
| `LegacyDataArrives` | `accounts`, `migration` | old rows and old settings go to one account; migrated configurations open with the key beside them, and a migration carried through leaves no account behind | 2 names; 2 accounts |
| `RowsMatchFiles` | `tables` | an index row and its file are of the same table | 2 fetches of 1 request, 2 sources, 2 versions |
| `RefusalsHaveCause` | `chains`, `datasets` | an interface cools down only after two failures with no success between; a lost session is reported only if the one just made was lost | 2 threads, 2 interfaces, 2 sessions |
| `ServedIsCurrent` | `settings` | the provider in use is the active row's | 1 user, 2 labels, 2 requests |
| `PanelTellsTheTurn` | `panel` | open prompts stay on the screen; a turn that is over leaves no timer, no prompt and nothing running | 2 prompts, 2 turns |
| `MessagesAreOfTheShown` | `app` | the messages shown are the selected conversation's, unless a restart has cached another's under it | 2 conversations, 2 turns or changes of settings |
| `TraceTellsTheRun` | `trace`, `spans` | a run reads back in order and complete up to failed writes; a span hangs under the block that opened it | 2 runs, 2 events; 3 tasks, 3 spans |
| `CallsAreRememberedTrue` | `shelf`, `guard`, `consent` | offered tools are the newest, the guard reports the attempt settled last, a consent stays where it was given | 2 residents, 4 lazy tools, room for 1 to 4 or any; 4 calls, 2 fingerprints; 2 loops, 2 conversations |
| `SubAgentsAreReportedTrue` | `review`, `jobs` | a verdict is of the body it was given on; usage is booked once, results are honest | 2 reports, 2 bodies; 3 tasks |
| `ResearchIsKept` | `plans`, `cites` | a stored conclusion cites what it was drawn from, until newer citations fill the registry; no single failure brings back an older plan; a stall is this run's | 2 data, 3 citations, 2 plans, 1 failure |
| `BacktestIsHonest` | `series`, `pool` | for one stock, no position uses a later day and every change is charged; for a pool, groups are even, ordered and held from one adjustment to the next; no task outlives a collection | 5 days, factor depth 3; 3 stocks, 2 groups |
| `ResultsTellTheirExtent` | `results` | what is left out is told, both budgets agree, every group is shown, no fence stays open | budgets 3, 6 and 9, 3 rows |

Why the bounds are enough. A batch with an allowed, a gated and a denied call meets
every branch of a pass (reads come in through `agent_pairing`, a second kind of
consent through `agent_resume`); two prompts of different kinds need two calls that ask. Two
starts are a run with a resume or a second run; three are a resume of a resume
after a crash in it. Two faults are a crash during the recovery from a crash or
a cancellation. Two workers and two tries let a late finish race the next try of
the same job, and two jobs of one tenant contend for its lease; the second
tenant is needed for the order of service and for the question whether one
tenant can hold another back. `MaxWaiting` is 1, so that a second submission is
refused. Two chat requests for one conversation are a request that meets a busy,
an evicted or a deleted session. Three callers are two that share a prompt and
one that comes late. Nine messages reach two compactions and a bounded reload.
Each race of the other components is between two actors, one of which may have
been cut off; a third adds no new order of the pair. Five days leave
a window of three rows two days to move over.

`PairedUnlessTorn` says that every tool call in the history shown to the model
has its results unless one of five named events has happened, each of which the
code accepts: a new message abandons an open round; a resume crashes in hydrate
before it has reopened the round; a batch with a denied call is aborted; the
wrap-up of an aborted batch is cancelled; the process dies between the terminal
snapshot of a wrap-up and the flush of its messages. The flag `torn` is set by
those steps only. Other invariants with an exception name it in the same way:
`MemoriesMatchTheirSource` a conversation deleted while it is distilled and a row
changed while its vector was made, `PurgeIsExact` the audit lines appended while
the file was being rewritten, `RowsMatchFiles` a write that was cut off,
`LegacyDataArrives` two registrations that found the table empty, rows no check
tried and accounts that came up again in another case,
`PanelTellsTheTurn` a view cached mid-stream, `MessagesAreOfTheShown` a conversation
under which a late restart has cached another's panel, `ResearchIsKept` a conclusion
older than a full registry of citations, `BacktestIsHonest` the return of the day a pool
is ranked on, `HistoryIsAccountedFor` a compaction that kept fewer rounds than its
summary leaves out. Each of these is in section 4: the property says
that nothing else goes wrong.

Fairness. `AgentRun`: weak fairness of `Engine` as a whole. The provider's
streams have time-outs and a retry limit, tools run under `wait_for`, a prompt
expires after `confirm_ttl_s`, and the event loop runs ready tasks; nothing is
assumed of users, stops, crashes or cancellations. `Compute`: weak fairness of
each worker (containers are restarted, child and requests have time-outs), of
each request in the server, of each enqueue thread and of the submitter's last
poll; a lease runs out only if nobody renews it, that is if no worker runs the
job's child. No deadline, stop or fault is assumed, so `JobsEnd` does not rest on
anybody giving up. `ChatStream`: weak fairness of each generator and each run
(the event loop, bounded rounds, timers of prompts); nobody has to answer, stop,
disconnect or delete. The other components are checked for safety only.
`Quiescent` lets a conversation stop when the bound on starts is reached. Deadlock
is not checked in `chat` and `components`, where every request may be over and
every bound used up.

## 4. Where the code and its documentation disagree

Each of these is a run that TLC finds violated, with its source in
`PROJECT.json`.

* `agent_pairing`: a batch aborted by the repeat guard after the user denied one
  of its calls leaves that call unanswered in the history.
* `agent_denied`: a call the gate denies, pending when the process dies, comes
  back as a write of unknown outcome, and a yes to its retry skips the gate.
* `compute_stranded`: a submitter cancelled while its enqueue thread works
  leaves a job in the queue that nobody waits for.
* `compute_output`: a refused finish removes the output directory by its path a
  second time, and with it the output of another try that has succeeded since.
* `chat_stop`: a stop that cancels the run at an open prompt is taken for a
  disconnect: the client, still there, gets no terminal frame.
* `memory_gap`: a compaction that has to keep one round discards messages that
  no summary covers, and the next reload skips them as if one did. (With
  `min_recent_rounds` set to 1, which `settings_models.py:200` allows, this is so of
  any compaction that keeps one round.)

Others met while modelling, without a run of their own.

*Agent.* Two writes of a batch are put to the user in one prompt that shows the
first, and one answer decides both (`engine/loop.py:1789`, against
`docs/modules/03.7-governance.md:43`). A process that dies before the first answer
of the model has lost the user's message, and the resumed run asks without it
(`loop.py:1358`). Identical calls of one pass are reminded and escalated together,
where the comment promises a reminder first (`loop.py:809`). A refused error report
ends the compute worker, where its comment says that the loop continues
(`compute/worker.py:114`). One tool object serves all calls of its name: progress
of a call can carry the id of a later one (`loop.py:2634`).

*Persistence.* `_persist_turn` returns early when no message is pending
(`loop.py:597`), so a run that ends with nothing to say, or dies, keeps its messages
but not the citations they name; after a reload the same numbers go to other data,
which `docs/modules/03.6-context.md:149` rules out. A conclusion can outlive its data:
the registry is trimmed to its cap as citations come in (`citation.py:101`), conclusions
are not (`loop.py:602`). Its "one transaction" is several
(`loop.py:592`). Conclusions of such a run are lost although `tools/meta/plan.py`
promises otherwise. A checkpoint is cleared when it is read, so a process killed
later has no plan; the status `running` of `records.py:303` is never written.
`_absorb_notes_into_facts` brings purged preferences back (`store.py:1584`), an edit
of a subject alone keeps a stale embedding. `_strip_audit_lines` loses lines that
other tenants append meanwhile (`tenant_data.py:110`), and rows are purged before
vectors (`:84`).

*Server.* The usage ledger can get a second row for a turn. A deletion checks for a
stream before it awaits (`api.py:1240`). A transport failure releases the session
without ending its run. The trace id is `tr_<session>` when tracing is off
(`api.py:1404`), so `trace_runs` is not one row per run; a rerun evaluation case fails
on its INSERT (`eval/runner.py:501`). Two first registrations both see an empty
table (`auth/store.py:202`). Activation and deletion of configurations can cross
(`config/store.py:260`), and the resolver reads row and secret in two transactions.
`check_for_unmigrated_state` promises that a server without its old data does not
start (`state_migration.py:195`, `settings.py:298`) but looks at account names only:
data without accounts, or a migration cut off after the accounts, starts with an
empty history. It compares names by case, `_merge_users` does not, so that an
account that came up again in another case blocks the start for good; a merged
account also loses its role (`:303`). A crash in `_copy_secret` leaves an empty key
that is never replaced. `_verify_key_pairing` (`:317`) tries one row that nobody owns,
so that once all are claimed it verifies nothing.

*Data.* A cancelled fetch frees the write lock while its thread still writes
(`cache.py:144`); a later table of the same data date overwrites a file that is
cited (`metrics.py:105`). `list_tools` stores its catalogue after the lock is
released (`mcp_client.py:308`).

*Tools.* `_group_returns` pays, on each day it ranks, that day's own return to
groups chosen with its close, where its docstring speaks of forward returns
(`backtest.py:639`, against `:617`): `GroupsAreHeld` names that day as its exception; a momentum window below zero looks ahead, which `NoHindsight`
excepts; ties go by the order in which tables arrived. `_truncate` promises to stay
within its limit, but the marker comes on top of a full prefix (`loop.py:2220`); the
note `trim_dataframe` appends is what that cut removes first. A REUSED verdict
without comments clears a report that `review.py:221` calls unresolved, a half
written file can raise out of `review_report`, and a sub-agent that ends by
cancellation is not booked. `search_tools` says "activated" of a tool that the full
shelf has pushed off at once (`registry.py:286`); the shelf evicts by the order of
activation where it speaks of the least recently used (`:260`, `:313`).

*Client.* A refused answer is shown as given and a failing POST loses its prompt
until it expires; heartbeats are comments and do not reset the watchdog; a late
stop can cut the next turn's stream; a view cached mid-stream shows "running" for
ever; the list of resumable conversations has no guard against late answers
(`App.tsx:181`, against the comment at `:206`). Saving settings and opening another
conversation before they are read back caches that one's panel under the first
(`App.tsx:458` with `:244`, against the comment at `:239`); the first then shows the
messages of the other when it is opened again. `ccMisfiled` collects such conversations:
without them as exception TLC finds `MessagesAreOfTheShown` violated.

## 5. What is proved

TLAPS checks every theorem for arbitrary sets of calls, jobs, workers, tenants,
callers, conversations, names, prompts and so on, and for any bounds. Assumptions
on constants are named in the module that declares them: `Reads` is a set of calls,
`Gate` gives each call a class, `Jobs` is finite, `UserOf` maps it to tenants, bounds
are naturals, tries and limits positive; a value that stands for "none" (`NoJob`,
`Nobody`, `Nothing`, `Free`, `NoConfig`, `Absent`, `NoBody`) is no member of the set it
extends. A component whose module defines no specification is given one in its
proof module, its `Init` with any of the steps that `MCComponents` explores as its part.

**Agent.** `AgentRunProofs`: `TypeCorrect`, `TerminalStaysFinal`, `Inductive`,
`ReplayNeedsApproval` (`NoBlindReplay`), `PromptIsExact` (`PromptCoversWaiting`),
`BatchIsResolvable` (`BatchResolvable`). None of the last three is inductive: whether
a write can have a second effect depends on where its coroutine is, on whether a
coroutine of an earlier pass is still alive, and on what a resume will make of the
snapshot. `InductiveInv` adds: where the loop stands goes with the phase
(`PositionInv`, `ReopenInv`); open and waiting calls have no result (`ResultInv`);
every open call of a pass is scheduled or about to be asked for (`ScheduleInv`);
coroutines left behind belong to closed calls (`OrphanInv`); the prompt names
the waiting calls (`PromptInv`) and nothing waits elsewhere (`RoundInv`); a call
not handed out has no history (`HandedInv`); a write that may still run
unapproved has had no unapproved effect (`ReplayInv`). The proof has one lemma per
action or group of actions.

`AgentRunRecordProofs` adds what the run writes down. `HistoryStaysPaired`
(`PairedUnlessTorn`) rests on `LogInv`, which holds until a crash tears a snapshot
from its buffer: the log is paired except possibly in an open last round
(`PairedSoFar`); that round is the batch of the snapshot (`OpenInv`); it is open only
where the loop still owes results (`ClosedInv`); the buffer holds just the results
that close it (`BufferInv`). `RunImplementsLedger` (`LedgerSpec`): the initial states
map to the empty ledger, every step to `Record`, `Approve`, one of the two `Perform` steps
or a stutter. `ConsentInv` is what that needs beyond `InductiveInv`: a prompt that can
grant asks for one category (`GroupInv`), and an approval the loop holds is not spent
(`ApprovalInv`); `ClosedStay` shows that no step reopens a closed call.

**Compute.** `ComputeProofs`: every step is one operation on the table or
leaves it alone (`QueueOnly`); each operation keeps the types, the tries left to
a waiting job, one lease per tenant, the ends and the arrivals. From that,
`ComputeTypeCorrect` and `TenantsTakeTurns` (`OneActivePerUser`), with
`TableInv` as invariant (a worker past its lease has a job);
`QueueImplementsLifecycle` (initial states and every step of `Compute` map to
`JobLifecycle`); `InputWaits` (`PackageWaits`) and `ReportStaysTrue` (`ReportIsTrue`)
from `SubmittersInv`, which ties a submitter's position, its enqueue thread, its row
and its package together; and `NoOutputIsStray` (`NoStrayOutput`), inductive with
`TableInv`.

**Confirmation bus and chat server.** `ChatStreamProofs`, first for the bus alone
(`BusSpec`) with any callers, answers, timers, stops and cancellations:
`NoPromptLeaks` (`PromptsHaveWaiters`) and `AnswersArrive`
(`AnswersReachTheirWaiters`). `PromptsHaveWaiters` does not know whether a prompt that
is not on record has been settled or was never registered; `BusInv` adds that a caller
waits only for a registered prompt (`WaitersHavePrompts`) and that one that has not
asked has registered none (`IdleHaveNone`), so that an index entry leads to an open
prompt.

Then the server: `ChatTypeCorrect` (`ChatTypeOK`), `RunsDoNotMeet`
(`RunsAreAlone`), `BusyIsAccountedFor` (`BusyHasARequest`), `UsageIsBooked`
(`UsageIsAccounted`), `ClientLearnsTheEnd` (`ClientIsTold`) and
`PromptsOfRunsHaveWaiters` (`PromptsHaveWaiters`, now with runs as callers and the
server's stops and disconnects). Every step of the server is one step of the bus or
leaves it alone (`ChatIsOnTheBus`), so `BusInv` and its preservation are taken over.
`ChatInv` adds what relates a request's place to everything
else: a request let in has a session of a conversation and its run lives only
inside the stream (`PlacesInv`); the registry has one session per conversation and a
session one attached stream, which keeps it busy (`SessionsInv`, from which
`RunsAreAlone` follows); how many ledger rows there are at each stage (`LedgerInv`);
and that a run is cancelled only when its client has gone or a stop has settled its
prompt (`ToldInv`), without which `ClientIsTold` is not inductive.

**What a conversation keeps.** `MemoryProofs`.
`HistoryKept` (`HistoryIsAccountedFor`): that the window is the tail of the history says
nothing about a message that is only buffered, and that what is gone is summarised
nothing about the next reload. `HistoryInv` adds that what is buffered follows the
last answer on disk (`RequestsAreBuffered`) and that every segment, in the table or
in a process, ends where everything before it was summarised (`SummariesReachBack`).
`MemoriesMatch` (`MemoriesMatchTheirSource`): `LtmInv` adds that a distiller works on a
conversation that is there or is noted as deleted under it (`WorkIsOfAChat`), and that
the text whose vector is being made is the fact's, or the overlap is noted
(`EmbeddedIsRead`).
`ResearchKept` (`ResearchIsKept`): `CitesInv` says that the registry numbers data as the
table does, or with numbers the table has not seen, and holds no more than its cap
(`RegistryInv`), and that what is drawn and not yet written cites one of the two, or
something trimmed since from a registry that is full of newer data (`PendingInv`); `StallInv` that the
first round of a run only takes note; `PlanInv`, with `LivesInv`, that a checkpoint of an
older plan is there only after its clear has failed and while the run that changed the
plan goes on. The last needs that there is one mishap at most, which is what the
property says: a clear that fails and a crash after it do bring an older plan back.
`ConclusionsKept` states the other two parts for any number of mishaps.

**Accounts, tenants, configurations.** `AccountProofs`. `ErasureLeavesNothing`
(`PurgeIsExact`): `ErasureInv` follows the purge through its stores: which ones are
done and hold only what was written since (`DoneSoFar`), that a point has its fact
(`VectorsHaveFacts`, `EmbeddedAreFacts`), and what the lines read before the
rewrite leave out (`KeptLines`). `LegacyArrives` (`LegacyDataArrives`): `AccountsInv` for
the claims of registrations; for the move of the state files `MigrationInv`: a
configuration is there only after its key (`KeyComesFirst`), and a step that is past stays
done whatever servers do between two tries (`DoneStaysDone`).
`CacheServesTheRow` (`ServedIsCurrent`): `ConfigInv` adds that an id is never given
twice (`IdsAreFresh`), that a row read is still the active one when its secret is read,
or a handler has changed it and has still to invalidate (`ReadIsCurrent`), and the same of
the cache (`CacheIsCurrent`).

**Data.** `DataProofs`. `IndexMatchesFiles` (`RowsMatchFiles`) for any number of
fetches, requests, sources and tables. `DataInv` says that a thread writes for a
call that holds the lock, or its file counts as cut off (`ThreadsHaveCalls`), that a
call has one thread (`OneThreadEach`), that a file belongs to one request
(`FilesAreOwn`) and that the file is written before the row (`FileComesFirst`); hence
one thread at a time changes file and row of a name that is not cut off.
`RefusedForCause` (`RefusalsHaveCause`): `SourceInv` adds that the failures counted are
the last outcomes (`FailuresAreTheLast`), that sessions are numbered in the order they
were opened (`SessionsAreNumbered`), that a message that is out is of the thread with the lock
(`SentHoldsTheClient`), and that a session once lost stays so (`LostForGood`).
`TraceIsTrue` (`TraceTellsTheRun`): that a run reads back rightly says nothing about the
next number an event gets. `TraceInv` adds that a stream which is past its first
transaction has seen its task end or has noted that the run outlives it (`RunsInv`), that
no number in the table is beyond the counter while the run goes on (`EventsInv`), and that
a row written live is there with its phase, whatever is written over it
(`RoundsInv`). `SpanInv` says that a handle is in one block of one task
(`HandlesAreOwn`), so that a block that ends finishes no other's, and that a stack ends
with the handles of its task's blocks (`StacksFollow`), which a fork starts with none of.

**Tools and client.** `EdgeProofs`. `SubAgentsReported` (`SubAgentsAreReportedTrue`):
`ReviewInv` adds that the call a topic remembers is over, and of that topic; `JobsInv`
what each task has spent and what is booked. `PanelIsTrue` (`PanelTellsTheTurn`): a turn
ends by a frame, by the end of its stream or by a timer, in any order, so `PanelInv` says
that a turn once settled is quiet (`SettledIsQuiet`).
`MessagesFollow` (`MessagesAreOfTheShown`), across answers that come late, needs `AppInv`: a
view cached under a conversation holds that one's messages, or the conversation is noted
as misfiled. `CallsRemembered` (`CallsAreRememberedTrue`) joins three theorems. `RepeatsAreTold`, on the
repeat guard: `GuardInv` counts the attempts of a fingerprint, which are fewer than the limit because
they are counted before the limit is looked at (`TriesAreCounted`). `ConsentStays`, on
consents: a shared set, evicted from the map or not, belongs to one
conversation (`SetsAreOfOneTalk`) and holds what its user has said yes to
(`SetsHoldAnswers`). `ShelfOffersNewest`, on the shelf: `ShelfInv` says that each tool
offered was put on the list by the activation the log has for it, so that the tools a full
shelf drops, counted by their place in the list, are the first of the log (`ShelveKeeps`).

`PoolIsCutFairly` states the three parts of `BacktestIsHonest` that are about a pool,
for any stocks, values, requests and numbers of groups. `CollectionsEnd` rests on `PoolInv`:
a task has answered when it is done and not before, once (`OneAnswerEach`), and answers
taken up and answers that wait are all of them (`AnswersAreCounted`); so when as many
were taken up as there are tasks, none runs. `GroupsAreFair` is arithmetic: ranks
number the stocks of a day from 1 to n (`RanksAreNumbers`), since two that differ in value or
in the order of the columns differ in rank; the g-th group is then the ranks between
two cuts (`LabelIs`), and cuts are n / groups apart, rounded down or up (`CutsAreEven`).
`GroupsAreHeld` rests on `HoldInv`: no day from the next adjustment on is paid yet. They use
`PoolAssumption`: a finite set of stocks, values that are integers, two groups or more, a
natural number of days.

**Model-checked only.** `RunEnds`, `JobsEnd` and `StreamsClose`: liveness is out of
the prover's reach.
`NoHindsight`, the part of `BacktestIsHonest` about a series, and `ResultsTellTheirExtent` are about
what recursive operators compute for every input, which would need induction over data. `PartsTypeOK` as one formula; the
type invariants it puts together are parts of the inductive invariants above where a proof
needs them.

## 6. What is not modelled

Whole components: the evaluation harness (it drives the loop that is modelled),
prompts and skills (texts), deployment files and scripts.

Parts of modelled ones: full-text search, exports and schema migrations of the
store; the merge of settings files at start; password hashing and the
texts of tokens; column names, units and calendars of the adapters' field mapping
(`data/mapping.py`, conversion without state); the statistics of a backtest over
floating-point numbers; the heuristics that rank memories, find tools and scan
command lines; the answers of several questions that share one prompt; read-only
endpoints; rendering and forms of the web client; failures of SQLite itself other
than those a component handles; a handler of configurations that is cancelled between its
commit and its invalidation.

## 7. Plan

Done, in this order: `AgentState`, `AgentRun`, `ToolLedger` with proofs;
`ComputeQueue`, `JobLifecycle`, `Compute` with proofs; the conversation on the
server, what it keeps, the components around it, the tools and the client;
the pool of a backtest in a module of its own; and proofs of the safety properties, all
but those section 5 names as model-checked only.

Open: `NoHindsight` and `ResultsTellTheirExtent` by induction over expressions and pieces,
and the three liveness properties, once a prover can do them.

# Plastic-wan: TLA+ specifications

Plastic-wan is a Telegram bot whose answers are written by language models. These
modules model its core: how messages become batches, batches become agent runs, and
what happens to both when commands, sleep, failures and restarts cut across them; the
services around that core (the conversation context, the rendering of prompts, model
gates, tools, long tasks, stickers, MCP servers, image generation, retention and backup,
the process itself); and the side the operator works on (configuration, providers,
accounts, lists). TLC checks the modules on small instances; TLAPS proves the safety of
the scheduler, its refinement of an abstract delivery contract, and the safety of the
startup catch-up, the conversation context, the serve lock, image generation and its
settings, the model gates with the daily budget, the tools, web fetch, the MCP manager,
long tasks with their alarms, the sticker search, the running configuration, the providers
and models, and the panel's accounts and lists, for every instance.

Check a run with `tlc -workers 2 -config Topics.cfg MCBucketScheduler`, a proof module
with `tlapm BucketSchedulerProofs.tla`.

## The system

One Node.js process (`src/src/application.ts`) with a SQLite database.

| Part | State | Operations | Hard behaviour |
|---|---|---|---|
| Telegram ingestion (`ingress/telegram-ingestion.ts`, `store/participation.ts`) | `telegram_updates`, `messages`, migrations, attention windows, collecting rows of `buckets` | store an update once, open or join the collecting bucket of a conversation, take in what other bots said | redelivery after a crash; a group that migrates; the gates of scope, pause and calendar |
| Invocation queue (`orchestration/invocation-queue.ts`) | `buckets`, `invocations`, `invocation_buckets`, `task_receipts` | `processTasksDue`, `processDue`, attach, queue, defer, skip, release, vet, `recover` | decisions from a query taken once; release before close; claims that must be settled |
| Conversation runtime (`orchestration/conversation-runtime.ts`) | pending injections, `closing`, `roundInProgress`, agent cache | queue and take injections, wait for one | in-memory state that must agree with the tables without a lock |
| Agent run (`orchestration/agent-runtime.ts`) | the run's turn counters and flags | turn boundary, send barrier, injection, idle grace, teardown | hooks interleave with the scheduler at every `await` |
| Scheduler (`orchestration/scheduler.ts`) | `#active` | loop, launch, `#execute`, aborts, shutdown | per-chat serialization, `max_concurrency`, a terminal transaction that may throw |
| Operator commands (`bot-commands.ts`, `ingress/admin/operations.ts`) | `chat_pause` | /pause, /resume, /cut_topic, cancel ongoing | close rows first, abort runs second |
| Startup catch-up (`startup-catch-up.ts`) | `app_state.telegram_startup_catch_up` | drain, schedule, clear | crash at any point, resumed at any later time |
| Process (`application.ts`, `cli.ts`, the lock in `store/database.ts`) | the serve lock, stop requests | start, take over, stop, clean up | two processes on one data directory; a failure at every stage of the start |
| Long tasks, alarms (`store/long-tasks.ts`, `plugins/alarm`) | `long_tasks`, `task_receipts` | create, finish, cancel, timers, list page by page | a completion owes exactly one receipt; timer, agent and operator end the same task |
| Sleep and budget (`store/sleep.ts`) | `app_state.bot_sleep_until`, `daily_usage` | enter, wake, expire | sleep begins while work is queued; sleep across days |
| Model gates and vision (`platform/concurrency.ts`, `capabilities/media/*`) | semaphores, `media_analyses`, the budget of the index | acquire in order, share an analysis, reserve and charge | a waiter aborted while it is served; two gates in sequence |
| Conversation context (`context/*`) | `conversation_contexts`, `context_messages`, `context_refs`, the cached transcript | append, collect, cut, rebuild, resolve references | a cut under a run that still writes; memory against table |
| Prompt rendering (`context/context-builder.ts`, `store/invocation-snapshot.ts`) | `invocation_messages`, the known senders and the caller | freeze, render within a budget, read back | what the transcript shows against what the run believes it shows |
| Send and execute tools (`capabilities/send-tool.ts`, `execute-tool.ts`) | `tool_calls`, `telegram_sends` | reserve in a sliding window, post, retry after a 429, record | unknown outcomes, a crash between posting and recording |
| Web fetch (`plugins/web-fetch`) | none | one call with its redirects | limits and timeouts at every step, a cut inside a character |
| MCP manager (`capabilities/mcp.ts`) | connections, catalogues, `mcp_server_state` | start, reconnect, refresh, call, stop | callbacks of connections that are no longer current |
| Stickers (`capabilities/stickers.ts`) | `sticker_sets`, `stickers`, search index | sync, index, search | a crash between the index and what Telegram has |
| Image generation (`packages/image-service`, `image/bridge.ts`) | `image_generations`, attempts, keys, prompt and picture assets with their files, the worker's queue and semaphore | create, retry, run a round, recover, reconcile long tasks, edit and archive assets | paid calls with unknown outcome, restart in every statement, wake-ups without polling |
| Store (`store/schema.ts`, `database.ts`) | all tables, the copies beside them | purge, back up, rotate, upgrade | keys between rows that go and rows that stay |
| Configuration (`platform/config-reload.ts`, `runtime-config.ts`, `config-file.ts`, `key-jar.ts`) | the file, the key jar, the published snapshot | reload, switch model, save from the panel | overlapping operations, hand edits, revisions |
| Providers and models (`platform/providers.ts`, `provider-models.ts`, `models-dev.ts`, `model-metadata.ts`, `ingress/admin/providers-admin.ts`, the panel's dialog) | the registry, a shared cache, drafts | create, change and delete providers and models, list, merge, select, append | credentials that must stay with their endpoint; references to what is deleted meanwhile; stale drafts |
| Admin panel (`ingress/admin/*`) | users, sessions, login failures, the lists | setup, sign-in, change of password, pages, memories, payload sweep | requests suspended at a body or a hash; lists that change while paged |

Interaction: ingestion and task completion write rows and wake the scheduler; the
scheduler's loop and every finished run (`#execute`) call the queue; the queue hands
batches to a running conversation through the conversation runtime; the run takes them at
its turn boundaries, passes the model gates and calls tools; commands and the panel write
rows and the file and signal runs through `#active`. All of it shares the tables.

What makes it correct: sessions are serialized per chat; every batch is owned by exactly
one piece of work until it is closed, and closed in the end; a batch reads `completed`
only if a model saw it and is shown to a model at most once; a claimed receipt is settled;
terminal rows are final; paused chats and sleep are respected by work that was already
queued; a restart loses and repeats nothing beyond what the code gives up on purpose;
memory, tables, file and what the operator sees tell one story.

## Modules

| Module | What it is |
|---|---|
| `InvocationQueue` | the tables, the hand-over state of `ConversationRuntime`, and one action per transition of `InvocationQueueService`; ingress |
| `AgentRun` (extends it) | one run, `#runInvocation`: one action per outcome of a hook |
| `BucketScheduler` (extends it) | loop, launch, `#execute`, commands, sleep, crash and `recover()`; the specification, fairness and properties |
| `BatchDelivery` | abstract contract: each batch waits, is owned by one session of its chat, may be handed back or dropped, and closes once |
| `SchedulerRefinement` | the mapping from the scheduler to `BatchDelivery` |
| `BucketSchedulerProofs`, `SchedulerRefinementProofs` (extends it) | proofs about `BucketScheduler` and the refinement |
| `StartupCatchUp` | process start, drain, catch-up batches, age-based expiry, polling |
| `ActiveWindows`, `MessageIngestion` (extends it) | the participation calendar; one update through `#ingestTransaction` |
| `LongTasks` | tasks, their receipts, alarms and the pages an operator turns over them |
| `Semaphores`, `ModelCalls` (extends it) | the two semaphores as operators; agents, image analyses and the sticker index at the model gates, the daily budget, sleep |
| `StickerIndex` | sync, index worker, search |
| `ToolCalls` | send and execute of the runs of one chat |
| `McpServer` | one server of the MCP manager |
| `ToolProofs` | proofs about `ToolCalls`, `McpServer`, `LongTasks` and `StickerIndex` |
| `Retention` | the purge with the keys between tables, the backup and the copy before an upgrade |
| `ServeProcess` | the processes that start, take over and stop on one data directory |
| `ProcessProofs` | proofs about `StartupCatchUp`, `ServeProcess`, `ModelCalls` and `MessageIngestion` |
| `ConversationContext`, `ConversationContextProofs` | the history of a conversation in tables, header and transcript; its proofs |
| `PromptInjection` | frozen rows, what an injection renders of them, what is read back |
| `WebFetch` | one call of web_fetch against any network |
| `ConfigLifecycle` | the configuration file, the key jar, the running process, the commands and the panel's saves |
| `ProviderAdmin` | the providers pages and /model against the registry of the process |
| `AdminSessions` | accounts, sessions and the login throttle under overlapping requests |
| `AdminRecords` | lists, memories, payload sweep and bot operators |
| `OperatorProofs` | proofs about `ConfigLifecycle`, `ProviderAdmin`, `AdminSessions` and `AdminRecords` |
| `ModelDiscovery`, `ModelDiscoveryProofs` | listing, catalogue, drafts and the dialog that adds models; its proofs |
| `ImageGeneration` | generation service, worker, configuration and bridge of the image part |
| `ImageAssets` | prompt and picture assets, their files, snapshots and requests |
| `ImageSettings` | the image section of the configuration and the page that saves it |
| `CapabilityProofs` | proofs about `ImageGeneration`, `ImageAssets`, `ImageSettings`, `WebFetch` and `PromptInjection` |
| `MCBucketScheduler`, `MCServices`, `MCOperator`, `MCCapabilities`, `MCImageSettings` | instances for TLC |

`MCServices`, `MCOperator` and `MCCapabilities` each hold several parts that share no
variable. A run of such a module picks one part in its initial state and steps only that
one, so that its states are the sum of the parts' states and not the product; every
property is about one part.
### Atomicity

Node.js runs a synchronous block to its end. A block that iterates (for example
`processTasksDue`, `processDue`, `#launchQueued` in one pass of `#loop`, or the
terminal transaction of `#execute` followed by both `process...` calls) is split
into one action per iteration, and the variable `step` names the block, so that no
other actor acts until it ends. Between blocks any ready actor may act, with one
restriction taken from the event loop: a settled promise's continuation and a woken
loop are microtasks and run before the next timer, update or HTTP request
(`Drained`). The order in which a query returns its rows is not fixed, which only
adds behaviours.

### State and actions

`buckets`, `invocations`, `attached`/`injected` (`invocation_buckets`), `receipts`,
`paused` are the tables; `pending`, `closing`, `round` are `ConversationState`;
`run` is the closure of a run plus where it is suspended; `active` is `#active`.
Deadlines are abstracted to `due`: a deadline in the future may pass at any time.
`shown` is a history variable: how often a batch entered the transcript.

Turn boundary: the disjuncts of `shouldStopAfterTurn` in the order of the code
(`StopForSleepOrBudget`, `GrantClosingTurn`, `StopForContextOrTurns`, `Nudge`,
`StopAfterReceipt`, `InjectBetweenTools`/`InjectAfterRound`, `EndRound`,
`StopForWallClock`, `ContinueTools`). What the model answers, whether it drafts,
sends or calls tools, whether the budget is spent and when the context fills up are
inputs.

`FailToOpen` is an error before the run's `try` (a removed chat, an unregistered
model, a stored row that does not decode): no `finally` runs. `FailFinish` is the
terminal transaction throwing.

`CrashAndRestart` may happen between any two transactions; `Recover(old)` treats
the oldest rows as older than `RECOVERY_MAX_AGE_MS`, and the configuration may have
changed. In `StartupCatchUp` time is explicit, because that component compares
times.

`ImageAssets`: `source` says which generation made a picture, `offer` is the published
configuration a generation takes its snapshot from; files and rows go in the order of the code, with a crash between.
`ImageSettings`: `document` is the section in the file, `entries` the jar, `serving` what
`ImageConfig` published; a PUT carries the revision its page was loaded with. A removal from the
jar that fails is ignored, as in `writeConfigEdits`, and `leftover` keeps the names it left.

`ImageGeneration`: `gen`, `attempts`, `outputs`, `keys`, `task` are tables and survive
`Exit`; the rest is the worker's memory. `phase` follows `serve()`: `recoverInterrupted`
(one action per autocommitted update), the first publish, the bridge, shutdown. `pump`
is where the loop of `pump()` stands: called synchronously from `enqueue` or `wake`,
refusing a round for want of a credential, awaiting a round, resumed after one. A round
is claimed by `RunGeneration`, its items go through `StartItem` (attempt row, then the
call), `ProviderAnswers`, `StoreOutput`, `RecordAttempt`, and `FinishRound` writes the
verdict and tells the bridge. `Submit` and `SubmitTask` are the two halves of
`bridge.submit`; only a crash comes between. A configuration is absent, a snapshot
without the generation's model and credential, or one with them. `calls` is a history
variable: the provider calls made.

`MessageIngestion`: one action per update, as in the code, where it is one transaction;
`log` is what Telegram has sent and `attention`, `cutoffs`, `buckets` and `messages` are
the tables. An instant is a minute of a week whose days have `DayMinutes` minutes.

`ConversationContext`: `rows`, `row` and `refs` are `context_messages`,
`conversation_contexts` and `context_refs`; `header` is the `ContextHeader` that a run
carries from row to row, `transcript` the messages of the Pi agent, which the cache may
keep. `GC` is the plan and its transaction. Rows that an aborted run writes after a cut are
marked `late`.

`PromptInjection`: `frozen` holds the rows of a run by section, `transcript` what was injected
with what it selected; a text is the set of its lines (`header`, `text`, `close`, …), each of
which knows its place, so that words that imitate a line are read back as one.

`LongTasks`: `tasks` joins `long_tasks` with `task_receipts`; a timer is an instant that
has come. `claims` is what the queue does with a receipt, seen from here. `walk` is the
operator who turns pages.

`ModelCalls`: each agent and each reader is a program counter with the permits it holds;
a permit passes to the first waiter when it is released, as in `AsyncSemaphore`. `spent`
is `daily_usage`, `sleep` is `bot_sleep_until`. Hours stand for instants.

`StickerIndex`: `catalogue` is `stickers`, `configured` and `approved` the sets in the table
and in the configuration, `todo` and `lifecycle` what `sync` and `start` have left to do.

`ToolCalls`: `calls` is `tool_calls` with its `telegram_sends` row, `sender` what the run
of the chat waits for, `posts` what Telegram has posted: a post happens at the latest when
the process crashes. `McpServer`: `server` is `ManagedServer` and names a connection by
its generation; `line` is the semaphore of one that calls, refreshes and reconnects wait
for; `remote` is the other side.

`Retention`: `db` holds the rows of the tables as nodes and the keys between them with
what a DELETE does to each; the purge is one transaction per statement group as in
`purgeExpiredData`. `ServeProcess`: each process is a program counter over `serve()`, with
the parts it has started (`runs`), which are stopped in the reverse of their order; `lock`
is the file, by which process and whether its pid is written yet.

`WebFetch`: one call; the network answers anything at each step, and the clock of the two
timeouts and the caller's abort may fire at each. A text is the sequence of its bytes, each
with its place in a character.

`ConfigLifecycle`: an operation (`op`) holds the reloader's lock and is cut at its
`await`s; a hand edit comes at any of them, and each write of the file or the jar may fail. A revision is the content, as it is a hash of
it. `process` is the running configuration with what it reports of itself; `panel` what a
page shows.

`ProviderAdmin`: `saved` is the file, `minted` the jar, `live` the running configuration
with its registry; a secret is tagged with the URL it was typed for. A request is checked
against the file of one moment (`asks`) and written under the lock at a later one, file and
jar in one step (`ConfigLifecycle` and `ImageSettings` have them apart). History
is kept of the names ever stored, of the chats that a deletion departs from, and of whether
the write under way was still the one expected.

`AdminSessions`: a request is suspended while its body arrives and while a password is
hashed. `failures` is the map that bounds the throttle, the order of its entries kept by
what came `before` each. `AdminRecords`: each page is one request, and between two pages
rows come, go and change. `ModelDiscovery`: a listing is the set of the models a provider
names, one for each id, as in the code's Map; `Listing`, `Cooked` and `Merge` are the pure
part; a discovery is suspended at each page and at the catalogue, whose download is shared;
the connection and the file may change under it.

## Runs

| Run | Instance | Checks |
|---|---|---|
| `topics` | one chat with two topics, 2 batches, 2 slots; pause, cancel, crash, removal of a topic | `TypeOK`, `OneRunPerChat`, `BatchesOwned`, `CompletedWasInjected`, `RunsMatchRows`, `PausedIsQuiet`, `ShownOnce`, refinement `DeliverySpec` |
| `receipts` | two chats, one slot, a batch and a receipt with exemption; sleep, pause, cancel, abort, failing terminal transaction, crash, removal of a chat | `ClaimsSettle`, `ExemptionOwnsRound`, `ClosedIsFinal`, `SleepGatesRuns` |
| `liveness` | two topics of one chat, one batch and one receipt, one slot, no window and no grace; abort, pause | `BatchesClose`, `ReceiptsSettle` under `FairSpec` |
| `services` | the parts of `MCServices` | see below |
| `operator` | the parts of `MCOperator` | see below |
| `capabilities` | the parts of `MCCapabilities` | see below |
| `image_pair` | a panel and an agent generation of 1 picture, 2 rounds, 1 exit, 1 republish | `NoLostWakeup`, `GenerationsSettle` under `FairSpec` |
| `stale_injection` | two chats, 3 batches | `ShownOnce` is violated (finding 1) |
| `image_restart` | one generation, one exit | `ReceiptsReportOutcomes` is violated (finding 2) |
| `image_quota` | two submissions, a quota of one | `SubmissionsWithinQuota` is violated (finding 3) |
| `image_keys` | the image section with a defect | `PruningKeepsReferences` is violated (finding 4) |
| `retention_failure` | one killed run, one purge | `PurgeSucceeds` is violated (finding 5) |

The three runs over parts check, of each part:

| Run | Part | Property |
|---|---|---|
| `services` | startup catch-up | `UpdatesReachOneBatch`: what was confirmed to Telegram is stored, what was stored is scheduled, and in one batch only |
| | ingestion, at the gates and across a migration | `BatchesAreFaithful`: batches hold what was said in scope, once and in order, and open when the rule lets them |
| | long tasks, with a race of enders or an operator who turns pages | `TasksEndOnce`: one end, one receipt, the quota, pages that miss none |
| | model gates, over days or with images | `CallsAreAdmitted`: callers are served in order, overruns are bounded, no sleep ends in a spent day |
| | stickers | `SearchIsApproved`: a search answers with what is approved and still exists |
| | send and execute | `SendsKeepFaith`: recorded outcomes are true, the flood limit holds, nothing stale leaves |
| | one MCP server | `ManagerLosesNothing`: no orphaned connection, no forgotten server, truthful calls |
| | purge, debts and copies | `RetentionKeepsFaith`: old revisions, senders, pictures, evicted rows and runs go, what is in use stays, copies are bounded |
| | processes | `ServeIsSingle`: one serves, the store closes last, the refused leave the lock |
| `operator` | conversation context | `HistoryAgrees`, `Replayable`, `RoundAuthority`, `HistoryOnlyShrinks`: tables, header and transcript tell one history, what is sent is a legal transcript, authority is the round's own, dropped history stays dropped |
| | configuration, by commands or by the panel | `ConfigurationIsOne`: the running configuration, its file and its keys agree |
| | accounts and guesses | `PanelIsGuarded`: sessions are current, guessing is bounded, slots come back |
| | lists, memories and the sweep | `RecordsAreFaithful`: pages neither miss nor repeat, memories stay home, the sweep ends clean |
| | models of a provider | `ModelsAreHonest`: what is added is what was listed for the connection it goes to |
| | providers | `ProvidersKeepFaith`: registry, file and jar agree, credentials stay with their endpoint, what was checked is adopted |
| `capabilities` | generations | `GenerationsKeepFaith`, `RoundsAreFinal`: calls are paid once, permits and rounds are nobody's loss, verdicts stay |
| | assets | `AssetsHold`: rows have files, requests are what was meant |
| | settings | `SettingsHold`: what is served follows file and jar, and the jar keeps nothing else but what a removal that failed or a kill left |
| | prompts | `InjectionsAreFaithful`: what is read back is what was rendered |
| | pages | `FetchIsFaithful`: only allowed requests, a result within its limits, an audit row that tells the outcome |

Each property has a faulty variant of one definition (marked "Faulty" or "MUTANT" in the
modules) with which TLC finds it violated.

### Bounds

`MaxBatches` bounds the message batches that ever open and with them the row ids; a task
adds one batch. Two batches are the least with which one is attached, deferred or released
while another runs, and a third is needed for a stale injection (the batch itself, one that
opens the later run, and one in the other chat). `TurnsPerInjection = 2` gives a round with
and without a boundary that continues. `Disturbances` picks which operator and failure
actions an instance has, and `Removable` which chats and topics a restart may find gone
from the configuration; between them the runs have all. The `receipts` run has every
disturbance at once, on the smallest instance where a claimed receipt waits for a slot. The
runs over parts stop when their bounds are used up, which is why they do not check for
deadlock; so do the image runs, which end with a stopped process. The scheduler runs check
it.

| Part | Bounds, and why they are enough |
|---|---|
| catch-up | three updates of two conversations, a clock that bounds the number of starts (each takes a tick) and reaches past `MaxAge` |
| ingestion | instants 12, 14, 15 and 16 of two-minute days, on both sides of a window's end and of midnight; one human and one bot in a topic, or two topics and a migration |
| long tasks | two tasks, or three alarms under an operator's pages of size 1; no claims while pages are turned |
| model gates | three agents or two images, a budget that two calls exhaust |
| sends | wall clock 2, last tick 4, three calls, one send per window of a tick; two runs with their own topics, the second of them a receipt's; calls that send nothing go first |
| MCP | four generations of a connection, two catalogues, a line of two; a required server only until it has connected; one call that looks before one that acts |
| retention | two messages and two runs with the purge on the second day; one task and its receipt over three days; two copies for backups and the upgrade |
| processes | two processes, each started once; `OneServes` and `RefusedLeavesLock` speak of histories in which no two were inside `acquire()` at once (`overlap`) |
| context | sequence numbers up to 5, two batches, a completion |
| configuration | edits and operations up to 4, of the panel up to 3; two chats. `WritesHitTheirChat` leaves out a reorder of chats and its reversal between two reads |
| accounts | two requests and a clock up to 1; for guessing three requests after the setup, a clock up to 3 and no change of credentials |
| lists | one list per exploration, pages of size 1, one moment for memories |
| drafts | one request, pages of size 1, the file moving once besides appends; or two requests that share the catalogue's download under a fixed connection; or a connection that moves (secrets and revisions up to 3) |
| providers | two providers, one chat with a model of its own (there or to be created) and one that follows the agent; one request beside one hand edit and a reload, or two requests of which only the first is about a connection or a chat's settings. File and jar are written in one step |
| generations | one generation of two pictures, two rounds and two restarts: a round cut in half, a retry, a recovery that is cut short itself; two generations of one picture in `image_pair` for a queue that fills while a round runs. `Concurrency` is 1, as `image/service.ts` sets it |
| assets | one prompt, a text that names two pictures in an order of its own, models that take one or two, two generations, a conversation and the panel; one edit, publication or crash (two were explored once, with the same result) |
| settings | one credential with two plaintexts, two saves, one hand edit, one kill; the provider's key changes once |
| prompts | three messages of two senders, three injections, a window of eight lines |
| pages | one redirect, texts of two characters, budgets 0 and 3, four bytes of HTML |

### Fairness

`Fairness` says that a synchronous block goes on (weak), and that the loop, a passing
deadline, a run's next step and a settled run's continuation happen if they are ready again
and again (strong). Timers and promises of the event loop are never withdrawn; they are
only disabled in the model while another block's steps are under way, hence strong
fairness. That a run's steps lead to its end is not assumed: turns are capped by
`turns_per_injection` and the wall clock aborts what remains. Commands, sleep, crashes and
new messages are never assumed to happen, and a paused or sleeping system is covered
because pausing closes and sleeping skips what waits.

`ImageGeneration!FairSpec`: the process is started again after an exit (the supervisor),
startup goes on, ready continuations run, and a provider call ends, since it carries a
120 s timeout. Each is weakly fair: nothing withdraws a ready continuation. That the
process is not stopped for ever and that a configuration is published is not assumed but a
premise of `GenerationsSettle`.

## Findings

1. `stale_injection`. Two runs are launched and both throw before their `try`. The first
   `#execute` ends with `processDue`, which finds the second conversation's next batch due
   and its invocation still `running`, not closing, not in a round: it attaches the batch to
   the dead run. The second `#execute` releases the batch in the database, but nobody takes
   it out of `pendingBuckets`, because `takeInjections` is in the `finally` that this run
   never entered. The batch opens its own run, and is injected a second time at that or a
   later boundary. The comments at `agent-runtime.ts:919` and `conversation-runtime.ts:85`
   exclude this.
2. `image_restart`. `reconcile()` at startup settles every waiting image task, also those
   whose generation is still queued or being resumed by the worker: the conversation is told
   that it failed, and the pictures that come later are announced to nobody. The flow
   document (`telegram-agent-flow.md:346`) promises late results.
3. `image_quota`. The quota of submissions is counted by `tasks.create`, after
   `generations.create` has stored and enqueued the generation: the refused submission is
   executed, paid for and never announced.
4. `image_keys`. While the image section of the file has a defect and is ignored, any save
   of the panel prunes the jar entries the section refers to (`config-file.ts:145`), against
   the promise of `key-jar.ts:113`.
5. `retention_failure`. A run that was killed leaves `active_invocation_id` of its context
   set, the migration declares no action for that key (the schema says `set null`), and once
   the run is old the purge, and with it the backup, fails at every attempt.

Seen while modelling, not checked by a run. Where a definition of that name stands beside the
properties, TLC refutes it:

* `OnlyOldBatchesExpire` (`StartupCatchUp`): a catch-up that is resumed more than five
  minutes after it began makes batches that `recover()` expires at once, although their
  messages were received a moment ago; the design document, since archived, goes by the age
  of the oldest message.
* `VisionPermitsHeld` (`ModelCalls`): a waiter aborted at the chat's gate never returns its
  vision permit (`media.ts:457-459`).
* `IndexRecovers`, `IndexedIsFindable` (`StickerIndex`): a sticker may stay `running`, or be
  indexed and not found.
* `ViewedBeforeWritten` (`ConfigLifecycle`): the providers page reads the file before its
  revision (`server.ts:854-863`), so a write may go against a page of an older file.
* `WritesCanStart` (`ProviderAdmin`): `replaceModel` may lower `max_tokens` below
  `vision.max_output_tokens`; the file is written, the registry cannot be built, and the next
  start fails, against the comment at `providers-admin.ts:573`.
* `CachedIsCurrent` (`Retention`): ids of `conversation_contexts` are reused after a purge,
  while the cached agent is kept by id.
* `SavedKeysAreReplaced` (`ImageSettings`): a saved credential cannot be given a new plaintext
  under its name.
* `MediaIsCopiedOnce` (`ImageAssets`): two simultaneous calls copy one media row twice.
* `CallerSurvives` (`PromptInjection`): after a collection the caller is the sender inserted
  last into the map, not the newest speaker.
* Without a definition: `/model N` counts in a list computed anew at each command; a pause
  does not move with a group that becomes a supergroup; a command whose update was stored is
  lost if the process is killed before it runs; deleting the last model of a provider is only
  refused by the schema; two starters that read one stale lock may remove each other's; a stop
  requested during startup outside the catch-up is lost; takeover waits 60 s for a process
  that may need 30 s twice; a call to a side-effecting MCP tool does not set
  `side_effect_started`, so that a crash closes the invocation as aborted; an image copy that
  fails skips the rotation of backups; image generation rows are not purged; a picture purged
  between freezing and rendering fails the run; an album send records its first picture only;
  a page of contexts may miss a conversation that becomes active meanwhile; the purge keeps
  old text in `invocation_messages.snapshot_json` of younger runs and in rows of
  `context_messages` that were not evicted.

## Proofs

Each theorem is a statement `Spec => []P`, `Spec => [][A]_vars` or `Spec => DeliverySpec`
about the specification TLC explores, for every value of its constants. It is assumed of
them what the `ASSUME` of the module says and nothing else: numbers are numbers, the sets
of tasks and updates are finite, each conversation has its chat, a name for "none" is not a
member of the set it is missing from. TLC evaluates every one of these assumptions.

Every proof follows one argument: the property is not inductive, a stronger invariant is,
and one lemma per action (`...Keeps`, `...Type`, `...Linked`) shows that the action keeps
it. What makes the invariant stronger is the content of the proof, and is as follows. TLC
checked each of these invariants on the runs before it was proved.

### The scheduler

| Module | Theorem | What it states |
|---|---|---|
| `BucketSchedulerProofs` | `TypeCorrect` | `TypeOK`, with no row, block or run that refers to a row that is not there (`RowsLinked`) |
| | `SerializedPerChat` | `OneRunPerChat` |
| | `Ownership` | the invariant below |
| | `BatchesHaveOneRun` | `BatchesOwned` |
| | `ClosedRowsAreFinal` | the action property `ClosedIsFinal` |
| | `PauseIsFinal` | `PausedIsQuiet` |
| | `CompletedMeansShown` | `CompletedWasInjected` |
| | `RunsFollowRows` | `RunsMatchRows`, when no terminal transaction throws |
| | `ClaimsHaveRuns` | `ClaimsSettle` |
| | `SleepHoldsRuns` | the action property `SleepGatesRuns` |
| | `ExemptionIsOwn` | `ExemptionOwnsRound` |
| `SchedulerRefinementProofs` | `SessionsExclude` | `SessionInv`: one session per chat |
| | `DeliveryImplemented` | `DeliverySpec`: the scheduler implements `BatchDelivery` |

`TypeOK` alone is not inductive, because a queued row must name a conversation and a bucket
that exist before it can be run; `RowsLinked` adds that. The properties about batches speak
of rows, while the rows are kept by blocks of several steps and by runs in memory, so
`Ownership` proves four things at once: what the list of the block under way still means
(`BlockInv`), the running row behind every run in memory (`RunsHeld`), that a release has
only unsettled batches to go (`ReleaseList`), and that the batches an invocation has to
account for are nobody else's (`OwnInv`, from the insert to the last release). On top of it:

* `QuietInv` says what the blocks and runs of a paused chat may still hold. `/pause` closes
  rows first and aborts runs second, so releases are still to come when the pause is there.
* `OpeningShown` says that the opening batch of a run was injected, or is still the first in
  the hands of a run that loads: no run ends completed without it.
* `ActiveInv` makes rows and runs agree in both directions. A terminal transaction that
  throws breaks it: `#execute` drops the run and leaves the row to the next start. That step
  is the disturbance `persist`, and its absence is the hypothesis of `RunsFollowRows`; the
  run `topics` checks the same case.
* `ReceiptInv` says that a batch is the batch of at most one receipt, stays so, and is never
  a message batch: `getCompletion` looks a receipt up by invocation and batch.
* `VetInv` says that between the vetting of the queue and the launches of a tick, what waits
  while the bot sleeps waits for a receipt. `PendingRows` and `RoundInv` do the same for the
  batches handed to a run and for the receipt it answers to.

The refinement maps a batch that is collecting or queued to waiting, a running one to held,
and a chat to the session of the invocation that runs or whose batches are being released.
`SessionInv` makes that a function. The header of `SchedulerRefinementProofs` lists which
abstract action each action of the scheduler is; the others are stutters.

### Startup catch-up

`UpdatesAreBatchedOnce` states `UpdatesReachOneBatch`. `CatchUpInv` dates every stored
message: those older than the catch-up under way are exactly the ones that earlier
catch-ups or the serving process have scheduled (`OldIsScheduled`), and an offset never
confirms what is neither stored nor in hand (`OffsetInHand`). A crash leaves both true, and
that is why a catch-up may be resumed at any time.

### Message ingestion

`BatchesStayFaithful` states `BatchesAreFaithful`. `MessagesFit` keeps for every stored message
the entry of the configuration that allowed it, which no later migration takes away;
`AttentionFits` names for every open attention window the message that gave it, so that a bucket
that opens outside the calendar can name it too (`MayHaveOpened`). `BucketsFit` says that what a
bucket adopted comes before its opener, ascends and was above the cutoff (`TakenIn`), that no
message is in two places, and that one bucket of a conversation collects. A message that is
stored stays what it was (`StillStored`), so a batch that has closed keeps its promises. The
code's window test is arithmetic on the minute of the week; `CalendarIsFollowed` proves it equal
to the calendar for windows that cross midnight and the end of the week.

### Conversation context

`OneHistory`, `AlwaysReplayable`, `AuthorityIsOfTheRound` state `HistoryAgrees`,
`Replayable` and `RoundAuthority`; `DroppedStaysDropped` states the action property
`HistoryOnlyShrinks`. The heart of `ContextInv` is that the store is ordered (`StoreInv`):
rows below the head are evicted, those between head and next are not, and there are none
after. What a header sees is then an interval, and an agent that shows an interval, each row
once and in order, still does so after a row is appended or a prefix collected
(`HeaderAgrees`, `AgentInv`). That the transcript can be sent needs the call which pending
results answer to be in it (`RenderableInv`); the authority of a round needs its batch to be
the last one there (`BatchInv`).

### Processes on one data directory

`OneProcessServes` states `ServeIsSingle`. `Sound` says what a process holds and runs from
where it is; `OwnLock` says that the file is that of the process in `acquire()` or of the
holder, as long as no two starts were inside `acquire()` at once. With such an overlap the
code makes no such promise (see below), and neither does the property.

### Image generation

`CallsArePaid` and `WakeupsAreKept` state `GenerationsKeepFaith` and `NoLostWakeup`;
`FinishedRoundsStay` states the action property `RoundsAreFinal`. `GenInv` ties the three
places that speak of a round to each other:

* `CurrentInv`: a generation that reads running after recovery is the current one, in the
  round the worker has in hand.
* `ItemInv`: an attempt of that round is in flight exactly when its item is past the
  provider call and not yet recorded; an item that waits has none; an item that is done has
  one unless the worker stops.
* `AttemptInv`: an attempt in flight anywhere is of the running round of its generation; a
  call has its attempt, and a success its picture. Since the unique index lets an attempt
  begin once, a call is made once.
* `PhaseInv`: what each phase of the process may leave unfinished. Recovery may be cut short
  by a crash at every statement; what it has not reached is still running or listed.
* `VerdictInv`, `QueuedInv`, `KeyInv`, `QueueInv`, `TaskInv`: the verdict is that of the
  attempts, a queued round is untouched, each round has its key, what is queued is in the
  queue and the queue has a pump, and no waiting task has a settled generation.
* `PermitsHeld` and `WaitersInv`: who waits for a permit waits once, so the permit that is
  released reaches an item that can use it.

### Assets and requests

`AssetsStayWhole` states `AssetsHold`. An id is held by one copy from its file to its row
(`Apart`), and `AskFits` says of every copy what its file holds at its stage; so a row has its
whole file (`FilesFit`) although a copy may fail, be abandoned or be cut off by a kill between
the two. `GenerationFits` is what `resolveSnapshot` promises when a request is accepted, and
stays true of it later: nothing that an edit or an archival changes is read again, and no row
is lost (`GenerationsStay`). That the expanded text is the one that was meant (`ExpandIs`) and
that the pictures come in the order in which they are first named (`ImagesAre`) is proved for
texts of every length, by positions (`PlacesInOrder`) instead of a fold. `OneKey` and the empty
`unfair` are the promise of `generations.create`; `OutputsFit` ties what was sent to who asked.

### Injections

`InjectionsStayFaithful` states `InjectionsAreFaithful`. `TextFits` says of every text in the
transcript what was rendered into it, and stays true of it because a message that has arrived
does not change (`FitsStill`). Its heart is that only a header, an end and a catalog are not
indented (`FormatIs`), so that below the last end nothing but the rendered headers is read
(`RenderFits`). What a run knows is then the union over its texts (`VisibleIs`, `KnownInv`),
and the newest catalog up to a text is the one that was current for it, or there was none
(`CatalogsFit`), which a collection keeps because it leaves a suffix (`CutFits`). That the rows
which fit are the newest ones follows from sizes that grow with the rows (`SizesGrow`).

### The settings of the image part

`SettingsStayTogether` states `SettingsHold`. `SettingsInv` follows a save through the lock,
the key jar, the rename and the reload: what the request that waits has to say (`SavingInv`),
what kind of write holds the lock (`WritingShape`), and between any two steps of a write which
names the next file refers to and where their secrets are (`CommitInv`). `NewKey` says that a
key of the provider is of nobody's page until its write is done, so a page that is stale cannot
bring an older key back. `TidyInv` and `ServingInv` say of the jar and of what is served that
they are those of the file, but for the entries of a write between its two renames and for
`leftover`: the names that a removal which failed (`updateKeyJar(...).catch`), or a kill before a
removal, left behind. Why only these names are left needs `CommitInv` to say that the file which
a write replaces still refers to what the text it has read refers to. A page can only be
refused as stale if its save names the revision it was loaded with.

### Web fetch

`FetchStaysFaithful` states `FetchIsFaithful`. `SentInv` says that whatever was sent, and
whatever addresses a request is about to go to, the policy allows for their URL, through every
redirect; `ReadInv` bounds what is read of a body by its limit, and says when it counts as too
long. The text that is returned is cut by bytes: `CutDecodes` proves, for every text, that a cut
goes back at most three bytes, to where a character ends, and `DecodesIs` that what is left then
decodes.

### Model gates and the daily budget

`ModelCallsAdmitted` states `CallsAreAdmitted`, for any finite set of callers and any number
of permits. The two semaphores are lists of waiters and counters; `CallsInv` says what each
*is*, given where its clients are:

* `GateIs`, of a chat's gate: its queue holds each waiting caller once and nobody else; one
  caller is inside, or nobody is and nobody waits. `VisionIs`, of the semaphore of the image
  analyses, is weaker because the code is: an analysis aborted between the two gates takes
  its permit along (`VisionPermitsHeld` below), so there may be fewer analyses inside than
  permits out; but if anybody waits, all permits are out.
* `Behind`: in the queue of the vision semaphore the analyses of the sticker index come after
  all others, however they interleave.
* `JobSound`: an analysis has the scope of its first caller. That of the index belongs to the
  worker, never passes a chat's gate and is never aborted, so the worker's one place in the
  budget of the index (`IndexInv`) is enough.
* `SpendingInv`: what is charged to the day, and one for each call let through and not
  charged yet, is at most the limit and one overrun for each agent and image. What is let
  through is kept apart from what is charged, because a call may end on the next day; of the
  days to come nothing is charged.
* `SleepInv`: a sleep lasts to the end of the day it began in, or beyond.

The lemmas `Inserted`, `Served` and `Left` say what the three list operations of a semaphore
do to a list without repetitions, by its positions; everything else rests on them.

### Send and execute tools

`OutcomesAreKept` states `SendsKeepFaith`. `ToolsInv` gives every attempt of every call its
place: what the ledger of the module says was posted is what the rows and the process say
(`Ledger`), a mark in the rows is of a call that got that far (`Marks`), and a call in hand
is in exactly one place between reserving and recording (`AtWork`). A crash empties the
process and leaves the rows; what was posted and not recorded is then in no place, and that
is the outcome the code records as unknown. `FloodIsBounded` counts the marks inside the
sliding window from the reservations alone, whatever became of the calls, and
`NothingStaleLeaves` says that a retry after a 429 belongs to the run that is still there.

### MCP manager

`ManagerKeepsAll` states `ManagerLosesNothing`. The manager has callbacks of connections
that are no longer current, so `McpInv` sorts everything by generation: the client is the
open connection of the current generation, a connect of the current generation means there
is no client, and older connections own nothing (`ConnectSound`, `ManagerSound`,
`NoOrphans`). What a server offers is what the holder of the line listed last, or a change
notice, a refresh or a reconnect is on its way (`ReadyOffersItsOwn`, `NewsArrive`,
`OnItsWay`). The line of waiting operations holds each one once (`Once`), and for the call
in hand the executions on the server and the tries still on the wire add up to the tries
the manager made (`CallSound`): that is why a call is retried only when it cannot have been
executed.

### Long tasks

`TasksEnd` states `TasksEndOnce`. `TasksInv` says of each task what its receipt may read in
each state (`TaskSound`), of a cancellation under way what the row still was when it was read
(`CancelSound`), and counts the pending alarms (`AlarmQuotaHolds`). The rest is about pages.
A page is cut from up to two lists, what is due first and what is over last, with a cursor
that names a row by key and id, while rows are added and leave a list for the other.
`WalkSound` says what the cursor means: it has passed exactly those rows that were shown, and
each once. One page keeps this (`PageIsSound`) because the first rows of a list leave no gap
(`NoGap`), are all of them when there are few (`AllWhenFew`), and end with the greatest
(`LastIsLast`): three lemmas about the order of the rows, for any list.

### Stickers

`SearchFindsApproved` states `SearchIsApproved`. `StickerSound` says of each row that an
active one was in the set when Telegram was last asked, and that what a search finds was
indexed with success; a row the worker has in hand is not found. `sync` takes the sets in any
order.

### The running configuration

`ConfigurationStaysOne` states `ConfigurationIsOne`. `OpSound` says what the operation that
holds the lock knows at each stage, since hands may edit the file at every `await`: that a
revision pinned without an edit since is still the file; that a position found in one content
is used on that content (`WriteSound`), unless the file was changed and changed back between
the two; that the key in the file is the one the write read, because nobody else writes keys
(`WrittenSound`); that what is published was valid when it was loaded. A key given out for a
write is in the jar from `addKeys` on and in nobody else's hands (`KeysApart`), so taking it
back, where that succeeds, cannot take the one the file names. Lemmas about contents carry the rest: an edit is of
one chat (`EditedIs`), a valid list names each chat once (`DistinctWhenValid`), and what is
adopted of a file with nothing left to the restart is the file (`AllIsAdopted`).

### Providers and models

`ProvidersStayFaithful` states `ProvidersKeepFaith`. `StoresInv` is about the three places: the
names of the file and of the running configuration are in the jar and lead to credentials of
their own endpoints (`JarSound`), and the registry has what runs. `AsksInv` says what a request
still knows when it gets the lock: that the names it minted are its own and stored nowhere, and
that what it checked was so of the revision it carries (`AskedWrite`, `AskedSwitch`).
`ApplySound` says it of an apply between its load and its build. A deletion is then adopted only
when nothing uses what goes (`DeleteIsChecked`, `DeletesAreAdopted`). One case had to be told
apart: a revision is a hash of the content, so a file changed and changed back between the check
and the write passes for the one that was checked, while the chats that run are not those that
were looked at. `expected` records that the running chats are still the checked ones; the file
and its jar are sound without it.

`ModelsStayHonest` states `ModelsAreHonest`. `DiscoveryInv` says that a draft which needs no look
knows of a model only what the provider or the catalogue says of exactly that model at that
address (`DraftFits`): values guessed from a similar name force a look. Drafts keep this through
merging, selecting, editing and a change of the connection (`DraftsFit`, `DialogFits`), a
catalogue is used until it expires (`CatalogueFits`), and secrets go only where they were typed
for (`ConnectionsFit`, the last part of `RequestFits`).

### The panel's accounts

`PanelStaysGuarded` states `PanelIsGuarded`. A setup, a sign-in or a change of password is
suspended at its body and its hash, and `RequestsInv` says what it still holds (`Sound`);
`AccountsInv` ties each session to the hash of its account, so that a change of password ends
the others. The heart is `ThrottleInv`: the row of a client counts every guess within a lockout
(`Accounted`), although rows are forgotten when they are old or when too many clients are
tracked. What is forgotten first is the oldest; there is one because `before` is a strict order
on finitely many rows. `SlotsInv` says that the hash slots in use are the requests that hash.

### Lists, memories and the sweep

`RecordsStayFaithful` states `RecordsAreFaithful`. `WalkFits` is about the pages of every list:
the cursor has passed exactly what was shown, no row is on two pages, and a row that kept its
place was listed if the cursor has passed it. It rests on keys that only rise and on a page that
leaves no gap. `SweepFits` says that what the sweep has passed is cleared and that it moves by
whole batches, so that it ends after as many as it should; `OperatorsFit`, with `TablesAre`,
that memories stay in their rooms and the seeded operators keep control.

### What stays with TLC

* Liveness (`BatchesClose`, `ReceiptsSettle`, `GenerationsSettle`): the provers have no rule
  for weak and strong fairness over such specifications.
* `ShownOnce` is false in general (finding 1). TLC checks it in the one chat of `topics`,
  where that history, which takes two chats, cannot come about.
* `RetentionKeepsFaith`: the module follows keys between tables by recursion.

## Not modelled

Message texts beyond what the snapshot format needs, prompt texts, skills and templates,
token arithmetic beyond budgets, the wording of answers, logs, detail pages and statistics of
the panel, its user interface beyond the dialog that adds models and the page of the image
settings, the terminal wizard, adapters and compat fields of providers, and the text of
JSONC. A configuration that fails to load keeps the previous one and is no step of the
scheduler. The catch-up batches of `StartupCatchUp` are not fed into `BucketScheduler`, where
the same rows arise from two topics that become due in one tick. `stop()` is not an action
there: a shutdown first aborts like /cut_topic and then ends like a crash.
`merged_into_bucket_id` is never written by the code and left out. A stop that throws in the
`finally` of `serve()` is not modelled. In `ConversationContext` rows that an aborted run
writes after a cut are marked `late` and kept out of `RepliesResolve`; a media reference that
is minted again keeps its old `source_seq` and may be revoked early.

## Plan

Written in this order: the scheduler with its queue and runs, the delivery contract and the
refinement, catch-up, images, the services, the side of the operator; then the proofs, the
scheduler first. Every safety property of a run is now proved or listed above with what keeps
it with TLC. Modules that followed lists with filters and folds were restated by positions
for it (`Semaphores`, `ModelDiscovery`, `MessageIngestion`, `ImageAssets`, `PromptInjection`).
The next step would be to do the same for the keys that `Retention` follows by recursion.

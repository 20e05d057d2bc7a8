# Formal model of qq-bot-v2

TLA+ models, TLC configurations and TLAPS proofs for the Agent Core of `qq-bot-v2`: the process
that keeps one perpetual LLM history and runs `BotLoopAgent` on it. Paths below are relative to the
repository; `PROJECT.json` maps every definition to the lines it models.

Contents: [inventory](#1-inventory) · [modules](#2-modules) · [runs](#3-runs) · [fairness](#4-fairness) ·
[proofs](#5-proofs) · [divergences](#6-divergences-found) · [observations](#7-observations) ·
[not modelled](#8-not-modelled) · [plan](#9-plan)

## 1. Inventory

The default deployment is a supervisor (`src/platform.ts`) over an Agent Core, a QQ gateway, a media
worker and, by configuration, a Feishu gateway and a browser controller. The processes share a
PostgreSQL database and loopback HTTP; only the Agent Core changes the Agent's state.

| Component | State | Operations | Must hold |
|---|---|---|---|
| **Canonical ledger** (`agent-ledger-repo.ts`, `ledger-commit-coordinator.ts`) | `bot_agent_ledger_entries` (append only), `bot_agent_runtime_state` singleton | commit messages with a runtime patch under an expected head; runtime-only commit; load | one linear history; cursor and entries move together; a failed commit leaves nothing behind |
| **Projection and loader** (`agent-ledger-projection.ts`, `agent-ledger-loader.ts`, `agent-context.ts`) | each process's `AgentContext`, head, cursors | load, incremental install, reload | memory is the projection of the prefix it expects; whatever was committed can be loaded |
| **Compaction** (`compaction.ts`, `compaction-coordinator.ts`) | a candidate held outside the transaction | choose a cut, summarize, commit by expected head, recompute once on a race, reload | nothing leaves the projection unsummarized; tool groups stay whole; the chain stays legal |
| **Gateways and ingress** (`bot/core.ts`, `bot/messages/ingest.ts`, `database/messages.ts`, `database/backfill.ts`) | one promise chain per scope, failure log, `messages` | parse, persist, recall, reconnect, backfill | a group message is stored once although it is pushed and backfilled; a recall follows its message |
| **Mailbox delivery** (`replay-missed.ts`, `database-mailbox-watcher.ts`, `event-queue.ts`, `mailbox.ts`) | `messages` rows, per-mailbox cursors, `lastWakeAt`, high water, watcher cursor, queue | insert, replay, poll, drain, disclose, requeue | every row disclosed, once, in order; a cursor never passes an undisclosed row |
| **Inbox paging** (`tools/inbox.ts`) | read cursors of the tool's pages | list, read a page under a size cap | a cursor covers only what was shown |
| **Mailbox attention** (`mailbox-handled.ts`, `compaction.ts`) | no table: recomputed from the projection and the compaction payload | disclose, round, `mailbox_handled` markers, compaction of the state | an unanswered mailbox stays pending, an answered one stays answered |
| **Model calls** (`claude-code/llm-client.ts`, `llm-client.ts`, `output-continuation.ts`, `react-kernel.ts`) | retry counter, provider in use, partial output | request, back off, fall back, escalate, continue, compact on overflow | recovery is bounded and a round is answered or fails |
| **Tool round** (`react-kernel.ts`, `tool-concurrency.ts`, `tool.ts`) | batches, the executor's stage per call | plan, run in batches, collect results, effects, images | results answer the calls in order; a side effect runs alone |
| **Message delivery** (`tools/send-message.ts`, `send-policy`, `napcat-sender.ts`, gateway clients) | focus, cooldown and duplicate windows, external sends | check, send, retry, classify the answer | a send of unknown outcome is reported as such; ambient messages are spaced |
| **Media** (`media-cache.ts`, `generate-description.ts`, `collect-sticker.ts`, `retention-runner.ts`) | media rows, blobs, descriptions, text frozen in the ledger, stickers | fetch, describe, resolve, collect, sweep | a shown text does not change; what is in use is not swept |
| **Schedules** (`schedule-*.ts`) | `schedules.json`, occurrences, deliveries; jobs, timers, queued set | create, cancel, fire (three writes), replay, commit, confirm | no wake lost, none twice, body before wake |
| **Tasks** (`task-scheduler.ts`, `background-task-registry.ts`) | lanes, resource keys, `dedupeKey` promises; a persisted registry | schedule, drain; register, finish, interrupt at start | exclusion, drain ends, notices are true |
| **Job queue** (`queue/memory-queue.ts`) | queue, one timer, retries, waiters | enqueue, retry, stop | a waiter is answered |
| **Files** (`memory-store.ts`, `tools/notebook.ts`, `tools/workspace-file.ts`, `tools/crypto-paper.ts`, `tools/website.ts`) | Markdown memory, monthly notebooks, workspace files, paper account, website repository | read-modify-write under a revision or a lock; commit and push | nothing unread is overwritten; an account is the sum of its orders |
| **Browser** (`browser/controller.ts`) | launch promise, contexts, page list | open, act, close, prune, crash | every open page is tracked, a budget holds |
| **Loop and its policy** (`bot-loop-agent.ts`, `loop-policy.ts`, `tools/rest.ts`) | counters, discovery state, rest, stop flag | debounce, drain, commit, round, decide, wait, stop | never stuck, never spinning, never parked over pending attention |
| **Process life** (`index.ts`, `agent-core-lock.ts`, `agent-startup-lifecycle.ts`, `shutdown.ts`) | advisory lock, `shutdownCoordinator`, phase | boot, signal, phases with time-outs, fallback shutdown | disconnect last; an agent never starts after a stop |
| **Transcript** (`agent-context.types.ts`, `snapshot-integrity.ts`, `agent-ledger-projection.ts`, `agent-ledger-loader.ts`) | entry rows, runtime row, checkpoint row | parse, validate, load, install | what was written can be read; a checkpoint hides nothing |
| **Requests** (`working-context.ts`, `claude-code/request.ts`, `openai-agent/llm-client.ts`, `compaction.ts`) | the projection and what was asked last | render pictures, replay thinking, pair calls and results, reuse the prefix for a summary | no call without its result; the prefix repeats |
| **Mailbox continuity** (`mailbox-continuity.ts`) | anchors in the runtime row, a copy per drain | disclose, commit usage, record sends, compact | a forgotten mailbox is told of in full; engagement lasts one lease |
| **Tool access** (`tool.ts`, `tool-schema.ts`, `tools/index.ts`, `tools/policies.ts`) | none | classify a call, unwrap `invoke`, find and check the tool | what acts is never classified parallel |
| **Feishu gateway** (`services/feishu-gateway.ts`, `feishu/*`) | receipt chains, facts, failure log | receive, download, append, retry, drain | what was acknowledged is kept, in order |
| **Command tools** (`tools/workspace-bash.ts`, `openbb-cli.ts`, `moomoo-skill.ts`) | a child, its timers and captured output | allow, spawn, cut, time out, kill | answered in time; a cut is told; orders are simulated |
| **Supervisor** (`platform.ts`) | children, health waits, exit code | start, watch, stop, kill | nothing starts late, nothing is left |
| **State reset** (`apps/admin-web/.../operations`, `ops/reset-agent-state.ts`) | previews, runs, state file, audit log | preview, guard, run, restart | only what was confirmed is removed; every removal is on record |
| Configuration, system prompts, metrics, read-only WebAdmin views | reports | I/O | – |

**How they interact.** Gateways parse what QQ and Feishu push and insert rows into `messages`; after a
reconnect they backfill groups. The media worker describes what the rows refer to. The replay (at start) and the watcher
(polling) turn rows into events of one in-memory queue; schedule wakes, finished background tasks
and `stop()` use the same queue. `step()` drains the queue, commits the disclosures together with the
mailbox cursors, runs a round against the LLM and the tools, commits the round, commits handled
markers, and may compact. The tools of a round write the stores on disk, send messages through the gateways,
drive the browser and register background tasks. `runOnce()` asks `decideLoopPolicy` what to do next. All of this is one
thread of callbacks: between two `await`s nothing else runs, at every `await` anything may.

**What is hard here.**
- *Commit outcome.* A transaction may roll back, or take effect and still report an error.
- *Overlap.* The advisory lock lives on its own session; when that ends under a live Core a second one
  starts. The expected head is the only remaining fence.
- *State read before an await.* A compaction candidate is computed and summarized outside the
  transaction; drained events are held in a local variable while their commit is awaited.
- *Order.* Row ids are allocated before their transaction commits; requeued events go to the tail.
- *Multi-file writes.* A firing schedule writes occurrence, delivery and jobs in turn.
- *Crash between steps.* Round and handled markers, delivery and ledger, replay and first poll.
- *Counters.* Corrections, no-progress rounds and failed directions are reset in different places.
- *Revisions.* Files are read in one tool call and written in another, while the owner and maintenance jobs
  write them too.
- *Unknown outcomes.* A send or a push may take effect although its answer is lost.
- *Shared promises.* Deduplicated jobs, one browser launch and one listing serve several callers.
- *Stop.* It may arrive at any await, during boot, or while a rest waits inside a tool call.

## 2. Modules

| Module | Models | Size of the abstraction |
|---|---|---|
| `LedgerHistory` | abstract specification: one history, extended at its end by whole batches by an actor that has seen all of it | |
| `AgentLedger` | ledger, runtime singleton, coordinator, projection, compaction, lock, crash, overlap; refines `LedgerHistory` | a message is its role and the call it answers; text and tokens are gone |
| `Ingress` | QQ gateway: per-scope chains, recalls, reconnects, backfill, the table | a message is its scope and number |
| `MailboxDelivery` | gateways' inserts, replay, watcher, queue, drain, disclosure commit, requeue | rows the filters skip are left out |
| `InboxPaging` | the pages of the `inbox` tool | a row is its rendered size |
| `MailboxAttention` | attention state captured from messages, markers, compaction payload | per mailbox the three maxima `captureMailboxAttentionState` keeps |
| `LlmCall` | a round's model calls: retries, fallback, escalation, continuation, overflow | an answer is one of the outcomes the kernel distinguishes |
| `ToolRound` | a completion and its tools: batches, executor stages, answers, effects, images | a call is its slot and kind |
| `SendMessage` | focus, hooks, policy, delivery, gateway retries, classified answers | a text is a model value, time a small counter |
| `MediaStore` | media rows, blobs, descriptions, frozen texts, stickers, retention | bytes and descriptions are model values |
| `ScheduleWakes` | `ScheduleRuntime`, its stores, the delivery coordinator, the loop's commit of wakes | one-shot jobs; names and times are gone |
| `TaskScheduler` | lanes, resource keys, dedupe, drain | a job is its arrival number |
| `BackgroundTasks` | registry file, work, notices, restart; extends `TaskScheduler` | a task is its job |
| `JobQueue` | `MemoryQueue`: one timer, priorities, retries, stop | a job is its number |
| `MemoryStore` | one Markdown memory file: Agent tools, reviewer, revision, lock | an entry is its fact, sources and status |
| `WorkspaceFiles` | notebook checkpoints over monthly files; `workspace_file` by revision | |
| `CryptoPaper` | the paper account and its orders | integer prices and fees |
| `WebsitePublish` | working tree, index, commit, push, the owner's edits | a file is its version |
| `BrowserPages` | launch, contexts, pages, prune, crash | |
| `LoopPolicy` | `decideLoopPolicy` as an operator | |
| `BotLoop` | `step()`, `runOnce()`, waits, rest, discovery, behavioral reset, `stop()`; uses `LoopPolicy` | the queue is the set of kinds of event in it; a round's result is any `Outcome` |
| `AgentLifecycle` | `main()`, lock, startup lifecycle, signals, coordinator; composes `BotLoop` | phases touching neither loop nor lock are one step |
| `DurableMessages` | what one stored message may hold; constant definitions | a text is one of a few kinds |
| `Transcript` | rows, runtime, checkpoint: write, damage, validate, load; extends `DurableMessages` | ids and kinds of content |
| `ProviderRequest` | working projection, Claude and OpenAI requests, the summary request; extends `DurableMessages` | a block is its kind, id and text class |
| `MailboxContinuity` | anchors, engagement, compensation, the dropped copy | small clocks, rounds and token counts |
| `ToolAccess` | classification and execution of direct and enclosed calls; constant definitions, used by `ToolRound` | a tool per kind of policy |
| `FeishuGateway` | receipts, chains, pictures, facts, restart, authorization | one message per chat, edited and recalled |
| `CommandTools` | what is allowed, the runner, its answer, table windows | a command is the classes of its parts |
| `Platform` | the supervisor and its children | a child is its state |
| `StateReset` | WebAdmin's reset: previews, guards, runs, restart | counts for contents, as in its fingerprint |
| `MCLedger` | composition of `AgentLedger` with `Transcript`, `ProviderRequest`, `MailboxContinuity` | |
| `MCAgentLedger` | batches and symmetry for TLC | |
| `MCDurableStores`, `MCConversation`, `MCMessageFaults`, `MCBackground`, `MCAgentCore` | compositions of components that share no state: a behaviour exercises one of them, chosen at its start; `MCAgentCore` puts the process beside the stores of `MCDurableStores` | |
| `AgentLedgerProofs`, `TranscriptProofs` | proofs about the ledger: its history; what is read out of it, the requests made of it and how long a mailbox is remembered | |
| `MailboxDeliveryProofs` | proofs about delivery | |
| `ConversationProofs` | proofs about ingress, paging, model calls and command tools | |
| `MessageProofs` | proofs about sending, media, browser, Feishu, rounds and attention | |
| `StoreProofs` | proofs about notebook, files, website, paper account and memory | |
| `BackgroundProofs` | proofs about tasks, resets, the supervisor and scheduled wakes | |
| `AgentLifecycleProofs` | proofs about the loop and the process around it | |

### State and actions

*AgentLedger.* `ledger`, `nextId`, `runtime` are the tables; `mem[c]` is Core `c`'s context and control
state, `pc[c]` what it awaits, `plan[c]` its compaction candidate. A message commit is one action per
outcome of the transaction: done (the returned entries are installed in memory), rolled
back (ids are used up, memory untouched), and done but unacknowledged. A compaction is prepare,
commit (head checked) or recompute once, then reload. `DropLock` ends the lock's session while its
Core lives. `summarized` is a history variable.

*MailboxDelivery.* `box` and `visible` separate allocation of a row id from its commit. `phase` goes
from down through one replay step per source to running. `page` holds the rows of the current poll that
are not queued yet, so that a failing row drops the rest. `staged` is the drained batch while its commit is
awaited. `disclosed` and `times` are history.

*MailboxAttention.* `Happened` is the attention state over every ledger entry, `Projected` what the
projection still shows; the properties compare the two. A round that sent something leaves `sent`
until its markers are committed or lost.

*ScheduleWakes.* `op` is the running mutation and the write it does next, so that a crash or a failed
write can come between any two. The coordinator's `queued`, the event queue, the drained batch and
the pending removal after the commit are separate variables.

*BotLoop.* `place` names the await the loop is in: `top` (between iterations), `debounce`, `commit`, `round`,
`resting`, `nudge` (the attention correction's commit), `reset` (the behavioral compaction), `waitEvent`,
`waitAttention`, `backoff`. Everything from one await to the next is one action, with the policy's
decision inside `RoundEnds`. `tried`, `prompted` and `barren` are history.

*AgentLifecycle.* `main` is what `main()` awaits, `phase` the coordinator's phase, `fallback` the shutdown
used before the coordinator exists. A `Signal` uses one or the other, as `requestShutdown` does.

*Ingress.* A `chain` per scope holds the events the gateway has pushed and not yet worked through; a worker
persists their rows one at a time, and a failed one goes to the failure log while the chain goes on. A
disconnect loses what is pushed until `Connect`, after which each group is backfilled from the history the
service keeps. A recall waits in the chain of its scope like a message.

*InboxPaging.* A page takes rows while they fit under the limit and the output cap; the cursor the next page
starts from is that of the last row shown.

*LlmCall and ToolRound.* `LlmCall` follows a request through its retries and the recoveries around it;
`ToolRound` follows the calls of one completion through partitioning into batches, the executor's stages
(hook, deferred lookup, run) and the collection of results in call order, with the effects and images they leave.

*SendMessage.* An action is checked against focus, cooldown and duplicates, then delivered with the gateway's
retries; the outcome the tool reports is kept beside what the service really did.

*MediaStore.* A row's description is asked for once per blob; a resolved text is frozen in the ledger when first shown.
The retention sweep deletes what it selected earlier unless it is referenced by then.

*TaskScheduler, BackgroundTasks, JobQueue.* A job waits in its lane, behind a resource, or shares an earlier
job's promise. A task's life is work, then a write of the registry, then a notice told to the ledger; each of
them can be cut by a restart.

*Stores.* `MemoryStore`, `WorkspaceFiles`, `CryptoPaper` and `WebsitePublish` keep what is on disk apart from what a
tool or a reviewer has read; a write compares revisions where the code does.

*BrowserPages.* The launch promise, the pages of the current browser and the pages the controller lists are separate, so that
a crash or a late listing can come between them.

*Transcript.* `rows`, `stored` and `checkpoint` are the tables. A commit parses its messages one by one and installs
the projection after the transaction; `StartCore` validates all rows together and takes the checkpoint only when it equals
the projection. While the process is down `DamageRows` and `ReplaceCheckpoint` change something. The validator is a recursive
function over the code's state; `WellFormed` is the quantified definition it is compared with.

*ProviderRequest.* `Ask` builds a request from `history` and the messages staged in the running round, `LosePicture` makes a
blob unreadable, `Reconfigure` changes the provider's route. `asked` keeps what the last request was built from, so that the next one, and a
cached compaction request, can be compared with it.

*MailboxContinuity.* `drain` is the copy that a drain edits and commits or drops; `shown` and `activeAt` are history kept beside the
code's anchors: the epoch of the last committed disclosure and the time the Agent was last active.

*ToolAccess.* `Classify` follows the classifier over raw arguments, `Found` the execution over stripped and parsed ones. `ToolRound` draws
its calls from `Offered`, so every round is one of such calls.

*FeishuGateway.* `chain[c]` holds the receipts of a chat; `nth` numbers them. An ingest step that fails is tried again or logged; `held`
is the history of what was acknowledged by a process that did not crash; an exit after a second signal leaves it, which `feishu_drain` shows.

*CommandTools.* `child`, `timer` and `taken` are the runner's; output comes in any pieces up to a bound.

*Platform and StateReset.* Both follow their code await by await: the supervisor from a child's start to its exit event, a reset run from its checks
over the fingerprint to the deletion of the rows and of each file.

Operators with "Seeded fault" in their comment are plausible bugs of the definition below them. They
are never part of a specification; each shows that a property notices the bug.

## 3. Runs

Passing runs exhaust their state space. Every one of their properties is violated by a seeded fault.

| Run | Properties | Instance |
|---|---|---|
| `agent_core` | `AlwaysLoadable`, `RememberedIsKept`, `FilesAreKept`, `PaperAccounted`, `LifecycleInv`, `LoopInv`, `ContinuityNeverRollsBack`, `EveryEntryIsInspected`, `EveryEventReachesARound`, `StopEndsLoop` | one Core after another, ids to 6; three memory entries; two topics, months and paths; two order ids; one owner edit; small prices and fees, one reset of the account; in the process two kinds of message, two directions, one correction, two rounds without progress, one fault |
| `ledger_overlap` | `ViewIsPrefixProjection`, `NothingDroppedUnsummarized`, `HistoryInv`, `RequestInv`, `ImplementsHistory` | two live Cores, lock drops, lost acknowledgements, ids to 4; rows to 4, one repeated call id, one changed row or checkpoint; requests of five messages and two calls; a group and a private mailbox over two time units, two rounds and one compaction |
| `conversation` | `CursorPassesOnlyDisclosed`, `FactsFollowEvents`, `CursorCoversShown`, `RecoveryIsBounded`, `CommandInv`, `EveryMessageDisclosed`, `EveryGroupMessageStored`, `EveryCallIsAnswered` | three rows, two ingress faults, backfill of two, two retries and continuations, pages of two under a cap of five ; one command at a time, five characters of output over a cap of two |
| `message_faults` | `DeliveryInv`, `AttentionInv`, `SendInv`, `MediaIsStable`, `RoundInv`, `PagesAreTracked`, `FeishuInv`, `DisclosedInOrder` | three rows, two delivery faults, two sends, two media, two tool calls, three pages in two browsers ; 20 ways to call a tool, two Feishu chats with three receipts, a restart and a change of configuration |
| `background` | `NoWakeLost`, `WakeCommittedOnce`, `SchedulerInv`, `BackgroundInv`, `OperationsInv`, `EveryScheduleWakes`, `EveryTaskIsTold`, `EveryWaiterAnswered` | two schedules with a limit of two, three faults, two lanes, three jobs and tasks, two queued jobs, one restart, one failed write ; two reset runs of two WebAdmin processes, two sidecars |
| `delivery_requeue` | `FailedCommitLosesNothing` — violated | see section 6 |
| `attention_durable` | `PendingIsDurable` — violated | see section 6 |
| `schedule_cancel` | `CancelledNeverWakes` — violated | see section 6 |
| `rest_stop` | `StopEndsRest` — violated | see section 6 |
| `early_signal` | `EveryDisconnectIsLast` — violated | see section 6 |
| `send_once` | `DeliveredOncePerAction` — violated | see section 6 |
| `feishu_drain` | `ReceivedIsKept` — violated | see section 6 |

Several properties are conjunctions: `DeliveryInv` (`TypeOK`, `DisclosedAtMostOnce`), `AttentionInv` (`AttentionTypeOK`, `AnsweredStaysAnswered`,
`HandledWasDisclosed`, `FirstCompactionKeepsAttention`), `SendInv` (`SendTypeOK`, `OnlyUnknownIsOpen`, `AmbientSpacing`), `RoundInv` (`RoundTypeOK`,
`ExclusiveCallsRunAlone`, `ActingCallsRunAlone`, `RoundReportsWhatItDid`), `MediaIsStable` (`ShownTextStays`, `DescribedOnce`,
`UsedMediaIsKept`), `FeishuInv` (`OneSignalDrains`, `RowsFollowReceipt`, `RecallFindsMessage`, `ListedIsAuthorized`), `CommandInv`
(`OrdersAreSimulated`, `PathsStayInside`, `CutsAreTold`, `SuccessIsReal`, `WindowsCoverTable`), `EveryCallIsAnswered`
(`EveryRoundIsAnswered`, `EveryCommandIsAnswered`), `BackgroundInv` (`SlotsAreHeldByWork`, `NoticesAreTrue`), `OperationsInv` (`ResetInv`:
`RunsTakeTurns`, `OnlyConfirmedIsRemoved`, `SuccessIsWhole`, `RemovalIsRecorded`, `CursorSurvives`, `InterruptedIsTold`; `PlatformInv`:
`NothingStartsLate`, `NoServiceLeft`, the Core only beside healthy sidecars), `FilesAreKept` (`WorkspaceKept`: `NotebookShowsLatest`,
`NothingUnreadIsLost`; `SiteIsKept`), `PaperAccounted` (`AccountIsItsOrders`, `SelfOrdersAreSmall`), `HistoryInv` (`TranscriptInv`: `ValidatorIsExact`,
`BoundaryCutsNoGroup`, `WrittenCanBeRead`, `ContextIsSound`; `ContinuityInv`: `EngagedAsLongAsLeased`, `ForgottenIsCompensated`, `AnchorsAreComparable`),
`RequestInv` (`RequestsAreSound`, `CacheIsReused`, `ThinkingStaysWithItsCalls`), `LoopInv`
(`WaitsLeaveNothing`: `StopWakesEveryWait`, `PendingNeverParks`; `DiscoveryRunsItsCourse`: `DiscoveryIsPrompted`,
`ResetTriedEveryDirection`, `BarrenToolRoundsAreFew`), `LifecycleInv` (`TypeOK`, `DisconnectIsLast`).

### What they show

*Ledger.* Whatever was committed can be loaded again, and a Core alone never loses continuity it committed.
Under overlap and lost acknowledgements the history is still linear, the compaction chain and every boundary
remain loadable, and a message leaves the projection only through a summary it was input to. Runtime-only
commits do not move the head; with two live Cores a newer continuity may be overwritten, which is why
`ContinuityNeverRollsBack` is asked of `agent_core` only.

*Stores.* A remembered fact stays in the file until it is corrected, merged or superseded, although the
reviewer decides over a snapshot; every entry is eventually inspected. The notebook shows the latest checkpoint of each topic over month boundaries,
and a file is overwritten only by somebody who has read its content. Cash and positions are the sum of
the filled orders, a retried order id fills once. What the owner wrote into the website's tree is never committed or lost by the
Agent's publication.

*Conversation.* A group message pushed, recalled and backfilled around disconnects ends in one row, in order; a
row stored while the process is down, replaying or between two polls is disclosed, once and in order; a page
never moves its cursor past a row it cut off; the recoveries of a model call are bounded together and the round
ends in an answer or an error.

*Message faults.* Rows that become visible behind the watcher's cursor, and failed commits, never cause a
duplicate or a disorder (they may cause an omission: sections 6 and 7). An answered mailbox stays answered, a
marker is never ahead of the disclosure. What a send reports is never stronger than what happened, and ambient messages keep
their distance. Shown media texts stay, a blob is described once, referenced media survive the sweep. Every
call gets its result, in order, and side effects never overlap. Every open page is one the controller lists.

*Background.* Between any two writes a wake is an active job, a pending delivery, cancelled or in the ledger;
whatever is retried, requeued, replayed or unacknowledged, the ledger gets it at most once. A slot of a lane is
held by work that really runs, a resource by one job, a deduplicated job runs once. A finished task is told
what happened to it, and a waiter of the job queue is answered while the queue is not stopped.

*Loop and process.* The wake of `stop()` is never lost by a wait between rounds; a private message
disclosed many rounds or one failed round ago still keeps the loop from parking; a discovery's rounds
run only with its prompt in the ledger, also after the prompt's commit failed; the context is reset only after every direction
was begun; rounds that nothing demands and that bring nothing are bounded across all the places that
reset a counter; after an orderly shutdown no loop runs or will run.

*Ledger as a transcript.* The one-pass validator is exact; a boundary the code accepts cuts no group of calls; whatever a checkpoint
holds, what runs is the projection of the rows. The one way to committed rows that cannot be read is a tool call id used twice
(section 7). Requests built over lost pictures, staged rounds, changed routes and compactions pair calls and results, and repeat their prefix.
A mailbox compacted away, or whose drain was dropped, is told of with full context.

*Commands and operations.* A call is answered although its program floods its output or ignores SIGTERM, an order that runs is of the simulated account,
table windows cover a table once. A reset removes what was confirmed, one run at a time, and a run that removed something is on
record after any crash. The supervisor starts nothing after it began to stop and leaves nothing behind.

### Bounds, and why they are enough

- Ids to 6 (`agent_core`) allow two compactions over a batch with a tool group; ids to 4 with two
  Cores allow an append racing a candidate and its one recompute. A third Core or more entries meet no
  other comparison, and the ledger's properties are proved for all values.
- Three rows in two mailboxes, pages of two and a backlog threshold of one let a poll split over pages,
  a mailbox answer with a backlog event, and a requeue meet newer rows of the same mailbox
  (`delivery_requeue` has four).
- Two messages per scope and a backfill of two let a backfill overlap a push and a recall.
- Five attention entries hold a disclosure, its round, its marker, a compaction and one entry after it.
- Three memory entries let the reviewer merge two while a third arrives. Two months and three checkpoints let a topic's latest
  checkpoint lie in an older file than another topic's.
- Three jobs over two lanes and two resources give a runner, a waiter and a duplicate of either.
- Rows to 4 hold a round of two calls and a compaction, or a legacy compaction, a round and a second link of the chain; one change of a
  row meets every check of the loader, since each is of one row or of two neighbours. Requests of five messages hold a round of two
  calls between two texts.
- Two time units, two rounds and one compaction let each threshold of the mailbox continuity be met, exceeded and missed.
- Three receipts in two chats let a recall overtake a picture; two starts let the configured groups change.
- Five characters over a cap of two and a capture limit that cuts inside a character cover every order of the two cuts.
- Two reset runs let one wait, fail or be lost while the other deletes.
- One restart is enough for an interruption notice; what a second one loses is an observation of section 7.
- `MaxFaults` bounds crashes, failed writes, failed polls and failed or unacknowledged commits: one in the
  liveness runs of conversation and loop, two or three elsewhere, so that a fault can hit the recovery of another.
- The loop's limits are 3 corrections, 2 rounds without progress and 3 directions in the code; the run
  uses 1, 2 and 2. The properties are stated in these constants. Two of each suffice for a counter to be
  reset between two increments, which is what they could go wrong over.
- The kind `interrupt` (schedules and finished tasks) differs from `private` only in leaving nothing
  pending, and from `wake` in being disclosed; `agent_core` leaves it out for size.
- `EarlySignals` is FALSE in `agent_core`: with it the process properties fail as `early_signal` shows.
- `CHECK_DEADLOCK FALSE` everywhere: the bounds end every behaviour, and a stopped process stays stopped.

## 4. Fairness

A composed run states each component's fairness on that component's actions.

- *Ingress:* each scope's chain and each group's backfill go on, and the gateway reconnects (it does so by timer).
- *LlmCall:* a request ends, by its time-out at the latest; a back-off ends or is aborted; the round goes on.
- *MemoryStore:* whoever holds the lock of a file finishes its write (`[]<>(lockedBy # who)`), a review that was asked for
  starts, and each of its stages ends (`[]<>(review # stage)`): the model call by its time limit, the wait for the lock because the
  lock is a promise chain and serves in order, which the model does not keep. In `StoresSpec`, which the proofs are about, the
  same is said by weak fairness of the review's and the Agent's steps and strong fairness of the review's wait for the lock;
  TLC evaluates it too slowly beside the process.
- *Tasks:* each task's work ends, a fetched result settles, the loop tells a notice. A lane starts its next job by itself.
- *CommandTools:* the runner's timers fire, a child killed by SIGKILL ends, and the close event of an ended one is
  handled. A program that runs or was only told to end gets no fairness.
- *JobQueue:* the timer fires, a handler returns or throws, and each retry comes back.
- *MailboxDelivery:* an insert that got its id commits (`Publish`); the watcher's timer, the loop's drain and
  its commit go on. The supervisor does not restart a Core that exits (its exit ends the platform), so
  weak fairness of `Startup` is an assumption about whoever operates it: a crashed Core is started
  again. `MaxFaults` bounds the crashes.
- *ScheduleWakes:* time passes, timers fire, the mutation queue and the loop go on; `Startup` as above. A
  Core whose head went stale by a lost acknowledgement is excused by the property (section 7).
- *AgentLifecycle:* `main()` and the shutdown phases go on, and no await of the loop lasts for ever
  (`\A p \in Awaits : []<>(place # p)`): LLM and tool calls end or throw, rest, debounce, wake interval and
  backoff are timers. Stating it by place keeps TLC from evaluating ENABLED over all outcomes at
  every state. By the definitions each place of `Awaits` has a step out of it in every state (a timer, or an
  await that ends one way or another), so the assumption excludes no behaviour for want of a step. Signals,
  arrivals and failures get no fairness.

## 5. Proofs

Checked by TLAPS (SMT/Z3, Zenon, LS4) for every value of the constants that satisfies the named assumptions of the
modules. Each component has an inductive invariant: a lemma says it holds at the start, one that every step keeps it
(one step of the proof per action), and the theorem follows. Few properties were inductive by themselves; what had
to be added is said below, because it is why the code is right. Every safety invariant of a passing run is proved.

### Assumptions on the constants

| Assumption | What it says, and why it is so |
|---|---|
| `BatchAssumption` (AgentLedger) | a batch is closed under tool groups, as the round builds it |
| `LaneAssumption`, `KeyAssumption` (TaskScheduler) | every lane has a positive limit (`task-scheduler.ts` refuses others); no key is the absent one |
| `TaskLimitAssumption` (BackgroundTasks) | the limit of running tasks is positive |
| `CallBoundAssumption` (ToolRound) | a round's calls are ways to call a tool that the policies know |
| `SendAssumption` (SendMessage) | ambient groups are monitored ones, monitored ones are targets; a send is tried at least once |
| `MediaAssumption` (MediaStore) | the three placeholders are no descriptions |
| `FeishuAssumption` (FeishuGateway) | a chat is a group or private; an ingest is tried at least once |
| `NotebookAssumption` (WorkspaceFiles) | finitely many months, in order; a topic limit above zero |
| `SiteAssumption` (WebsitePublish) | the site's files and the owner's others differ |
| `PaperAssumption` (CryptoPaper) | prices are positive, the fee is between 0 and 100 per cent and the initial cash not negative, as `config/index.ts:135-142` parses them |
| `MemoryAssumption` (MemoryStore) | a contradicting fact is a fact |
| `PagingAssumption` (InboxPaging) | one rendered row fits under the output cap (section 7 says what happens otherwise) |
| `CommandAssumption` (CommandTools) | caps and the width of a character are positive |
| `ContinuityConstants` (MailboxContinuity) | lease and thresholds are positive; groups are mailboxes |
| `PolicyAssumption`, `LoopAssumption`, `KindsAssumption` (LoopPolicy, BotLoop) | the limits are numbers, there is a direction, and the kinds of event are those of the code |

The others (`CoreAssumption`, `IdAssumption`, `ScopeAssumption`, `MailboxAssumption`, `PlatformAssumption` and so on) only say
that a null value is none of the others, that sets of different things are disjoint, and that bounds are numbers.
TLC evaluates all of them on the runs.

### The arguments

**AgentLedger** (`AgentLedgerProofs`): `TypeCorrect`, `Inductive`, `ViewsAreProjections`, `NothingDropped`, `CanonicalStateLoads`,
`CursorsOnlyAdvance`, `LinearHistory` (the refinement of `LedgerHistory`), and, under `~LockMayDrop` and `~AckMayBeLost`,
`IdleCoresMirror` and `ContinuityOnlyAdvances`. `IndInv` adds: ids are ordered by commit and the head is the largest, a latest
compaction exists, tool groups are contiguous, *every* boundary is legal and not only the latest, no Core is ahead of the
ledger, and a candidate equals what `Prepare` computes from the prefix it was prepared at (`CandidateSound`). A commit
happens only when the expected head is the stored head; then the candidate's prefix is the whole ledger, so what it hides
is exactly what it summarized; and a Core with the stored head also has the stored cursors, so a patch based on memory
cannot move the cursor back. `AppendProject` and `CompactProject` carry most of it.

**Transcript and continuity** (`TranscriptProofs`): `HistoryStays`, that is `TranscriptStays` and `ContinuityStays`, and `ValidatorExact`.
- The validator is one pass over a state of three fields. `PassFacts` says what that state means at every position: `next`
  is the position behind the answers of the last message with calls, `expected` the ids seen. From it
  `ValidatorExact`: the pass accepts a sequence of messages, of any length, exactly when every call has its one answer directly behind it
  and no answer stands alone (`WellFormed`).
- Well-formed transcripts with disjoint ids may be joined (`JoinedIsWellFormed`), and the rest of one from a message that is no
  answer on is one. What the loop and the coordinator write are such pieces: messages of users, or a completion with its answers.
- A selection of rows that keeps everything from a boundary on is the end of all messages (`SelectionSplits`), and rows written later
  only extend it (`ActiveExtends`). With that, a commit of a piece whose ids are new leaves a ledger that the loader accepts
  (`WrittenIsAccepted`), and a compaction at a boundary the code accepts cuts no group (`BoundaryCuts`).
- `TranscriptInd` adds to the property: rows are typed and ordered, no compaction keeps from a row behind it, no call id is above the counter
  new ids come from (`RowsSound`), and a running Core has the stored head at the last row and a valid transcript in memory, also after an id was
  repeated (`OneCoreSound`). The steps are commits, load, start,
  compaction, stop, and every way the model damages rows, states and checkpoints.
- For the continuity, `ContinuityInd` says that a group's lease is its last activity plus `Lease`, in the live state and in the copy a drain stages
  (`LeasesFollow`); that a drain changes only anchors, each to one of this round and epoch (`StagedFollows`), and no round or compaction runs while it is
  staged; and that an anchor's epoch is that of the last disclosure.

**Requests** (`TranscriptProofs`): `RequestsStay`, in both wire formats and for histories of any length.
- A body is the messages' renderings one after the other (`FlattenRuns`: `FlattenSeq` ends where the run of concatenations ends), so each wire message comes
  from a message and their order is kept (`BodyIsTraced`); `Shows` says which calls and results the rendering of one message has.
- `Talk` says of a sequence of messages that the results of a message's calls stand directly behind it and nowhere else. It is kept when two are put
  one after the other, when one is cut before a message that is no result (`TalkFromOn`, `TalkUpTo`), and by the working projection, which changes only what a
  message says (`WorkingTalks`). A body of such messages is sound (`TalkMeets`).
- `RequestInd`: the history, what a round staged and what was last asked are of this kind, and a running cached summary takes over everything before a
  message of a user. The last is why a cut is never in a group.
- Where two requests have the same messages their renderings are the same, unless the thinking of one is kept for the running tool cycle (`EmitsTheSame`); so the
  steady part of the common prefix is repeated byte for byte (`PrefixIsKept`).

`BoundaryCutsNoGroup` speaks of ledgers the loader accepts. About rows that were damaged so that nothing is kept it says nothing: such a
ledger has no first message to look at.

**MailboxDelivery** (`MailboxDeliveryProofs`): `DeliveryOnce` and `DeliveryInOrder` under any faults: an event's rows are stored rows of its
mailbox up to its last, what is staged was drained in order, and the planner drops what is not past the cursor it holds.
`DeliveryLosesNothing` says that the cursor never passes an undisclosed row; it assumes that rows become visible in id order, commits
report what they did and mailboxes start with a cursor, because without that it is false (sections 6 and 7). `CoverInv`
says where an undisclosed row still is in each phase: ahead of the watcher's cursor, on the page, in the queue or staged.

**Conversation** (`ConversationProofs`):
- `FactsKeepFollowing`: `IngressInd` follows each scope's chain: only events of earlier messages wait before a message, and a message that was heard waits, is
  stored, failed or is the bot's own. A backfill works from the oldest on, so whatever is older than a message it still has to store is stored, excused or
  before it on the list; an excuse never expires (`ExcusedStays`).
- `RecoveryStaysBounded`: requests are counted by model and attempt, chats by continuations, records by chats.
- `CursorStaysBehind`: a page lies within the mailbox and begins no later than the cursor (`PageLies`); a step back from the cursor only adds context.
- `CommandsAreSound`: what was kept of the output is all of it, or `workspace_bash` marked its cut, or the bytes reached the capture limit (`TakenOK`), so an answer
  that does not tell a cut has none. `WindowIs`: a window of a table shows the rows behind its start, and the next starts where it ends.

**Messages** (`MessageProofs`): `SendIsSound`, `MediaIsSound`, `BrowserIsSound`, `FeishuIsSound`, `RoundIsSound`, `AttentionIsKept`.
- Sending: no confirmed ambient message is newer than what the windows hold (`MapsHoldLast`), and what the hook let through stays let through until its call ends
  (`LetThrough`), so the check before the send still holds when the send is confirmed; a request whose answer says "sent" arrived (`RequestsAreHonest`).
- Media: per picture, what its row, its description and its frozen text may be (`PictureOK`, `DescriptionOK`, `TextOK`); the sweep spares every sticker that was there when it listed them
  (`StickersOK`; one collected later is section 7's race).
- Feishu: receipts are numbered; what is stored or set aside of a chat came before the first task of its chain, or is the row of that very task, stored by an
  attempt that seemed to fail (`WorkedOffInOrder`). A process that drains was asked to by a signal (`DrainIsAskedFor`), so the exit that cuts a
  drain comes after signals of both kinds.
- Browser: every page that is open and not listed is one whose close failed.
- Rounds: calls before the cursor are settled, those behind the batch untouched, and a batch of several holds only parallel calls (`BatchShape`); the classifier's
  agreement with the execution (`ToolAccess`) makes these harmless.
- Attention: a marker comes behind the disclosure it answers and before none that it covers (`MarkersAnswer`, `MarkersFollow`), a compaction makes nothing up and has
  the markers of what it retells (`CompactionsRetell`, `CompactionsCover`), and the first retells or keeps every message (`FirstRetellsAll`). A second one
  need not, which is divergence 2.

**Stores** (`StoreProofs`): `FilesStayKept` (`WorkspaceStaysKept`, `SiteStaysKept`), `AccountStaysItsOrders`, `RememberedStaysKept`.
- Notebook: a rewrite writes the file of the new record first and then those with what is left of the topic (`RewriteGoesOn`), so wherever it stops the
  topic's latest record is one it was promised (`PromiseHolds`); update times of a topic differ.
- Site: the owner's other files are never in HEAD, and behind the inspection only files of the site are staged.
- Paper account: the sums over the rows are folds; a row adds its own amounts (`RowAdds`), and a reset starts a new generation.
- Memory: what becomes of one entry (`FateIsSound`), then of a whole file: the new file is the concatenation of the pieces its entries
  become (`FlatIs`, for any number of entries), each identity from one piece. `MemoryInd` adds that a reviewer's snapshot of the current version is the
  file, that a decision was valid for its snapshot and names each entry once, and that whoever holds the lock has read the file as it is.

**Background** (`BackgroundProofs`): `SchedulerIsSound`, `TasksAreSound`, `PlatformIsSound`, `ResetIsSound`, `OperationsAreSound`; `WakesKeepTypes`,
`WakesStaySound`, `NoWakeIsLost`, `NoWakeTwice`, `EveryWakeHasBody`.
- `SchedulerInv` is inductive as it stands: a finished job makes room in its lane and its resource, and `pump` fills both before it returns.
- Tasks: a task is announced only after it ended, as a success only where it is recorded as one, and once unless a write failed (`NoticesFollowRegistry`).
- Resets: for each place of a run, what it may have removed, what it confirmed and whether it may be the active one (`RunIsActive`, `RunIsConfirmed`).
- Schedules: each phase and each step of the running mutation implies something about the three files (`PhaseSound`, `OpSound`), and per
  schedule (`WakeSound`) a wake waits in memory at most once, only while the coordinator's queued set holds it, never for an active job,
  and, unless the head is stale, not when the ledger has it.

**Loop and process** (`AgentLifecycleProofs`): `LoopIsSound`, `ShutdownLeavesNoLoop`. The loop's invariant is kept under any arrival and any stop, so that the process's
proof only adds what `main()` and the coordinator know: once the coordinator passed the Agent without a time-out, the loop has
ended. A wait is entered only with nothing pending and, after a stop, with its wake
in the queue (`WaitsAreClean`); the directions given up are the last ones begun (`TriedBack`); the rounds nothing demands are counted by `barren <= stalled * (MaxCorrections + 1) + corrections`.

**From components to runs.** A composed run exercises one part of its module at a time, so a behaviour of it is a behaviour
of every part (`PartsOfTheConversation`, `PartsOfTheWay`, `PartsOfTheStores`, `PartsOfTheLedger`, `CoresOfTheLedger`): each
step is one of the part or leaves it alone. With that the parts' theorems hold of the specification the run checks:
`ConversationStaysSound`, `ConversationLosesNothing`, `MessagesStaySound`, `MessagesStayInOrder`, `StoresStaySound`,
`StoredContinuityAdvances`, `FilesStayKept`, `LedgerStaysSound`, `HistoryStays`, `RequestsStay`, `BesideStaysSound`. The task scheduler is
the one part that two share: when a behaviour exercises its lanes alone, it is no behaviour of the background tasks,
whose invariant is kept because no task works then (`LanesAlone`).

### Only model-checked

- Liveness, which the provers do not reach: `EveryEntryIsInspected`, `EveryMessageDisclosed`, `EveryGroupMessageStored`, `EveryCallIsAnswered`,
  `EveryScheduleWakes`, `EveryTaskIsTold`, `EveryWaiterAnswered`, `EveryEventReachesARound`, `StopEndsLoop`.

The runs check the strongest of the proved invariants; `TypeOK`, `IndInv`, `CursorNeverRollsBack`,
`IdleCoreMirrorsLedger` and `WakeHasBody` are proved and not repeated there.

## 6. Divergences found

Each is a run whose property states what the documentation or a test says; details and quotations are in
`PROJECT.json`.

1. `delivery_requeue` — a failed disclosure commit requeues its events behind newer rows of the same mailbox;
   the cursor planner then skips them for ever (`bot-loop-agent.ts:857`, `mailbox.ts:78`).
2. `attention_durable` — the second compaction drops the attention payload of the first, so an unanswered
   private mailbox is no longer pending (`compaction.ts:300`).
3. `schedule_cancel` — a job whose firing failed after its delivery was recorded can be cancelled and
   still wakes the Agent after the next start (`schedule-runtime.ts:295`).
4. `rest_stop` — the wake of a stop during the debounce is drained; a rest in the round that follows is not
   interrupted (`bot-loop-agent.ts:781`).
5. `early_signal` — a signal before the coordinator exists disconnects and releases the lock, and `main()`
   goes on to start the loop (`index.ts:500`).

6. `send_once` — a send whose answer was lost is sent again by the QQ sender's retry, although the docs promise
   that an unknown outcome is not retried (`napcat-sender.ts:60`).
7. `feishu_drain` — a second signal of the other kind, as Ctrl-C under the supervisor sends, makes the gateway's
   `shutdown` return at once, and the exit behind it cuts the drain the first signal started, against
   `docs/OPERATIONS.md:183` (`feishu-gateway.ts:288`).

## 7. Observations

Not stated as runs, because no document contradicts them clearly or because a run above excuses them:

- A commit that took effect but was not acknowledged leaves the Core with a stale head: the ledger stays
  correct, but every later commit of that process fails until it is restarted (`stale` in two modules).
- A row that becomes visible behind the watcher's cursor is not read by the watcher again; only the replay
  of a later start finds it, if its mailbox's cursor is behind it.
- A mailbox without a cursor is replayed from `lastWakeAt`, which another mailbox's commit may have
  moved; `conversation` therefore starts every mailbox with a cursor.
- A text-only round gets a correction whose demand resets `noProgressRounds`: text-only rounds
  alternating with tool rounds without progress are not bounded. `BarrenToolRoundsAreFew` counts only rounds
  that nothing demands.
- A rest is refused until progress, any drained event or a wait, and may be called while attention is
  pending; an elapsed rest whose round fails to commit starts no discovery.
- A shutdown phase times out after 30 s, and the phases after it run while the loop may still live.

- A recall that comes before its message was backfilled is dropped. Private messages missed while disconnected
  are never backfilled, a single message whose backfill fails is not in the failure log, and the QQ gateway's
  shutdown does not drain its chains.
- One message whose rendering alone exceeds `INBOX_OUTPUT_CAP_CHARS` would block the paging behind it.
- Tool calls whose input broke off run with `{}` (`sse-parser.ts:232`, `openai-agent/llm-client.ts:345`), where
  `docs/TOOLS.md:106` has them refused; `ToolAccess` has such calls (`CutOff`). An executor that throws leaves no outcome, and the round counts it as
  progress; an image that cannot be persisted drops the effects of its round.
- In an OpenAI request the images of a result become a user message between parallel tool results
  (`openai-agent/llm-client.ts:142`).
- A superseded fact that is remembered again stays superseded, and merging two entries with one source each
  yields a stable one despite `memory-maintenance.ts:82`.
- A crypto order id reused after a reset returns the old order as a duplicate.
- A publication whose push failed leaves its commit behind, and the next one says `nothing_to_publish`. The website's revision
  check and the rename are not atomic against the owner.
- Two concurrent browser launches are possible (`controller.ts:583`). A `close_page` whose close fails forgets a page that stays open,
  and a navigation under way there may still make it the active one (`controller.ts:266`). A prune may join a listing that
  began before it.
- The media sweep and the collection of a sticker race over the last reference.
- A registration whose persist fails leaks a running slot until the next start (`background-task-registry.ts:207`); a
  failed persist at completion tells a finished task as failed; a completed but untold task, and an interruption notice, are lost
  by a second crash.
- After the job queue's `stop()` the waiter of a delayed retry is never answered.
- The occurrence file keeps the latest 200 bodies, and at 200 pending deliveries a firing is refused and retried for ever.
- The supervisor kills its children after 10 s, while the Core's shutdown phases may take 30 s each
  (`platform.ts:158`, `index.ts:67`).

- *Repeated call ids.* The write side parses messages one by one, the read side whole transcripts. Should a provider use a tool
  call id twice, the rows are committed, installing them throws, every later commit fails, and the next start refuses
  the permanent ledger, also when the first use was compacted away long before (`agent-context.ts:91`,
  `snapshot-integrity.ts`). `WrittenCanBeRead` excuses it with `repeats = 0`.
- Under the default retention of thinking the end of each request changes in the next one, so the cache mark at the end of a request is not
  used again, although a comment expects it (`claude-code/request.ts:135`); `RequestInv` excepts that end. Thinking is dropped once an
  event is disclosed after the results. A cached compaction request sends `tool_choice` auto where the main request sends `any`.
- `invoke` with `args: null` is classified exclusive: the classifier does not strip nulls. This errs on the safe side.
- *Resets.* The state file's write at the end of one run and at the queueing of the next are not ordered. The fingerprint hashes counts, so two
  changes that cancel out within the five minutes of a preview go unnoticed. A Core may be started between the last guard
  and the deletion. A WebAdmin restarted under the same process id leaves the active run as it is. A run that
  succeeded and whose last write failed is later told as interrupted. A failed initialization is cached until restart
  (`operations.server.ts:154`).
- *Feishu.* What was acknowledged and not stored is lost in a crash.
- *Command tools.* `truncated` is not set when the capture limit, counted in bytes, cut output of wide characters. A child of the program that
  keeps its pipes keeps the call open. A file that holds the marker text makes `workspace_bash` report a cut.
- The runtime patch of a commit is parsed for its shape; the loader also checks values.

## 8. Not modelled

- The embedded NapCat mode of `index.ts` (replay dedupe, `onMessageReady`).
- Token estimates and the compaction failure backoff; rest budget minutes.
- Rendering and prompt text; configuration; the schemas of single tools beyond action, background flag and completeness;
  metrics and reports.
- Streaming details of the LLM providers: what `LlmCall` distinguishes is the kind of failure or of stop; system prompts, tool
  declarations, effort settings and cache marks of a request.
- The 200-entry caps of the schedule's occurrence and delivery files.
- Tools that are one external call or one lookup (web search, skills, directory, data terminals, image generation): a choice
  in `ToolRound`.
- Protocol clients (NapCat, Feishu SDK, Playwright, Prisma, git): modelled from their use, as outcomes.
- WebAdmin's pages and queries: they change nothing.
- Directory listings, searches and proposals of the memory; sticker choice, image uploads and the AI-tone rewriting of a sent text.
- A second signal of the same kind at the supervisor, which kills it.

`components` in `PROJECT.json` names for each partly modelled component what is left out.

## 9. Plan

1. The embedded NapCat mode, group uploads, and the caps of the schedule's files.
2. A composition of `ToolRound` with the batches of `AgentLedger`: a group committed whole refines a batch.

## Running

    tlc -workers 2 -config LedgerOverlap.cfg MCLedger.tla
    tlapm TranscriptProofs.tla

The run names, their modules and configurations are listed under `runs` in `PROJECT.json`.

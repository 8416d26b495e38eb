# A TLA+ verification of orcha-agent

orcha-agent is a terminal coding agent: one asyncio process in which a main
agent (a LangGraph graph per conversation thread) talks to its user, runs tools,
and starts background worker agents; the conversation is kept in a SQLite
ledger from which threads are seeded anew. This directory holds TLA+ models of
the parts of it that are hard to get right and hard to test, TLC configurations
that check them on small instances, and TLAPS proofs of what matters most for
every instance. All paths below are relative to `src/orcha_agent/` unless they
begin with `tests/` or are `README.md`, which is the repository's; `agents.py`
without a directory is `core/agents.py`.

Contents: [the system](#1-the-system) · [modules](#2-modules) ·
[worker runs](#3-worker-runs) · [session and ledger](#4-session-and-ledger) ·
[services](#5-services) · [terminal](#6-terminal) · [runs](#7-the-runs) ·
[proofs](#8-the-proofs) · [findings](#9-findings) ·
[observations](#10-observations) · [what is not modelled](#11-what-is-not-modelled) ·
[plan](#12-plan)

## 1. The system

Everything runs on one asyncio loop. Code between two suspension points is
atomic; an awaited `bus.emit` counts as a suspension point because the handler
of a plugin or of a blocking hook may wait in it. Work in other threads
(`asyncio.to_thread`: the checkpoint saver, captures, shell commands, usage rows)
is not stopped by a cancel, and other processes share the store, the
credentials and the user's files.

| Component | State | Operations | What makes it hard | What makes it correct |
|---|---|---|---|---|
| **Worker runs** `AgentRun`, `AgentRegistry` (agents.py 235-631, 717-1500; `tui/turn.py`) | per run: status, task, turn task, inbox, request count, abort reason, completion, watchdog; in the registry: the runs and a semaphore | spawn, send, revive, cancel, detach, shutdown; the task loop, run_turn, wrap-up, parking, limits, cascades | callers, watchdogs, the run's task and its turn interleave at every await; a run's tasks follow each other | turns ≤ max_concurrency; one task in the loop; each run ends once with the first reason; an accepted text is not lost; an abort settles |
| **Session ledger** (`core/ledger.py`), **capture** (`core/capture.py`) | a tree of entries, the leaf, a cursor per thread | append, set_position (with discard), path, build_context; capture | the conversation is computed from boundaries, compactions and marks; a graph may have compacted its own history | thread and ledger describe the same conversation |
| **Session context** `AppContext` (`tui/context.py`) | thread, session row, idle compaction, model, history_model | clear, compact, branch, fork, resume, new_session, switch_model, run_turn | each moves the leaf, seeds a thread and may fail half-way | at rest the thread holds the ledger's conversation; a clear stays a clear; a failure takes back its own entries only; no provider sees another's private blocks |
| **Session store** (`core/session.py`, `persistence.py`) | sessions, threads, cursors, checkpoints; a replica | open, migrate, activate_thread, aput; connect, synchronise, close | late writes, kills, several programs, failing SDK calls | an old store opens with every conversation; a restart uses activated threads only |
| **Jobs, delivery, hub** (agents.py 97-125, 674-716, 750-983, 1398-1647; `builtin/tools_agents.py`) | job entries, undelivered results, mailboxes, waiters | persist, deliver, claim, send, wait | three claimants of a result; waiter against sender against time limit | each result once; losses announced; every waiter woken |
| **Prompt queue and submission loop** (`tui/queue.py`, `tui/runtime.py` 1352-1941) | queued prompts, steering flag, submission lock, saved copies | accept, steer, follow up, escape, interrupt, exit, switch | keys against the boundaries of a turn | no prompt lost or run twice |
| **Compactor** (`core/compaction.py`) | thresholds, blocked prefixes, a speculative summary | compaction, speculation, close | a speculation may be stale | the summary used is of the prefix it replaces |
| **Advisor** (`builtin/advisor.py`) | cursor, looks, pending advice | look, advise | time limits, fresh prompts and restarts during a look | the cursor passes nothing unheard |
| **Shell session** (`core/tools/shell.py`) | bash, lock, background jobs | run, cancel, close | deadline against completion; close against the next call | nothing is left running |
| **MCP connections** (`extensibility/mcp.py`) | session, events, per server | connect, call, reconnect, reload, exit | a reload over several awaits | one connection; it comes back |
| **Stream rules, model fallback** (`extensibility/stream_rules.py`, `builtin/rules.py`, `core/model_fallback.py`) | fired rules, reminders, retries | interrupt, inject, retry | turns that end half-way, late discovery | a silent rule has its reminder in the conversation |
| **Credentials** (`core/auth.py`, `builtin/provider_codex.py`) | tokens in a store shared by processes; logins | get_token, login, logout | late answers, two processes, one port for all logins | a login stays usable; a code is its own login's |
| **Files and memory** (`core/tools/filesystem.py`, `hashline.py`, `core/memory_store.py`) | digests, tags, revisions | read, edit, write, save, delete | somebody else writes in between | an edit changes what its author saw |
| **Plugins, hooks, configuration, usage** (`core/loader.py`, `registry.py`, `extensibility/hooks.py`, `core/config.py`, `usage_store.py`) | contributions and owners; hook processes; layers of settings; rows per request | load, dispatch, resolve, record | half-failed registrations, timeouts, trust, nested callbacks | nothing half-registered; hooks obeyed; only trusted settings; each request counted once |
| **Terminal** (`tui/`) | blocks, scrollback, pump, overlays, editor, cards | events, commits, frames, keys, pastes | back-pressure, fragments, parallel turns, events that name no row | what is shown is what was said, in order; a key reaches what it is for |
| Skills, file commands, exports, pickers, entry points | | | reading files, views | see section 11 |

How they interact: `AppContext` owns the ledger and the registry. `run_turn`
drives the graph of the main agent (and, with other arguments, of every worker);
the worker tools and the hub call the registry; the registry writes job entries
to the ledger at whatever leaf the session is at, and results to the session of
the worker; the event bus tells the compactor, the advisor, the usage plugin, the
hooks and the terminal of turns and of switches; a `branch` makes the registry
detach the runs whose entry is no longer on the path.

`PROJECT.json` lists every component with its status, and the hazards with
the line at which each bites and the properties that cover it.

## 2. Modules

Worker runs and the session:

| Module | What it is |
|---|---|
| `AgentRuns` | the worker runs and their registry |
| `Ledger` | pure operators: paths, contexts and marks of the session ledger |
| `SessionTree` | one session over that ledger: turns, clear, compact, branch, capture, seeding, crash, job entries |
| `LedgerWriters` | abstract specification of the ledger for those who write it; `SessionTree` implements it |
| `SessionSwitches` | switches of session and of model, prompts with a model of their own, restarts |

Services, none of which shares a variable with another:

| Module | What it is |
|---|---|
| `Hub` | mailboxes, waiting calls, claims of results |
| `TurnQueue` | prompts, steering, the submission loop, switches, exit |
| `Compaction` | the compactor in a model call |
| `ShellSession`, `McpConnections` | the processes a thread keeps: bash, servers |
| `TokenSource`, `Logins` | the stored credential: refreshes, logins |
| `AdvisorLooks`, `RuleInterrupts` | the advisor's looks; stream rules |
| `MemoryDocs`, `FileEdits`, `FilePages` | memory documents; hashline edits; paged reads and edits of what was read |
| `Plugins`, `Hooks`, `UsageAccounting` | the loader and the registry; hook commands; usage rows and totals |
| `Settings` | layers of settings, trust, roles |
| `Reviews` | /review: chunks and reviewers |
| `StoreOpening`, `Replica`, `Stores` | opening an old database; the replica; both |

Terminal:

| Module | What it is |
|---|---|
| `Transcript` | events, blocks, batches, scrollback, the viewport's plan |
| `TerminalOutput`, `TerminalReplies` | frames and the pump; reports among keys |
| `Approvals`, `Composer`, `AgentsScreen` | approvals and the overlay lock; the editor with its pastes; the Agent Hub and the view of a worker |
| `StatusLine` | the status line: background reads, the state that sessions exchange, the row |
| `TaskCards`, `ToolStream` | the cards of task calls; tool calls that arrive in pieces |

Instances and proofs:

| Module | What it is |
|---|---|
| `MCAgentRuns`, `MCServices`, `MCTerminal`, `MCLiveness` | instances for TLC (section 7) |
| `AgentRunsProofs`, `SessionTreeProofs` | theorems about `AgentRuns`; about `SessionTree`, with `Ledger` |
| `HubProofs`, `ConversationProofs` | theorems about `Hub`, `Reviews` and `FilePages`; about `RuleInterrupts`, `TurnQueue` and `SessionSwitches` |
| `ProcessesProofs`, `CredentialsProofs`, `TerminalProofs` | theorems about `ShellSession`, `McpConnections`, `AdvisorLooks`, `Hooks` and `Plugins`; `TokenSource`, `Logins`, `Settings` and `FileEdits`; `Approvals`, `TerminalOutput`, `AgentsScreen` and `StatusLine` |
| `StoreProofs` | theorems about `StoreOpening`, `Replica`, `Stores`, `MemoryDocs`, `UsageAccounting` and `LedgerWriters` |

In every specification an action is the code between two suspension points of
one coroutine (or thread, or process), with every call it makes; a record or a `pc` value names the place
where it is suspended. Where a definition is followed or preceded by one marked
`bug:` or "as it would be if", that one is a plausible mistake in the other; runs are expected to notice it and no action
uses it. Which lines each definition stands for is in `PROJECT.json` under "map".

## 3. Worker runs

Source: agents.py (`AgentRun`, `AgentRegistry`), the outline of
`tui/turn.py` run_turn that tells where a cancel is caught, and the two worker
tools of `builtin/tools_agents.py` that wait for children.

State. `status`, `requests`, `inbox`, `completion`, `abortReason` are fields of
`AgentRun`; `abortReq` is `_abort_requested`; `task` counts the asyncio tasks a run has been
given, `pc[r][i]` and `cancel[r][i]` are where task `i` is suspended and whether
it has a cancel pending; `turn` and `turnCancel` are the same of `_turn_task`.
`slots` is the semaphore; `timers` the watchdog tasks alive, `timerRef` the one
`_runtime_timer` names. `spawner`, `reviver` and `blocked` are the callers
suspended in `spawn`, `revive` and `wait_all`; `cascades` the abort trees
suspended between two runs; `shutdown` the one `shutdown()`. `results` counts
the `agent_result` entries, `sent` and `handled` remember texts for the properties.

| Actions | Code |
|---|---|
| `Spawn`, `SpawnReturns` | `spawn`: checks, registration, the AgentSpawned event, `start` |
| `Send`, `Revive*`, `ReviveReturns` | `send`, `revive`, with the interrupt |
| `Cancel`, `ResumeAbort`, `MainInterrupted`, `Detach`, `DetachStarts`, `ShutdownBegins`, `ShutdownNext`, `TimerFires` | everybody who asks a tree to stop, and why |
| `TaskStarts`, `TaskStillborn`, `Built`, `BuildFails`, `Acquire`, `EnterTurn`, `TurnReturns`, `BudgetExceeded`, `BudgetSettles`, `TurnRaises`, `TurnEscapes`, `Receive`, `Await`, `IdleTimeout`, `TaskCancelled`, `TaskEnds` | `_run` and `_loop`, with `LoopTop` the checks at the head of the loop and `Settle` the end |
| `TurnOpens`, `Request`, `Yield`, `TurnStops`, `TurnInterrupted` | run_turn, the model calls it counts, the yield tool, and a cancel in each of its phases |

Simplifications, all of which add behaviours or leave none out that a property
could see: the turn's end and the resumption of the run's task are one step;
within an abort tree the order is any one in which children come before their
parent; the events of the last run that a cascade settles are merged with its
end; runs that a shutdown has still to abort are taken in any order; a
free-text reason of the hub's cancel is "cancel"; `wait_all` may always give up,
because its time limit (300 s or max_runtime) always passes. The teardown of the event
loop at the end of the program, and a rebuild for another mode, are left out. A text is posted at most once.

Bounds: `MaxStarts` limits the tasks one run may be given (how often it is
revived), `Aborting` and `Branching` say whether anybody cancels or the user branches. The other
constants are configuration of the program, made small.

Fairness: weak fairness of every step of a task, a turn's phases, and of callers and
cascades that are suspended in events, since asyncio resumes whatever can go on;
strong fairness of `Acquire`, since `asyncio.Semaphore` serves its waiters in order. A turn is
assumed to end: the model and the tools have their own time limits, outside this
module. Nothing is assumed of spawning, texts, cancels, watchdogs, the idle timeout or model calls.
`CHECK_DEADLOCK FALSE` is set because a registry whose runs are all settled may rest.

## 4. Session and ledger

Source: `core/ledger.py`, `core/capture.py`, `tui/context.py`,
`core/session.py`, `tui/turn.py` (seeding and capture around a turn),
`tui/runtime.py` (start with --resume, commands beside a turn), agents.py
674-716 (`_persist_job`), and the cut of `core/compaction.py`.

State of `SessionTree`. `entries` is the ledger, an id being a place in the sequence; each entry
carries its path, since its parent never changes. `leaf` and `current` are the
session's row, `rows` the threads it has, `cursor` the capture cursors,
`graph` and `checkpoints` what the checkpoint saver holds per thread,
`thread` is `AppContext.thread_id`. `op[p]` is what each of three tasks is doing:
`fg`, the submission in hand; `side`, a command dispatched beside it; `idle`, the
compaction that runs when the user is idle; `known` says whether the context
still has a reference to that task. `job` is where each worker's last job entry
is. A message is an id and a role (text, call, tool answer, or a summary with
the set of ids it covers), which is all that the properties tell apart.

| Actions | Code |
|---|---|
| `Clear`, `Branch`, `Compact`, `Summarise`, `Summarised`, `CommandEnds` | the commands of `AppContext`; `Move` is the part they share |
| `SeedReads`, `SeedWrites`, `SeedActivates`, `SeedFails` | `_seed_ready_thread`: reading the checkpoint, the write in a thread, `activate_thread`, and failing or being cancelled in each, with `Rollback` and the write that lands late |
| `Announce`, `Stops` | events, and cancels where there is nothing to restore |
| `StartTurn`, `TurnOpens`, `TurnSpeaks`, `TurnCondenses`, `TurnStops`, `TurnCaptures`, `TurnEnds` | a turn: a pending seeding, the stream, in-graph compaction, capture, and the idle compaction the end of a turn leaves waiting |
| `PersistJob` | `_persist_job` of a background run, whenever the tasks await |
| `Restart` | a crash anywhere and a start with `--resume` |

Two modes. With `Overlaps` FALSE operations of the session come one after another
(a command waits for the submission lock, an idle compaction is not awake while
another operation goes on); job entries, failures, late writes and crashes still
interleave with everything. With `Overlaps` TRUE a command may be given beside
a streaming turn and the idle compaction goes on beside both, as
`tui/runtime.py` 1426-1459 and `context.py` 944-951 allow.

Simplifications: entries that are neither messages, boundaries, compactions nor
jobs (turn state, model and mode changes, titles) are left out; an AI message
calls one tool; `capture` is one step although the code reads and
appends in two transactions; the message update with which a compaction stores the tail
it keeps is merged with its capture; one idle task at a time; the id of a
discarded entry may be used again, where the code draws random ids; a session
that is resumed has no tool call waiting for an approval.

Bounds: `MaxMessages`, `MaxEntries`, `MaxSubmissions`, `MaxCrashes`. No fairness is assumed and no liveness is
stated: every property is of safety. `CHECK_DEADLOCK FALSE` is set because the bounds
stop the session.

What the tree promises to its writers does not depend on what the entries say. `LedgerWriters`
states it: entries are appended under the leaf (`Captures`, `Begins`), the session
goes to another entry (`Branches`), an operation ends or takes its entries back (`Ends`,
`TakesBack`), a run appends its state or leaves (`Persists`, `Leaves`), everything
starts again (`Restarts`). `SessionTree` maps its variables to these in `Writers`: an entry to the run it
is of and the set of entries above it, a task that is seeding for a command to an open batch. `WritersImplemented`
says that every step of the session is then one of these or a
stutter; TLC checks it with `Overlaps`, `SessionIsOfWriters` proves it, and the abstract module's `JobsOnTheirBranch` and
`OthersEntriesStay` hold by its theorems and so, through the same mapping, of the session.

`ThreadMirrorsPath`, `NothingLost` and `ClearedStaysCleared` speak of the session at rest (`Quiet`);
in between, seeding rightly leaves the two sides different. All three hold for
operations in sequence, of the last two `NothingIsLost` and `ClearedIsGone` prove it for all bounds, and none does with `Overlaps`: `ClearedStaysCleared` is reported
as a finding, the other two come of a slash command that moves `thread_id` while a turn streams
(runtime.py:1441).

`SessionSwitches` takes up what `SessionTree` leaves aside: several sessions, and models of several
providers. `rec` are the rows of the sessions, `graph` the checkpoints, `cursor` what of them is captured, `ctx` the
`AppContext`, `op` the command under way with what it would restore. Prompts (`AnyPrompt`, `PromptBuilt`, `OwnBuilt`,
`ModelAnswers`, `TurnEnds`), `/model`, `/new`, `/fork`, `/resume`, rebuilds, a start with `--resume` and one without are
actions, each cut at its awaits, each with its failure (`BuildFails`, `ModelFails`, `SeedFails`, `ResumeFails`,
`SwitchUnheard`). A message is told apart by the provider that said it and whether a private block is in it. With
`Accidents` FALSE the combinations are left out after which the code is known to leave foreign blocks (section 10):
crashes within a fork or within a prompt that has a model of its own, resumes with an override, and commands given
while `history_model` names another provider. Properties: `HistoryReady` (a turn begins with the conversation, and nothing of it private to
another provider), `SwitchUndone` (an action property: a failed switch restores context and store, or has activated its thread).
## 5. Services

Each module of this section is a component that shares no state with another, checked as one part of the run
`services` (section 7). "Bounds" says what its small instance has, and what makes it enough.

**Hub** (agents.py 109-125, 790-944, 1398-1647; tools_agents.py 383-481). A call of the hub tool is a coroutine: `Send`,
`Waits`, then `Looks` whenever it is notified, `ClaimsAll`, `Announced`, and the ways out `WaitTimesOut` and
`CallCancelled`; `Inbox` drains a mailbox, `RecordYield` and `RunEnds` are what a run tells, `HubRestarts` a crash after
which each result is recorded in the run's ledger, the parent's, or both. `_notify` never suspends, so a
change and its notification are one step. `DropsAnnounced`: a mailbox stays within its limit, and an agent that lost messages finds exactly
one warning. `WaitersServed`: nobody sleeps over a condition that holds, and the counts of waiters are those of the calls.
`EachResultOnce`: a result is claimed once and can be until then. Together `HubSound`. Bounds: the user and one
peer, two calls at a time, a mailbox of 2 for 128 and four posts, so that it overflows twice; one yield, one restart.

**TurnQueue** (queue.py 54-152, runtime.py 1352-1416, 1426-1602, 1856-1941, turn.py 459-602, context.py 641-666). `queue`,
`line` (prompts that wait for the submission lock), `loop` (the `_submit_serially` that has it), `phase` (where its turn is), `draft`, `saved`
(the composer state of each session) and `beside` (a switch given beside a turn). `LoopSteps`, `TurnSteps`, `SwitchSteps`,
`ToolBoundary`, `Keys` (enter, follow-up, escape, interrupt, dequeue, clear, exit), `ComesBack` and `ResultArrives` are its groups of
actions. `PromptsAccounted`: a prompt is in one place. `QueueDrains` (liveness): a queued prompt does not stay queued.
Bounds: three prompts of which two may be commands that switch the session, one result, one exit. Fairness
(`QueueFairness`): weak fairness of the coroutines' steps (`LoopSteps`, `TurnSteps`, `SwitchSteps`); nothing of the user.

**Compaction** (compaction.py 60-485). A model call goes from `Speaks`/`Calls`/`Answers` over the threshold, `Compacts`, `CompactionFails`,
`SpeculationUsed`, `SpeculationEnds`, `Overflows` (the provider refuses, once more after a compaction) to the commit. `SummaryFits` (action property): what is kept stands for everything that was said, each message once, in order.
`CutsSound`: no cut between a call and its answer, and a futile attempt is not repeated. Bounds: sizes of at most 2, a threshold of 4 and a kept tail of 2,
five messages, three summaries: a summary of a summary, and a speculation that has gone stale.

**ShellSession** (shell.py 134-396). Calls run in threads; each takes the `RLock`, starts bash if need be, writes a script and polls for three
files that the script leaves. `ScriptStep` and `ShellExits` are bash's, `CloseBegins`, `CloseKills`, `CloseEnds` those of `close`, which
touches the process before it has the lock. A start may fail, and `Collect` may end before, between (`Tears`) and after the
assignments of the directory and of the variables. `NothingLeftRunning` lets the two differ only after such a torn reading (section 10). Bounds: three calls, one in the shell, one in line, one after a restart.

**McpConnections** (mcp.py 270-521, builtin/mcp.py 28-225). One object `conn[n]` for each load of the configuration. `LoopStep` is the loop
that connects, publishes, waits, pings and starts again; calls begin on the connection in use and may end on one that is
gone; `ReloadBegins`/`Reloads` and `AppExits`/`Exits` close loops over several awaits. `OneConnection`; `Reconnects` (liveness). Bounds:
two loads, one outage, one call. Fairness (`McpFairness`): of each loop, of a reload and of the exit; nothing of the server or of calls.

**TokenSource** (auth.py 40-147, 475-565, provider_codex.py 331-390). Askers are threads of processes; those of one process share a lock.
`ServerGrants` may rotate the refresh token and may lose its answer; `Stores` is compare-and-set, `Rereads` what the loser does; `Dies` ends a process anywhere. `LoginKept`. Bounds: two threads
of one process and one of another, two logins, one death, three access tokens.

**Logins** (auth.py OAuthPKCEFlow, OAuthDeviceFlow, provider_codex.py, the login commands). A command and a thread for each login; all share the port (`port`,
`backlog`, `serving`) and the stored credential. Browsers ask (`BrowserAsks`), a server accepts and handles requests, codes are pasted or exchanged, a device login polls with `poll`.
`CodesAreOwn`, `PollsSpaced`, `LeavesNothing`; together `LoginsSound`. Bounds: two logins (one that listens or pastes, one that listens or polls), two requests,
interval 1, back-off 1, time limit 4: a complaint and the last, shorter wait.

**AdvisorLooks** (advisor.py 177-466). `LookBegins` to `TakesAdvice`, with the run it revives, replaces or spawns, its time limit, a fresh prompt that
cancels it, and close. `NothingSkipped`: everything up to the cursor was in prompts whose advice a look has taken, but for two named exceptions. Bounds: three turns, one reset.

**RuleInterrupts** (stream_rules.py, rules.py 177-330, builtin/rules.py 64-165, model_fallback.py). Any chunk may meet any rule; an interrupted attempt
is asked again with the reminder (`AsksAgain`), a fallback begins anew, a turn may be cut off, the conversation may shrink, and discovery may end late. `RulesSpeakOnce`. Bounds: two rules, two turns, every repeat policy with gaps 0
and 1, one failure, one forgetting.

**MemoryDocs** (memory_store.py, builtin/memory.py). Two editors of different processes read, save and delete documents at addresses of three reaches; every write has a new stamp.
`EditsBuildOnLatest`, `ClosestWins`. Bounds: four writes: save, delete, save again, and a stale editor.

**FileEdits** (hashline.py). `Read` remembers a snapshot under a tag and what was shown, `Edit` checks and remaps, `Write` writes, somebody else writes in between. The 16-bit tag has two values and the cache one place, so that
collisions and evictions happen. `EditsHitWhatWasShown`. Bounds: files of at most two lines of two kinds, two changes.

**FilePages** (filesystem.py). A read goes over the file twice (`FirstPass`, `SecondPass`) while others replace it or write into it; a long answer is cut and points at what it
left out; an edit needs what was read (`EditChecks`, `EditWrites`). A line is its number of characters and width. `HintsLeadEverywhere`: who follows every hint gets every byte. `KnownWasShown`: what
may be edited is what was shown. Bounds: four lines of three kinds; a page of 3 for 200, head and tail of 1 for 60 and 25, 6 bytes for 20000, so that pages, elisions and long lines all occur; files of at
most one line are also changed, twice.

**Plugins** (loader.py 255-490, registry.py, plugin.py). `Order` and `PassOver` place candidates by their requirements, `BeginRegister`, `Contribute`, `Subscribe`,
`WriteState`, `Loads` and `Fails` are a register that raises anywhere, `AddTool`/`RemoveTool` what a plugin does later. `RegistryIsOfTheLoaded`, `SkippedForCause`. Bounds: three candidates with up to two requirements, sound, broken or
disabled; or two that make three contributions and two later changes.

**Hooks** (hooks.py, builtin/hooks.py). Blocking hooks before and after a call, those in the background, the hooks of the program's end, and compactions
found by comparing states. `ToolsObeyHooks`, `HooksJoined`, `CompactionsAnnounced`. Bounds: two calls of which one writes, lists of three or four hooks, two compactions, one crash while announcing.

**UsageAccounting** (usage_store.py, builtin/usage.py). A request is reported by its own callback and by inherited ones, each in a thread; the plugin reads totals in a thread upon
events, while the user moves between sessions. `CountedOnce`, `LoneRefreshCatchesUp`. Bounds: two requests, two reporters, two sessions, one move, one other event.

**Settings** (config.py, models.py, context.py). Defaults, the user's file, a project's, the environment and the command line; `StartProgram`, `MoveToSession`,
`ChooseModel`. `OnlyTheTrusted`, `ChoiceKept`, `RolesResolve`. Bounds: three directories, two user files, four projects, four environments, six command lines, two starts, one choice or move.

**Reviews** (commands_review.py). The partition of the diff (`PlaceHunk`, `Fill`), reviewers that are refused, start, end, stop, two waits, cancellation, delivery. `HunksShared`,
`ReviewersAccounted`. Bounds: at most four hunks in two directories, limits 1, 3, 5 for 100, 500, 2000, two reviewers.

**StoreOpening** (session.py). Programs that share a file check, connect, migrate in one transaction (`copy`), use and close it, and may be killed; a program of the old version
may still write. `OldConversationsKept`, `RefusedUntouched`. **Replica** (persistence.py): connect, pull, initialise, synchronise, close, with failing calls.
`NoRivalSchema`, `LeavesInOrder`. `Stores` puts the two side by side. Bounds: two programs, two old sessions (none, broken or up to two messages), two turns, one kill; two local
and two remote writes, two refusals.

`CHECK_DEADLOCK FALSE` is set in the sums because most parts may rest and the bounds stop the others.

## 6. Terminal

Checked as parts of the run `terminal`.

**Transcript** (transcript.py, frame.py, runtime.py 1388-1400, 2224-2327). Events open, extend and settle blocks; a timer or a commit takes settled blocks into `batches`, which are written above the viewport;
clearing, rebinding and retiring of panels overlap with that. `ScrollbackInOrder`, `EventsAccepted`, `ViewportFits`. Bounds: four blocks, one call, two turns, one clear or rebind, heights 3 and 5, one source
(with two, see the finding `workers`) and no back-pressure (with it the order fails, section 10). Left out: the welcome banner, retries, details of workers.

**TerminalOutput** (runtime.py 113-178, 251-417, 2287-2301). Frames, the pump's thread, the probe of synchronized output, commits given up, the end. `TransactionsWhole`,
`PaintsRecovered`. Thresholds of bytes count as one write, the watchdog's four samples as one. **TerminalReplies** (181-248): reports in fragments among keys and pastes; `FragmentsDoNotMatter`, for
up to three codes of two to four symbols.

**Approvals** (approval_prompt.py, turn.py, overlays/base.py, runtime.py). Two turns whose interrupts ask about one or two actions, one picker, the overlay lock, cancels, failing factories, moves, shutdown. `NothingUnapproved`, `OneOverlay`.

**Composer** (composer.py, runtime.py, history.py). Pastes as chips, undo, clear and recall, submission, history, external editor. `ChipsWhole`, `OnlyTextIsSent`. Bounds: two pastes, two edits, seven symbols; `Straddling` FALSE
leaves out edits whose extent the code infers wrongly (section 10).

**AgentsScreen** (overlays/hub.py, runtime.py 937-1034, 1177-1200). The hub asks for its rows anew at each key; the selection is looked up again upon events, at most four times a second; actions begin when the loop comes to
them, and reach the registry (`Asked`), where a parked worker ends or wakes at once. The view of a worker is rebuilt from its ledger (`kept`) and from what it has said that is not yet in the scrollback (`written`), under the same throttle, by a forced rebuild, by a task that sleeps, or after a prompt (`PromptGoes`, `PromptReturns`). `SelectionIsKept`, `ActionsHitTheSelected`, `ViewIsOfItsWorker`. Bounds: three workers, so that one can be inserted
between two in the tree, three news (spawns and outputs) of workers, three keys, one worker that is left behind; one action at a time.

**StatusLine** (statusline.py, builtin/statusbar.py, context.py, session.py). A paint starts reads of git, of gh and of the session's title (`Evaluated`, `Started`); their threads end whenever they do (`ReadAnswers`, `ReadEnds`), while
`/resume`, `/fork`, `/new`, their failures and restarts save, copy, clear and restore the plugin's state (`Saved` forgets git's scope, a pair that JSON turns into a list), and turns, thread switches and `/status` reset parts of it.
`StatusOfPlace`, `TitleIsCurrent`, `RefreshIsUnderWay`, `TokensOfThread`; and `RowFits` of the row that `Rendered` fits into the columns, for every set of segments that have something to show. Bounds: two sessions in one or two directories,
two reads, two moves, one turn or change of the world, one chunk, one segment with background reads at a time (their states are disjoint); widths 9, 30, 60 and 100 for three layouts, on both sides of every cut. Left out: what the other segments say, colours.

**TaskCards** (transcript.py). Rows find their runs by run, name, position or guess; a closed card is released to the scrollback and forgotten (`ReleaseCard`), after which a late
event of its run finds no card. `RowsAreItems`, `CardsClose`, whose comment names three cases it leaves out; so is Ctrl+L. Bounds: one call of at most two items, two runs, one run of no call. **ToolStream** (turn.py): pieces of calls of
two agents, interrupted responses, repeated results, differences of edits. `CardPerCall`, `DiffsCoverEdits`. Bounds: three calls, two per response, a chunk for the name and one piece, one interruption.

## 7. The runs

`MCServices`, `MCTerminal`, `MCLiveness` and `MCAgentRuns` are sums, not products: a behaviour begins by choosing a part (or
scenario) and is then one of that part's specification, while the others rest in one initial state (`Resting`). The components
share no variable, so nothing is lost by it. The bundles `HubSound`, `EditsSound`, `ExtensionsSound`, `ReviewsSound`, `SettingsSound`, `StoresSound`, `LoginsSound`,
`ScreenSound`, `InputSound` and `CardsSound` are conjunctions of properties that are named and explained in their modules.

| Run | Instance | Shows |
|---|---|---|
| `one` | two scenarios: one run given two tasks, three texts and an inbox of two, with everything that can happen to it; and a run with the run it spawns and one permit, with cancels and deadlines' reasons but no text or revival | `TypeOK` `TurnsBounded` `BudgetDescends` `OneLoop` `ResultOnce` `ReasonFirst` `DeadlineArmed` `NoSilentLoss` `FinalStays` `NoTurnAfterEnd`. Two tasks are enough for a parking task and its successor to overlap, which is where the shared fields are at stake; three texts overflow an inbox of two (the code's limit is 128); two runs and one permit are the smallest instance in which runs compete, block on each other and end by cascade |
| `liveness` | `MCLiveness`: one run with all that can happen to it ("single"), two runs left to themselves ("pair"), the prompt queue, an MCP connection | `AbortSettles` `QueueServed` `QueueDrains` `Reconnects`. "pair" is without aborts, because an abort would be another way out |
| `session` | operations in sequence, three messages, five entries, three submissions, one crash, one worker | `ThreadMirrorsPath` `NothingLost` `ClearedStaysCleared`. Three submissions are a turn, an operation that may fail, and one that goes on from what it left; three messages are a question, a call, and its answer |
| `overlap` | operations beside each other, two messages, five entries, two submissions, one crash, one worker | `WritersImplemented`. Two submissions are one in hand and one beside it, with the idle compaction that a turn left; five entries let each append one, and a worker in between |
| `services` | `MCServices`: section 5, twenty parts | the properties of section 5 |
| `terminal` | `MCTerminal`: section 6, nine parts | the properties of section 6 |
| `stillborn` `steer` `idle_clear` `rollback` `private_history` `workers` | | the findings below: one property each, violated |

Each property of a passing run has a mutant in `PROJECT.json`: a definition of the model
replaced by the form a plausible mistake in the code would give it, for
which TLC finds the property violated.

Fairness is stated for the parts of `liveness` only, and only for steps of coroutines that asyncio resumes by itself
(sections 3 and 5). The user, the model, servers, failures and crashes are never obliged to do anything.

## 8. The proofs

The theorems hold for every value of the constants, bounds included: any number of runs, calls, prompts, programs and steps.

| Module | Theorem | States |
|---|---|---|
| `AgentRunsProofs` | `Invariance`, `TypeCorrect` | types and `Inductive` |
| | `TurnsAreBounded`, `LoopIsOne`, `OneResult`, `FirstReason` | `TurnsBounded`, `OneLoop`, `ResultOnce`, `ReasonFirst` |
| | `EndIsFinal`, `NoLateTurn` | the action properties `FinalStays`, `NoTurnAfterEnd` |
| | `DeadlineStaysArmed`, `TextsAreKept`, `BudgetReachesAll` | `DeadlineArmed`, `NoSilentLoss`, `BudgetDescends` |
| `SessionTreeProofs` | `SessionIsOfWriters` | `WritersImplemented` |
| | `NothingIsLost`, `ClearedIsGone` | `NothingLost`, `ClearedStaysCleared`, where tasks do not overlap |
| `HubProofs` | `HubIsSound`, `ReviewersAreAccounted` | `HubSound`, `ReviewersAccounted` |
| | `ReadsShowWhatTheyLeave` | `KnownWasShown` (of `PagesSound`, in `EditsSound`) |
| `ConversationProofs` | `RulesSpeak`, `PromptsAreAccounted` | `RulesSpeakOnce`, `PromptsAccounted` |
| | `FailedSwitchesAreUndone` | the action property `SwitchUndone` |
| | `HistoryIsReady` | `HistoryReady` |
| `ProcessesProofs` | `ShellLeavesNothing`, `ServerHasOneConnection` | `NothingLeftRunning`, `OneConnection` |
| | `AdvisorMissesNothing`, `HooksAreObeyed` | `NothingSkipped`, `HooksSound` |
| | `RegistryStaysOwn`, `SkipsHaveCause` | `RegistryIsOfTheLoaded`, `SkippedForCause` |
| `CredentialsProofs` | `LoginIsKept`, `LoginsAreOwn` | `LoginKept`, `LoginsSound` |
| | `SettingsAreTheUsers` | `OnlyTheTrusted`, `ChoiceKept` (of `SettingsSound`) |
| | `EditsHitTheShown` | `EditsHitWhatWasShown` (of `EditsSound`) |
| `StoreProofs` | `OldStoreOpens`, `ReplicaLeavesInOrder`, `StoresKeepPromises` | `StoreOpensSound`, `ReplicaSound`, `StoresSound` |
| | `MemoriesAreNotClobbered` | `EditsBuildOnLatest` |
| | `RequestsCountOnce`, `LoneRefreshTells` | `RowsAreOwn` (of `CountedOnce`), `LoneRefreshCatchesUp` |
| | `LedgerInvariance`, `JobsStayOnBranch`, `OnlyOwnTakenBack` | `Inductive`, `JobsOnTheirBranch`, `OthersEntriesStay` |
| `TerminalProofs` | `ApprovalsFailClosed`, `FramesAreWhole` | `ApprovalsSound` (of `InputSound`), `OutputSound` (of `ScreenSound`) |
| | `HubHitsTheSelected` | `AgentsSound` (of `InputSound`) |
| | `StatusIsOfTheSession` | `StatusOfPlace`, `RefreshIsUnderWay`, `TokensOfThread` (of `StatusSound`, in `ScreenSound`) |

Assumptions, all on constants. `AgentRuns`: `RunsAssumption` (the runs are finitely many; `Main` and `Nobody` are
not runs), `LimitsAssumption` (limits are positive, an inbox holds at least two), `TextsAssumption` (texts differ from the loop's own words). `BoundsAssumption` (the bounds of `SessionTree` are natural numbers, its switches are Boolean, and no worker has the name for "of no worker").
`HubAssumption` (finitely many calls, the user and "system" are no peers, a mailbox holds at least two messages), `RuleAssumption` (finitely many rules),
`QueueAssumption`, `McpBounds`, `TokenBounds`, `ApprovalAssumption`, `OutputAssumption` (bounds are natural numbers, the picker is no turn, the thresholds are in order),
`NobodyIsNoCall`, `NoOpenerAssumption` (the value for nobody is none of the actors), `IntervalAssumption` (times are natural numbers, the polling interval positive),
`SwitchAssumption` (there is room for one session, there is a provider, and "no model" is none), `OldStatesAssumption` (an old session is unreadable, never used, or has a number of messages),
`HooksAssumption` and `PluginsAssumption` (lists of hooks and of candidates are finite sequences of such records; the value for "nobody has the claim"
is no plugin's name), `AgentsAssumption`, `StatusAssumption`, `SettingsAssumption` (bounds are natural numbers, the values for nothing are no session, directory or model, files and environments have the form of their reader's), `DiffsAssumption` (a diff has finitely many hunks),
`FileAssumption` (bounds are natural numbers; a file may have a line, the cache a snapshot), `PagesAssumption` (bounds are natural numbers; a page, a head and a tail have at least a line) and `UseSessionAssumption`. `LoneRefreshTells` has a premise, `NothingSpent`: the sum over no rows is 0,
which the prover cannot compute. Each says what the code's configuration checks or what a
distinguished value means; TLC evaluates them in the runs.

None of the properties is inductive by itself. The arguments:

*Worker runs.* That turns are bounded needs that every permit is in the semaphore or
held by exactly one run (`PermitsKept`), which needs that a permit's holder is
one task of the run. That only one task is in the loop (`TaskOwned`) needs that nobody is
about to start another: a caller suspended in `spawn` or `revive` excludes
a task in the loop and another such caller (`StartPending`), a parked run has no
task in the loop although its old task may still be alive. That a settled run stays settled needs that a run beyond the loop's first check
is not terminal, and that a cancel that escapes
into `_run`'s handlers was asked for by an abort (`CancelCaused`) - and a cancel that hits a
former task of the run finds the new one before its first check, so that
it will see the abort. The proof has one lemma per action
(or group of actions that change the same variables), and lemmas on `Abort`,
`Settle` and `LoopTop`, through which most of the actions go.
`DeadlineStaysArmed` counts: the end of a task cancels at most one watchdog, whichever `_runtime_timer` names by then, so there
are never fewer watchdogs than tasks that began and have not ended. `TextsAreKept`: a text leaves `_loop`'s message only by a turn, and putting into a full
inbox keeps it or leaves a warning. `BudgetReachesAll`: the children of a run over its budget stay in that run's cascade until
they are doomed, and it gets no new child while it waits for them.

*Ledger.* The way to an entry contains the way to each entry on it (`Rooted`), so the first entry of a run is on the way
to every entry below a later one; the entries that unfinished operations would take back are disjoint and of no run
(`Disjoint`), so when one takes back the end of the tree the others' are further up, and no
run loses the entry it remembers (`JobsSound`).

*Session.* A step of the session is one of `LedgerWriters` when what an operation takes back is still its own: `OpSound` says that the leaf it would go back to is
older than its entries, `TreeGrows` that what a capture or a command appends are entries without a run below the leaf, `PathsAscend` that ids on a way ascend, so that
discarding the end of the tree takes nothing away from a way that stays. That a task may always append needs room (`Room`): each operation that may still seed a thread has a
number left for it (`Weight`), and that the session's thread and the one an operation goes back to have rows (`Seated`). What the entries say is a fold over sequences
(`Context`, `CaptureEntries`); this theorem needs its type only, which lemmas show by a least length at which it would fail (`LeastOfThem`).
`NothingIsLost` and `ClearedIsGone` need what it tells (`ToldBy`, `ContextTells`, `CaptureTells`) and the premise `~Overlaps`, under which the run `session` checks the two and without which they are false
(`overlap`, section 10). It gives `Alone`: one task at a time has begun to move the session - the submission in hand, or the idle compaction - and the other still waits. `Kept` then says of each place from which a conversation
may come back what it has: a graph in use tells nothing the ledger has cleared and its cursor nothing the ledger has not (`Live`); the seed, the checkpoint and the base of one who seeds agree (`SeedKept`); the entries there were before an operation
already tell everything, and its old thread fits them (`PriorKept`), so that taking back loses nothing; a summary under way covers what it will stand for (`TailKept`). What a turn has said and not captured is in the checkpoint it streams to (`Unsaid`, `TurnKept`), which is
what a restart captures. Nothing is told both before and after a clear on one way (`EntriesApart`).

*Hub.* `HubInv` is the conjunction of `Mailboxes` (an agent that lost messages has one warning, others none; by ranks of the messages left),
`Calls` (nobody sleeps over a true condition: each change that can make one true notifies; reading and claiming only make conditions false), `Agree` (the
counts of waiters are the cardinalities of the calls that count) and `Results` (recorded means ended, delivered goes with the job entry, claims are 0 or 1).

*Rules and prompts.* `RulesSpeak`: a fired rule's reminder is attached, pending or in the retry (`Reminded`), a retry is of one attempt
(`RetryIsOfOne`), and each interruption has a rule of its own (`EachBreakHasItsRule`), which bounds them. `PromptsAreAccounted`: `Weight`
counts a prompt's places in the running program; in `QueueInv` it is 1 with no copy elsewhere, or 0 with exactly one copy in another session (`Placed`).
It needs that only a streaming turn takes steering and that a leaving program's turn is aborted or has none (`TurnIsInOrder`),
that copies are of sessions left (`CopiesAreOld`), one each (`CopiedOnce`), and that what was not given yet is nowhere (`NotYetGiven`). Steps fall into those that
shuffle places, copying, the end and the failure of a switch, the exit and the return.

*Switches.* `SwitchInv` says what each command has changed at each of its points, in terms of what it remembers (`ChangesAreKnown`), so that its handler's
writes put exactly that back; that the agent is of the model in use and the session's row has that model, but for a prompt's own (`AgentIsOfModel`, `RowHasModel`),
which makes the handler of `/model` write what is there; and that an announced thread has its checkpoint (`SeedIsThere`). `FailedSwitchesAreUndone` has the premise
`~Accidents`: with `--model` over a resumed session's model the handler of `/model` writes another model than was stored (section 10), and TLC shows it.
`HistoryIsReady` has the same premise. A row *fits* when its checkpoint has nothing private to another provider than that of the row's model, unless a reseed is pending. In `HistoryInv` the row
of every session fits (`StrangersFit`), that of the session in use also with the thread and the history model the context names (`TheirOwnFits`), and so does what a failed `/resume` or `/fork` goes
back to (`LeftFits`); what has not begun has no checkpoint (`Unbegun`), and a thread that is being seeded counts as having none until it is activated (`OpFits`).

*Processes.* `ShellLeavesNothing`: who is between its lock's acquisition and release holds it (`LockHeld`), the files that are polled are the script's own
(`FilesPolled`), a running script has a call that watches it (`ScriptWatched`), the directory and variables on record are those of bash, and of one command but for a torn reading (`StateKnown`), and a shell once closed stays so
(`ClosedForGood`). `ServerHasOneConnection`: a loop that runs is that of the connection in use, and while the manager closes all are leaving.

`AdvisorMissesNothing`: what the prompts of taken advice covered reaches to the cursor (`CursorIsHeard`), a prompt covers what lies between the cursor and its end
(`PromptIsWhole`), what was seen before a spawn stays covered by the run that is replaced (`SeenCameFirst`), and one look at a time relies on one prompt (`OneAdvisorRun`, `OnlyPrompt`).
`HooksAreObeyed`: what a hook was told is what the tool will run with (`ToldIsWritten`), hooks are asked in the order of their list (`AskedInOrder`), and a tool that ran was allowed
(`RanAsAllowed`); an exit waits for the hooks it found (`ExitJoins`); the compactions not announced yet are those after the node's baseline (`MarksInv`). `RegistryStaysOwn`: while a register runs,
the registry is that of the loaded, with what the running one has put over it, and what it displaced is remembered (`RegistryInv`); its failure puts exactly that back. `SkipsHaveCause`: the order splits into
candidates placed by their requirements and, behind them, candidates that wait for one another or for what is not there (`Divided`, `Excused`); that there is a first one that cannot be placed is an argument about least elements.

*Reviews.* A reviewer's spawn is over, its failure raised, or its run known (`SpawnsAreOver`, `UnstartedRaised`, `EndsAreKnown`); an end of a run is heard unless a wait expired or a call raised (`EndsAreHeard`), and a verdict rests on what was heard (`VerdictIsFounded`).

*Memories and usage.* What an editor holds is the document as it was at its stamp, and stamps are never used twice (`HeldIsCurrent`). A written row is of the session in which its request began (`UsageRows`). A refresh that began after the last row
was told, or runs while a later one is to come, reads what is there (`RefreshIsLone`).

*Credentials.* `LoginIsKept`: access tokens tell credentials apart, a process has one refresh at a time, and a refusal of the stored
refresh token implies that another process spent it. `LoginsAreOwn`: a login whose server took a request pastes no more, and what is stored was granted for its own code (`CodeIsOwn`); the time since the last
answer and the rest of the wait make up the interval, or the rest is all that is left (`WaitIsLong`). `SettingsAreTheUsers`: every model, provider
and value that is in force was read from a layer whose typed contents are carried along (`SettingsTyped`), and what was chosen is what the user's file says (`ChoiceIsSaved`).

*Files.* `EditsHitTheShown`: a tag that is not ambiguous has stood for one content only, the first, and whatever was shown under it is of that content (`ShownOfFirst`); a snapshot's
seen lines were shown (`Remembered`). Where the file has changed, an anchor goes to a line that matches it, so to one of equal text, and the shifted hunk lies within the file (`RecoveredIsWithin`); of two hunks the later is spliced
first, and every other line is where the growth before it says. That matching lines are equal is a statement about a recursive function over areas: an area for which it failed would
contain a smaller one (`WFMin`), and that the function exists is shown in the same way. `ReadsShowWhatTheyLeave`: an open read holds a text (`ARead`), the numbers asked for are listed in ascending order, and a hint names a range
between two of them (`MiddleIsARange`).

*Terminal.* `ApprovalsFailClosed`: each inquiry has one answer for each decision, and a name the handler lets pass was allowed when the interrupt was raised or has an "always" among the answers (`Sound`,
`AllowedFor`); a turn stands in the queue at most once (`Once`), so whoever takes it out - the lock, a cancellation, a key - leaves no second place behind. `FramesAreWhole`: the update is open while a commit is between its
begin and its end (`FrameIsOpen`), and the probe runs as long as the application and a pump that works (`ProbeRuns`).
`HubHitsTheSelected`: while there is a hub, or an action that refers to it, its row is that of the selected worker, unless the rows have shifted since it was last looked up (`RowIsKept`);
an action is bound to the worker whose row was lit (`ActIsBound`). A view that no rebuild is due for shows what its worker's ledger and its unwritten words say
(`ViewInv`); a worker of which nothing was told shows the same as before (`SameToldSameShown`), so other workers' news leave a view alone.
`StatusIsOfTheSession`: every copy of the state - the one shown, the one kept for each session, the one a move would put back - has only texts of what its segments say they are of (`Fits`),
and a mark of a read under way only for a segment that is asked for; a read brings nothing but an answer of what it was started for (`Asks`); a title that a late read may still bring is of the
session that will be in use when it is shown (`Placed`); and in each phase of a move it is known which thread each copy's tokens are of (`TokensInv`).

*Store.* `OldStoreOpens`: the transaction's copy differs from the file in what it moved only, of each session one knows how far it is moved (`SessionIsMoving`), and there is one writer.
`ReplicaLeavesInOrder`: a schema is shared or made before any rival can be (`SchemaIsShared`), and the stages come in order (`StagesInOrder`).

Each inductive invariant was checked by TLC on the small instance before it was proved. `ProcessesProofs` extends the modules of the shell, of Mcp, the advisor, hooks and plugins, `HubProofs` those of
the hub, reviews and paged reads, `StoreProofs` those of the stores, memories, usage and ledger writers, `ConversationProofs` rules, prompts and switches, `CredentialsProofs` tokens, logins, settings and line edits, `TerminalProofs` approvals, output, the hub's screen and the status line: the components share no variable, so the theorems of one
say nothing of another.

Only model-checked, and why:

- `AbortSettles`, `QueueServed`, `QueueDrains`, `Reconnects`: liveness under fairness is out of the prover's reach.
- `ThreadMirrorsPath`: that the checkpoint equals, message for message, what a recursive reading of the entries gives needs for each kind of capture how `WithoutDangling` and the last compaction
  commute with appending; of this only what is *told* was proved, not the order.
- Folds over data of any length: the library's induction theorems take an operator, which no installed prover can instantiate. Where one recursive function is met by a least counterexample (*Session*, *Files*), it was done.
  Left are `SummaryFits`, `CutsSound` (conversations), `HunksShared` (bins), `RolesResolve` (a
  recursive function of the roles met so far), `HintsLeadEverywhere`, `ClosestWins`, and the texts and blocks of `ScreenSound`, `InputSound` and `CardsSound`.
- The sums of `CountedOnce`: that families of sessions share out what was spent is a fold over a set.
- `RowFits` (a fold over segments) and `TitleIsCurrent` (the count of a title's reads begins anew with a cleared state, so an invariant would have to tell the reads of one state from those of its successor).

## 9. Findings

Each is a run that TLC finds violated; `PROJECT.json` quotes the line it contradicts.

1. `stillborn`, agents.py:515. A run cancelled between `create_task` and its
   task's first step never settles: asyncio throws the cancel before `_run` has
   entered its `try`.
2. `steer`, agents.py:1276. An interrupting text that hits a turn outside
   run_turn's `try` (while it opens, or in its `finally`) aborts the run, as "shutdown".
3. `idle_clear`, context.py:1101. An idle compaction that waits for its summary
   is not cancelled until the clear has been seeded, and may append the summary of
   what was cleared behind the boundary.
4. `rollback`, context.py:630. A clear or a compaction whose seeding fails
   after a background run has appended its job entry cannot be taken back:
   `set_position` only discards the newest entry.
5. `private_history`, context.py:886. After a prompt with a model of its own before the first agent, a `/model` within the
   configured provider leaves the other provider's private blocks in the graph, and the next prompt sends them.
6. `workers`, transcript.py:452. The end of a worker's turn settles the block the main agent is writing; its next
   chunk raises in the handler.

## 10. Observations

Behaviours met while modelling that no run reports. No document of the repository contradicts them, but for the two marked "against", which
`NothingLeftRunning` and `CardsClose` leave out by name. The models have them unless it is said that they are left out.

Workers and hub
- An abort lists the descendants before its first await; a child spawned meanwhile is missed (agents.py:733). Parents over budget do not: their turn is over.
- A message to an agent that waits for another peer stays unread. The task tool and a review show results that another claimed; a cancel after `deliver` marked a result loses its announcement.
- A request that jumps past the wrap-up limit ends a run without its wrap-up turn (agents.py:565, README.md:207-208).

Prompts and sessions
- `/new` and `/fork` discard queued prompts; those typed in the window of a resume are lost; an exit drops those behind a delivery or the lock.
- A failed resume leaves a stale saved copy; a prompt that the turn takes while `/resume` works stays copied in the session that was left and would run again (runtime.py:1373-1386); an exit then may save a prompt as queue and as draft (1465-1477).
- A slash command beside a streaming turn moves `thread_id` (runtime.py:1441); with `Overlaps`, `NothingLost` and `ThreadMirrorsPath` fail.
- Foreign blocks also stay after: a plain `--resume`, then `/model`, then a prompt with its own model; `/resume`, `/new` or exit with a pending `history_model`; resumes with an override and crashes in such prompts (`Accidents`). A crash in `/fork`'s seeding, then a resume and a `/model` to another provider, activates an empty thread.
- A `/model` to another provider on a pending reseed without a thread row raises LookupError and rolls back; a failed switch with an override writes it into the stored model (context.py:879); `_always_allowed_tools` is not computed again after a failed resume; a ThreadSwitch handler that raises after activation leaves the registry at the old session; key operations at once may overwrite `cfg` and `agent` with stale candidates (left out).
- A failing compaction after a turn drops the model's answer.

Services
- Shell: the directory is assigned before the variables are parsed (shell.py:353-354); if that fails, bash is killed and the next one starts in the new directory with older variables, against the message "last completed cwd/env" (shell.py:361).
- Mcp: `session` is None between wake and use (mcp.py:480), which fails the call without a reconnect; two reloads at once leave two loops (left out).
- Tokens: two processes that refresh the same login can log the user out; a crash between rotation and store, or a lost answer, loses the grant. Logins: handler threads are daemons that `server_close` does not join, so a page may say "complete" for a login that timed out; the thread of a cancelled browser login keeps the port for up to 120 s; of two logins at once the second is pasted, or its callback goes to the first's server and is refused.
- Advisor: a look sent to a queued run takes the earlier prompt's advice; a prompt that cancels a look inside `_reset_run` leaves the cursor; a look cancelled in `bus.emit` loses its advice.
- Rules: a reminder pending from a cancelled turn is delivered in the next one; a thread moved within a turn puts reminders into the other conversation (left out).
- Files: a write between check and `atomic_write` is lost; the selector "file:N-" is always refused (filesystem.py:207).
- Usage: overlapping refreshes can leave a stale total, and a failed resume the other session's, until the next event; a fork is a child session (context.py:528-533), so its cost counts in the session it came from, though usage_store.py:77 speaks of child agents; a failed request's reported usage is lost unless a rule broke it off.
- Plugins: of two candidates of one name only the first is waited for; replacing a renderer by name removes other plugins' predicate renderers of that name while their claim stays; removing a tool that replaced another does not bring that one back.
- Reviews: a spawn whose AgentSpawned handler raises, or one cancelled after five minutes, leaves a registered run that never starts; a reviewer that ends after both waits is counted as failed and announced later.
- Hooks: `{"block": true, "message": ""}` does not block (README.md:1177-1178); time limits fail open; background hooks that start while AppExit joins are not waited for. Configuration: a `/model` choice is overridden by environment and project at the next start; `--trust-cwd` trusts any directory a resumed session moves to; `model=["@smol", x]` without smol raises "Model alias cycle".
- Store: one session with an unreadable checkpoint keeps a whole version-0 database from opening; a session without a checkpoint at the migration that an old program then writes to is never migrated. Replica: two machines that make a schema at the same time cannot be synchronised.

Terminal
- Back-pressure (runtime.py:2287-2293) lets a later batch overtake an earlier one; after Ctrl+L within a turn the end of a tool makes a second card.
- After a write error `pending` is 0 while items remain, so close waits its full second; a fragmented report of 128 characters without an end is fed as keys.
- A cancel during an approval is a "reject" and the turn goes on; two approvals at once lose one "always" (approval_prompt.py:64, 95); one pending while the user moves to another session writes its names into that session's state; of several parallel interrupts only the first is answered.
- Chips: the edit is inferred from a common prefix and suffix (composer.py:301-333) and may drop a paste; the history keeps text without them (runtime.py:1435).
- Cards that are forgotten: `release_committed` (transcript.py:1001-1030) drops a closed card once it is written. If its run is delivered while AgentStatus or AgentFinished waits (in a blocking hook), the event then opens an "agents:" card that never closes, against the comment at transcript.py:518-521 (`forgotten` in `TaskCards`). Ctrl+L (runtime.py:2310-2323) forgets all cards.
- Cards: a run delivered before its call's end is handled goes back to the summary's older status and its card never closes; a run of another call may take a placeholder; the card of a task call cancelled with its turn never closes. A response that a rule broke off leaves its pieces in the buffer; a compaction within a turn repeats results as new cards (compaction.py:409); parallel edits of one file show each other's changes.
- The view of a worker: a status change of *another* worker rebuilds it without live output and cancels the pending refresh (runtime.py:1190-1198), so live text vanishes until the next event; the end of any turn commits all live blocks (transcript.py:450-463), so a worker's text is in no view of it until its own turn is captured. Within the throttle the highlighted row may be of another worker than `_selected_id`; `x` and `r` act on the row, a message on the selected worker by the time its coroutine starts (hub.py:503); `x` on an empty list acts on a run that appears before the task starts (519-521). `_send_drilled_batch` reads the drilled run anew for each prompt (runtime.py:1018-1035; left out).
- The status line: a git read that ends while a `/resume` is under way is dropped without clearing `_git_refreshing` (statusline.py:270-276); if the move then fails, the restored state says that a read is under way, and the segment stays as it is until the next SessionSwitch (context.py:769-771). `_pr_refreshing` is saved with the state, and neither `register` nor SessionSwitch resets it: a session left during a `gh` read does not read its pull request again. Generations begin anew with a state that `/new` has cleared, so an overtaken title read may be taken while the agent is built; of two overlapping reads of the model's name the last one to end wins (left out).

## 11. What is not modelled

- Of the ledger: fork, lookups by prefix, the decoding of payloads. Of capture:
  edits of messages in place, shake metadata, turn state. Of the context: switches of mode and the states of
  plugins (but for the status line's). `seed_thread` is called nowhere. Of the screen: moves to another session while a worker's view is open. Of the registry: views, building of agents, hydration of trees of runs, retargeting.
- Several servers of MCP (copies of one), what advice, rules, hooks and reviews say, MV, REM and several
  sections in hashline edits, output buffers and artifacts of the shell, prices and tables of usage, formats of tokens.
- Not at all: the drawing of blocks, themes, overlays other than the hub, exports, pickers, argument parsing (output or
  input without a state that others change); skills, file commands and context files (reading of files).
- External: LangGraph's `aupdate_state`, modelled as the two steps it is used
  as (read the checkpoint, write it with the messages it did not know); SQLite's transactions, the SDK of the replica, the
  authorization server, bash, the terminal; and asyncio's tasks, semaphores and time limits, whose behaviour is part of the actions that use them.

## 12. Plan

Done: the models of sections 3 to 6 with their runs, and the theorems of section 8. Left, in this order:

1. The safety invariant left that needs no induction over data, `TitleIsCurrent` of `StatusLine`; then `HintsLeadEverywhere` of `FilePages`, by least counterexamples as in section 8.
2. `ThreadMirrorsPath` of `SessionTree`, for operations in sequence, on the invariants `Alone` and `Kept` of `SessionTreeProofs`.
3. Compositions: a branch (`SessionTree`) with the detaching of runs (`AgentRuns`); delivery (`Hub`) with the prompt queue (`TurnQueue`).

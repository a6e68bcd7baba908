# A verification development for AI Workflow Hero

`hero` drives a software workflow in which harness agents (opencode, codex,
claude, cursor) do the work and deterministic Go code decides what they may do.
A *cycle* goes through stages; each stage is executed by agents that the TUI
dispatches, under a time budget that must be enforced whatever an agent, a human
or another process does.  Around the stages are the cycles of a project and their
archive, ToDos that outlive cycles, saved conversations, a Telegram daemon, and
adapters to the harness programs.  This directory holds TLA+ modules of that code,
configurations that model-check them with TLC, and proofs checked by TLAPS.
Paths below are relative to `src/internal/`.

Contents: [inventory](#inventory), [modules](#modules),
[model and code](#how-the-model-corresponds-to-the-code), [runs](#runs),
[bounds](#bounds), [fairness](#fairness), [proofs](#proofs),
[disagreements](#disagreements-between-the-code-and-what-is-said-of-it),
[not modelled](#what-is-not-modelled), [plan](#plan).

## Inventory

All processes of a project share one SQLite file (`.ai/hero.db`; one connection
per process, a busy timeout of 5 s), so a store function that opens a transaction
is atomic and everything built from two of them is not.  The processes are the
TUI (one at a time, in intent), the CLI invocations an orchestrator's turn makes
(`hero stage start`, `hero stage close`, `hero stage loop-back`, `hero continue`,
...), the CLI invocations of the human, and the Telegram daemon.

| Component | State it keeps | Operations | Talks to | What is hard | What makes it correct |
|---|---|---|---|---|---|
| Stage time ledger (`store/stage_budgets.go`, `engine/stage_budget.go`) | a row per stage: limit, consumed, state, pause reason, generation, checkpoint | begin, checkpoint, accept, expire, pause, block, continue, resume, interrupt, escalate, increase, recover | engine, TUI | truncated arithmetic; a generation is a capability that several parties hold at once | nobody is charged for waiting; a stopped attempt stays stopped; a spent budget gets time only from an increase |
| Stage execution (`tui/stage_budget.go`, `stage_handoff.go`, `stage_progress.go`, `conversation.go`) | `m.executes` (the acceptance set), `streaming`, `stageHandoffLive`, the monitor | dispatch a wave, track human waits, accept or reject results, judge a wave, cancel, recover | ledger, engine, harness adapters | goroutines post messages to a loop; ticks and results are stale by the time they are handled; crash and restart | every running clock is watched, every overrun ends, the scheduler never idles or blocks |
| Engine, one stage (`engine/engine.go`, `handoff.go`, `blocked_handoff.go`, `implementation_close.go`) | `stages` row: status, iteration, extra iterations | start, close, close with findings or blocked report, continue, escalate | ledger, findings, ToDos | several transactions per operation; CLI and TUI interleave | stage and ledger agree about what is running |
| Engine, the stage machine (same files, `cycle/service.go`) | the ordered stages of the active cycle, its status | approve, reject, loop back, reopen planning, advance, finish, cancel, synchronise the configuration | store | rows are reset one write at a time, one of several may fail | one stage runs at a time, in order; a repair loop is bounded; no stage is left that nobody can start |
| Cycle lock, active cycle (`engine/engine.go`, `store/cycles.go`) | lock row, active flag | acquire, release, create, resume | every engine operation | check and then act between processes; death of the holder | one holder; at most one active cycle |
| Findings (`store/findings.go`, `cycle/finding_assignment.go`, `cycle/handoff.go`) | findings per cycle, rounds | register, assign, resolve, reopen, defer | engine, validation reports, ToDos | identity across rounds and cycles | an open finding keeps the cycle from finishing unless deferred, and a deferred one is kept by a ToDo |
| ToDos (`todos/`, `store/todos.go`, `cycle/todo_cli.go`) | ToDo rows, adoption history, projection operations, `context/current-state.md` | promote, add, adopt, release, resolve, complete, project | cycle service, file system | released outside the transition that causes it; ids chosen from a read; a file that follows the database in steps | a ToDo is adopted by one cycle at most, none is lost, and the file shows them |
| Session leases (`store/session_leases.go`, `tui/chat_session.go`) | owner and expiry per session; in each TUI the session it believes to hold | acquire, heartbeat, expire, release, retry, restore | every TUI of the project | database calls run beside the loop and report late | a TUI that believes it holds a lease does, and none is left behind |
| Conversation and session persistence (`conversation/`, `store/sessions.go`, `tui/chat_session_history.go`, `tui/history_screen.go`) | sessions, events, queues of unsaved events | begin, bind, save, open, fork, import, archive, delete | TUI, adapters | History's commands overlap turns and each other | a resumed turn finds the session it names |
| Archive (`cycle/service.go`, `cycle/archive_move.go`, `cycle/idea_archive.go`, `store/archive_lock.go`) | claim in the cycle lock, move intents, directories, idea notes, credentials | archive, recover, restore | file system, OpenSpec | a crash or a failure between moves | no evidence is lost; archived means done; the claim is recovered |
| Store, migrations (`store/`) | the schema | open, migrate | all | - | SQLite is trusted |
| Harness adapters (`adapters/*`), registry (`harnessmgr`, `harness`) | child processes and connections, external sessions, the turn slot | execute, cancel, reconnect, reset | external programs | calls share one child and one slot; the child dies at any time | every execution ends in exactly one result, its own |
| Telegram daemon, IPC (`telegram/daemon`, `telegram/ipc`, `tui/telegram.go`) | the socket, the registry of TUIs, marks and queue in a database, the offset at Telegram | start, serve, poll, route, queue, flush, exit; dial, reconnect | all TUIs of a user, Telegram | processes come and go in any order; marks, rows and pushes are separate | a message is delivered at most once and is not lost silently; a TUI finds a daemon |
| Test access (`testaccess/`) | prepared browser environments | prepare, tear down | engine | external commands | a blocked preparation does not cost an iteration |
| Validation reports (`cycle/reports`) | none | decode, check | engine | - | a malformed report never passes |
| Screenshots, media (`cycle/screenshots`, `media`) | files, manifests | ingest | - | - | - |
| Configuration (`workflowconfig`, `modelprops`, `variables`) | documents | load, validate, merge | engine | - | invalid documents are refused |
| Installation, upgrade, doctor (`install`, `upgrade`, ...) | files | one-shot file operations | - | - | - |
| TUI rendering and input, `cmd/hero` | view state | render, parse | - | - | - |

`PROJECT.json` lists the same components with what is modelled of each, and under
`hazards` the places where this code can go wrong and a test would hardly
look, each with the properties that watch it.

## Modules

| Module | What it is |
|---|---|
| `StageLedger` | The ledger's transactions as operators from a pair of rows `[budget, status]` to the pair they commit.  No variables: it is shared by every module in which somebody touches the ledger. |
| `StageExecution` | One timed stage run by the TUI scheduler, with agents, CLI processes, the human, crash and restart; composed from `StageLedger`. |
| `MCStageExecution` | The instance for TLC (symmetry of execution identifiers). |
| `CycleEngine` | The stages of one cycle and every engine operation on them, with the state of each stage's ledger. |
| `MCCycleEngine` | The instances of it: Planning, Implementation and one or two validations, three configurations. |
| `ProjectCycles` | The cycles of a project, the cycle lock, and archive with its files, notes and credentials. |
| `TodoLifecycle` | Abstract specification: what a project may count on about its ToDos and the document that lists them. |
| `TodoProjection` | ToDos, deferred findings and the projection protocol, command by command; implements `TodoLifecycle`. |
| `Sessions` | The TUIs' session leases, History, and the turns that need a lease. |
| `TelegramDaemon` | Daemons, TUIs' clients, and the way of every message. |
| `CodexAdapter` | `Execute` calls on the shared Codex child. |
| `MCProjectCycles`, `MCTodoProjection`, `MCSessions`, `MCTelegramDaemon`, `MCCodexAdapter` | The instances of these for TLC. |
| `StageLedger_proofs` | Typing, charge and generation facts of every ledger transaction. |
| `StageExecution_proofs` | The inductive invariant of `StageExecution` and the theorems that follow from it. |
| `CycleEngine_proofs` | Types for any callers; order, exclusion and current validations for one caller. |
| `ProjectCycles_proofs` | The cycle lock, the archive's moves, notes and evidence, and what a sealed cycle has. |
| `TodoProjection_proofs` | The ToDos' invariants, what each command owes the file, and the refinement of `TodoLifecycle`. |
| `Sessions_proofs` | What a TUI may count on about its leases, item by item of its work. |
| `TelegramDaemon_proofs` | A message is in one place while one daemon serves, and never nowhere. |
| `CodexAdapter_proofs` | Whose turn a connection speaks of. |

The modules meet where one's single step is another's subject.  A command under the
cycle lock is one step of `ProjectCycles`; what it writes to stages is in
`CycleEngine`, what it does to ToDos in `TodoProjection`.  A stage's ledger is the
one word `clock` in `CycleEngine` and the whole of `StageExecution`.  A turn of
`Sessions` and an execution of `StageExecution` are an `Execute` of `CodexAdapter`.

## How the model corresponds to the code

**Rows.**  `budget` is the row of `stage_budgets`: `limit`, `consumed`, `state`,
`pause`, `gen` (the generation), `at` (`checkpoint_at`).  `consumed` is in whole
milliseconds, as `durationMillis` stores it, `at` in units of `1/UnitsPerMs`
millisecond, as `budgetTimestamp` stores it with the clock's precision.
`stage` is status, iteration and extra iterations.  Each store function is one
operator: `BeginStageBudget` is `Begin`, `advanceStageBudget` is `Advance`,
`PauseStageBudget` is `Pause`, and so on; an error return is the identity, and
where callers react to it a predicate (`BeginRefused`, `PauseRefused`,
`Accepts`, ...) says so.

**Several transactions.**  `StartStage` reads the stage (`StartRead`), looks at the
ledger (`StartCheck`, `StartExhausted`), begins it (`StartBegin`, which does not look at
the stage again) and writes back the row it read (`StartWrite`); `CloseStage` reads,
accepts, pauses and writes (`CloseRead`, `CloseAccept`, `ClosePause`, `CloseWrite`).
Either may die between any two steps.  What a call read travels in `starting` and
`closing`, so a later step writes stale values as the code does: a continuation or an
escalation in between is lost.  A failed close blocks the ledger on the generation
it has.  `overtaken` is history: the generation a start set running when its stage was
no longer Waiting.  One start and one close may be in flight; `MaxCalls = 1` lets them
follow one another only.  Everything else the TUI does happens within one message of
its loop and is one action.  `Rework` and `IncreaseBudget` are CLI calls of one relevant
write; an escalation, a report or a CLI call that reads a row and then opens its
transaction has the two fused.  `Continue` of an Escalated stage fuses two writes,
`ContinueStageBudget` and the `UpdateStage` of the row read (`engine/engine.go:622`, `637`):
a caller that dies between leaves the stage Escalated with its ledger already continued,
from which it can be continued again.

A transaction of the ledger gets the time at which it commits; the code reads its clock
just before, and only `ClosePause` (`closing.at`) has the time of an earlier step.  Where
a caller waits for the database between the two, its checkpoint is as much older, and
`advanceStageBudget` may move `checkpoint_at` back by that wait and charge it twice
(`elapsedSince` only keeps the charge from being negative).  The model leaves this out.

**The loop.**  Bubble Tea's `Update` takes one message at a time from an
unbuffered channel.  Goroutines (monitor, executions) block in their send until
`Update` takes it: `tick` and the execution state `"done"` are messages that wait.
When `Update` itself sends, nobody receives: `loop = "blocked"`.

**Executions.**  An entry of `m.executes` is `"running"`, then `"done"` (its
`executeDoneMsg` is on its way), and leaves the set when that message is
accepted or rejected.  `"lost"` is an entry whose message was consumed without
removing it.  `gen` is the token `captureActiveStageBudget` gave it: the
generation of an active ledger or 0.

**The gate.**  `maybeHandoffAfterExecute` and
`resumeOrchestratorAfterStageHandoff` judge a finished wave.  Each outcome is an
action with all it does, the next wave or orchestrator's turn included: a next
wave (`NextWave`, after the timeout check), the same agents again (`RetryWave`),
the orchestrator's turn (`Orchestrate`), a failed close (`FailWithFindings`), a
blocked report (`BlockWithReport`), an escalation (`EscalateWave`,
`EscalateStalled`), an empty close (`CloseEmpty`).  Which outcome applies depends
on reports and caps the model leaves open, so every outcome is possible.
Accepting the wave's last result and judging it are two steps here and may be one
or, with an asynchronous check of the repository, two in the code: the model has
both orders.

**The stage table.**  In `CycleEngine` a stage row is status, iteration and extra
iterations, `clock` the state of its ledger, and whether a ledger's time is spent
is a choice.  The engine reads rows, decides, and writes each row whole in a
statement of its own (`Store.UpdateStage`).  A call is therefore an action that
reads, checks and decides (`Starts`, `Closes`, `LoopsBack`, `ReadsAgain`, ...), which leaves in
`calls[p]` the rows as read and the stages still to write, and one `Write` for each.
Between them ledgers expire or are interrupted (`Ledger`), which escalates rows
the call will overwrite, and the process may die (`Die`).  What the code
does in one transaction is one action: the handoff of a failed report
(`HandsOff`), a blocked report (`Blocks`) and its continuation
(`ContinuesBlocked`), a deferred completion (`DefersAll`).  `Picked` is
`resolveRunStage`: the TUI, and an orchestrator that follows its instructions,
start the first Waiting stage when no other stage claims attention.  `hero stage
start` itself would take any Waiting stage.  `config` is what the cycle is
configured with, chosen from `Snapshots` at the beginning, and the optional commands
an instance has.  `torn`, `retried` and `fresh` are history.

**Other stages.**  `StageExecution` has one stage.  A turn that may belong to another
stage captures either this ledger or none (`NoBudget`).

**A project's cycles.**  In `ProjectCycles`, `procs[p]` is one command and `pc` the
statement or file operation it is about to make.  `Reads` and `Locks` are the two
statements of `AcquireLock`, `Unlocks` its `defer`; `Prepares` to `Promotes` are
`PrepareCycle` with `CreateCycle`; `StartsResume` to `Promotes` are `Resume`.  Archive
is, in its order: the lease on the credentials store (`OpenSafeStore`), recovery of a
dead claim (`RecoverArchiveLock`), the claim (`AcquireArchiveLock`), OpenSpec, with
the force the code applies when no credentials are left (`ForcedPast`), the notes of
`docs/idea` one by one with roll-back, `Inspect` to find an interrupted move, the intent
and the rename (`RecordArchiveMove`, `MoveCurrent`), the new `cycles/current`
(`Recreate`), and the transaction that removes credentials and seals the cycle
(`FinalizeArchive`).  `Unmake`, `Restore`, `Fails` are its error exits.  A directory is
an inode and the cycles whose evidence it has, since the code recognises its own
directory by the inode in the intent.  `history` has the deaths, the cycles sealed, those
whose agents wrote late, and whether commands crossed or raced.

**ToDos.**  In `TodoProjection` a command is a chain of steps in `calls[p]`:
its own transaction (`Promotes`, `Allocates`, `Inserts`, `Adopts`, `Releases`, `Completes`,
`Defers`), then `Reconcile`, i.e. `Upserts` the operation, `Loads` it by key, `Builds` and
`Readies` a candidate, `Installs`, `Marks` and `Verifies`, and for the commands that
end a cycle `Engine` and `Settles`.  The status read by `Loads` decides where a
repeated command goes on.  A candidate file is content, its hash is that content, and
the rename that installs it replaces the file whole.  `history.faults` names what went
wrong: a command was interrupted, an idempotency key was reused, a candidate of a dead
command was resumed, an installation overtaken, commands crossed, two promoted one line.

**The refinement.**  `TodoProjection` implements `TodoLifecycle`: `todos` and `cycles`
are the same rows; `drafts` are the lists that candidate files show, `document` the
list `current-state.md` shows, both as pairs of a ToDo and the cycle that holds it.
A step that builds a candidate is a `Draft`, an installation an `Install`, every
transaction a `Change` or a `Turn`, and operations, keys and retries are stutters.
The document is therefore always a list that was true once, even where it is stale.

**Sessions.**  In `Sessions` a TUI is its fields and the set `work[p]` of commands and
messages in flight: `heroChatSessionID` is `chat`, `heroLeasedSessionID` is `leased`, and
so on, named in the module.  A `tea.Cmd` is an item that goes from one database
call to the next (`OpenTarget`, `BumpEpoch`, `Validate`, `Leave`, ...) and ends as the
message its handler takes (`Opened`, `OpenFailed`, `NeedFork`, ...).  A user step
(`BeginOpen`, `NewChat`, `Submit`, `ConfirmFork`, ...) is one key with its guard.  A release
compares the epoch it began with (`flag`: a bump came after it).  A lease is its owner
and the ticks to its expiry; `Tick` passes at any time, so a heartbeat may be late, and a TUI
that has died is one that takes no step.  `history.slips` records, per TUI, a lease that
expired (`late`), was given up while its chat counted on it (`gone`), or stayed when it
no longer did (`left`); the disagreements below say where the code does so.

**Telegram.**  In `TelegramDaemon` the actions are grouped by goroutine: `Client` (the
TUI's `run`: dial, spawn, disconnected), `Main` (probe, clear the socket file, bind,
shutdown, exit), `TimerFires`, `PollLoop` (fetch, check and mark of the
deduplication, routing, push or queue) and `Handler` (register, read pending, flush,
deliver, end).  `socket` is the file and who listens behind it: removal goes by name, so a
daemon may remove another's.  Telegram confirms what a later offset passes.  A
daemon's channels are lost with it; `disk` is the database.

**Codex.**  In `CodexAdapter`, `adapter` is what the mutexes guard (the connection,
the one being started, known sessions, active turns and cancel functions by thread, the
slot), `server[k]` a connection with the child behind it, and `calls[c].at` the place of
an `Execute`: `ensureAppServer` (`Spawn`, `Handshake`), the thread (`Open`), the slot, the
notification handler (`Capture`), `turn/start` (`Request`, `Answer`), the wait
(`AwaitEnds`), and the way through a closed connection (`Drop`, `Recover`, `Reopen`).
A request that a dead child never answers fails; `sv` and `ad` in the operators are the
server and adapter after what happened earlier in the same step.

## Runs

| Run | Question | Result |
|---|---|---|
| `StageExecution` | Two agents, all interleavings: does the clock charge only active time, do stopped attempts stay stopped, is a running clock watched, does an escalated stage stop its clock, do generations and increases mean what the code relies on? | holds; 1,242,921 distinct states |
| `StageDeadline` | On a clock that stands on whole milliseconds only, does every overrun end, whatever agents and human do? | holds; 776,484 |
| `CycleEngine` | Three configurations of a cycle; loop-backs, reopened Planning, ledgers that stop, calls that die between two writes, retries, stages enabled and disabled in mid-cycle, finish, cancel, deferral: do stages run in order, does every validation that counts judge the present Implementation, do repair loops end? | holds; 1,546,722 |
| `ProjectCycles` | Two processes, three commands, failures, a death, a midnight: is a cycle's evidence kept, and is an archived cycle done? | holds; 1,934,463 |
| `TodoProjection` | Two processes, three commands, a death: are ToDos, adoptions, deferred findings and the file consistent through retries, and is `TodoLifecycle` implemented? | holds; about 2,350,000 |
| `Sessions` | Two TUIs, up to three commands, two failing store calls, expiry at any time: is what a TUI believes of its lease true, and is none left behind? | holds; 2,042,601 |
| `TelegramDaemon` | Two TUIs, two daemons at a time, two messages, deaths and quits: once at most, none vanishes, TUIs reconnect? | holds; 478,018 |
| `CodexAdapter` | Two calls, deaths of the child, cancellation, reset: does every call end, and with the end of its own turn? | holds; 417,642 |
| `StageRestart`, `StageLoopBlocked`, `CycleStranded`, `CodexPromptLost` | One sentence each of the repository's documents. | violated, see below |

The properties of the passing runs, beside one type invariant per module:

* `NeverOvercharged`: consumed time plus the time since the checkpoint never
  exceeds the time the ledger was active.  It relates the rows to the history of
  the clock; human waits, double pauses and recoveries must all leave it alone.
* `RevokedTokensAreStale`: whoever was dispatched before an expiry,
  interruption, block or increase can no longer be accepted.  A close, also a failed
  one, keeps the generation, so its orchestrator still holds it.  Outside: a
  generation that was `overtaken`, then closed as failed, and then continued.
* `ActiveIsWatched`: while a live execution's clock runs, a monitor of that
  generation is registered.  A stale tick, a resumption or a new wave could lose it.
  Outside: the same.
* `EscalatedStopsClock`: the transactions of `StartStage` and `CloseStage`
  interleave with expiry and recovery and still never leave an escalated stage on
  a running clock.  Outside: a start that was `overtaken`.
* `GenerationIsOneAttempt`: what moves a generation and what may restart one.  A
  failed close stops the ledger on its generation; the next start takes a new one.
* `SpentNeedsIncrease`: through restarts, reworks, continuations and
  cancellations, only an increase gives time to a spent budget.
* `DeadlineIsEnforced`: `Overrun ~> ~Overrun`.
* `StagesRunInOrder`, `OneStageRuns`: through expiries, interruptions, deaths and
  overwritten escalations.  The order leaves out configurations in which a stage before a
  running one may be enabled or retried, and a stage that expired while its start was
  being written.
* `ValidationIsCurrent`: no validation that started before Implementation last
  completed stays Completed beside it.  Two cases are outside because the property
  really fails in them: a `hero stage loop-back` that dies between rows (`torn`),
  after which a repeated one finds Implementation Waiting and resets nothing, and a
  retry of a Failed Implementation whose validations the scheduler had run already
  (`retried`).
* `RepairLoopEnds`: only finitely many attempts start unless the human retries
  failed stages for ever.  It needs no fairness: no behaviour, however it is
  scheduled, starts attempts without end.
* `EvidenceIsNeverLost`: no failed, repeated or interrupted archive loses what
  agents wrote.
* `MovesAreRecorded`: a directory is in the archive only under an intent recorded
  for it; without that a later archive could not tell its own interrupted move.
* `ArchivedMeansDone`: whichever process seals a cycle, after whatever failures, its
  credentials are gone and its evidence is in the archive, but for agents that
  wrote while it was being moved (`late`).
* `IdeasFollowTheCycle`: notes moved by an archive that failed are back, or a new
  note has their name.  Outside: a death.
* `FinalizesAlone`: archive and the commands under the cycle lock exclude each
  other.  Outside: two that read the free lock before either took it (`crossed`).
* `OneActiveCycle`: also when a creation or resumption dies between its writes.
  Outside: two that overlapped (`raced`).
* `AdoptionsAreBalanced`: the append-only history of adoptions accounts for
  every ToDo's row.
* `DeferredIsKept`: through retries and crashes a deferred finding has a ToDo.
  Finding ids are numbered anew in every cycle: a ToDo of an earlier one stands for it.
* `EndedCycleHoldsNoTodo`: what a cancelled or finished cycle had adopted was
  released or resolved first.  Outside: an adoption that crossed the command.
* `LegacyLineOnce`, `LegacyLineIsKept`: the user's own line becomes one ToDo that
  is not resolved, and never disappears.  Outside the first: two promotions at once.
* `ProjectionIsCurrent`: at rest the file shows the rows, or will be made to by the next
  undisturbed command.  Outside: `interrupted`, `reused`, `resumed`, `overtaken`.
* `AdvancesAfterProjection`: a cycle is completed with deferred ToDos only when the file
  shows those it was given.
* `ImplementsLifecycle`: the refinement.
* `LeaseIsHeld`: the session a TUI continues is leased to it, unless History has just
  left it for another (`Switching`), a heartbeat, release or restoration of it is on its
  way (`Unsettled`), or `late`, or `gone`.
* `PendingIsCleanedUp`: a release that failed is retried until it is done.
* `NoLeaseLeftBehind`: a lease belongs to the chat, to the session whose import is
  offered, to a pending release, or to a command or message that will use or release it
  (`Concerned`), or `left`.
* `NeverTwice`: through repeated polls, deaths, restarts and reconnections.  Outside:
  two daemons that serve at once (`twins`).
* `NothingVanishes`: a marked message was delivered, answered or cancelled, waits in
  the queue or in a daemon's memory, or went down with a daemon, a connection or a
  full channel.
* `Reconnects`: a TUI that searches gets a daemon, or quits.
* `EveryExecuteEnds`: every `Execute` returns.
* `AnswersOwnTurn`: one that completes saw the end of its own last turn.  Outside:
  a thread on which some call was cancelled.

An exclusion is always a case in which the code really breaks the sentence; it is
listed below.  Each property is broken by at least one mutant of a definition of the code,
listed in `PROJECT.json` and kept in the modules as a "faulty variant".

## Bounds

`Exec` has two executions in `StageExecution`: enough for one to wait while the
other runs, for all to wait, for the last one of a wave, and for a live token of
an old generation beside one of a new; identifiers are reused.  `MaxGen = 3`
gives an attempt, its revocation, and an attempt after it, begun anew or after an
increase; it bounds what starts or prepares an attempt, never a revocation.  `MaxTime = 2` with `Limit = 1` gives
time before, at and after the limit, and an increase makes room for a second
expiry.  `MaxIterations = 1` and `MaxExtra = 1` give an exhausted and an extended
iteration budget.  `MaxCalls = 1` has a close and a start one after the other, each
among all other steps; an escalation between a start's check and its `StartBegin` happens,
and so does a failed close of a generation in use.  With `MaxCalls = 2` the same
properties and the parts of `IInv` hold on 3,727,214 states, too many for a run.
The safety properties are proved for all values of these, so
`UnitsPerMs = 1` in the large run loses nothing.  The case that `RevokedTokensAreStale`
and `ActiveIsWatched` leave out takes more steps than either instance has.
`StageDeadline` has one execution, since an overrun of several ends with the same
tick.  The clock stops at `MaxTime`: an overrun at the last instant must still end.

`UnitsPerMs = 2` is left out of `StageDeadline` because the property fails there
(below).

Of the cycle's seven stages four are there: what resets reach (Implementation, two
validations) and what they do not (Planning, unless it is reopened).  The first
validation is the one Planning can be reopened from and may be disabled, the
second may report blockers.  The three snapshots of `MCCycleEngine` divide what
would be too much together: blockers, deaths, one attempt and one extra, ledgers on
Implementation and the second validation (`Blocking`); two attempts without ledgers, and
one with, under retries, reconfiguration and the ends of a cycle (`Reconfigured`,
`Retried`).  Each gives every stage a second attempt, which a stale validation needs.
`Callers` has one process: calls follow one another, as the scheduler waits for the
orchestrator's turn.  With two overlapping callers `OneStageRuns` and
`ValidationIsCurrent` fail within a few steps: neither stage commands nor the TUI take
the cycle lock, and rows are written as read.  `PROJECT.json` has it as a hazard.

`ProjectCycles`: two processes are what a race takes; three commands are an
interrupted archive, one that interferes, and the archive that recovers; one death,
one midnight (a second name for the same cycle), two cycles, one note, three
directories (the second cycle's, and one re-created after a move).

`TodoProjection`: two processes and three commands, where a command that overlaps
another counts twice; one death; two cycles, two findings reported in all, since ids
clash between cycles; two promoted lines, since a line may be promoted twice.  Adopt,
reject and adopt again is the shortest reuse of a key.

`Sessions`: two sessions, one of an earlier run; `TTL = 1`, so that a lease is either
fresh or gone; each of `Budgets` divides three commands and two failures between two
TUIs: one TUI with three commands and a failure, two TUIs without, and so on.
`Hasty = {}`: users wait while History opens a session, as the screen makes them
unless they leave it; the properties are about such users.

`TelegramDaemon`: each of `Scenarios` is what the chat sends, the TUIs that start, and
how often a process ends: two texts to one address, a text and its cancellation, a
selection and a plain message, and three ends without messages.  `Cap = 1` fills a
channel with one message.  `DaemonCount = 2` at a time, any number in succession.  Once
two daemons have served together, no more is fetched, since what both would take
is outside the properties.

`CodexAdapter`: two calls, on the same thread or not, new or known; three connections
at a time (one live, one dead, one starting); `Attempts = 2` and `ContinueLimit = 1`
give a retry that works and one that is exhausted; at most two cancellations, resets and
deaths of the child while one call was made, one while two were.  Deaths of the child
with its context, which need no fault, are not counted.

The runs do not check deadlock: with the process down for good, the clock at
its bound, all TUIs gone or all commands of the bound given, the system may stop.

## Fairness

`FairSpec` is weakly fair to the clock, to the monitor goroutine (`PostTick`,
`Deadline`) and to the messages the loop takes (`HandleTick`, `Result`): the Go
scheduler runs every runnable goroutine, and the loop's select takes every sender
that waits.  A blocked loop disables the latter, as it does in the
program.  Agents, CLI processes and the human owe nothing, and neither is a
restart owed: a silent agent is exactly what the deadline is for.

`TelegramDaemon` is weakly fair to each TUI's client, each daemon's main goroutine and
each handler, all of them goroutines that are runnable or waiting for something
that has happened.  Users, signals, the exit timer and the poll loop owe nothing: a
daemon need not exit, and Telegram need not answer.

`CodexAdapter` is weakly fair to the goroutine of each call, to the arrival of a
cancellation, to the death of a child whose context is done (`exec.CommandContext`
kills it), to the end of its output, to the reader that delivers notifications, and
to a living server ending its turns, permission requests answered.  Nobody need call,
cancel or reset.  The last is the one assumption about a program that is not here: without
it a turn may run for ever, and the stage's deadline is what stops it.

`RepairLoopEnds` assumes none.  `Sessions`, `ProjectCycles` and `TodoProjection` state no
liveness: what a person repeats, or a process that may be dead would still do, is not owed.

## Proofs

Every invariant, action property and refinement that a run checks is also a theorem,
proved for every value of the constants that the named assumptions of its module
admit: any sets of processes, executions and findings, any numbers of cycles, stages,
sessions, TUIs, daemons, connections and calls, and any value of the bounds.  Beside
`StageLedger_proofs`, which has lemmas on operators, each proof module has an inductive
invariant `IInv`, lemmas on its actions, `Invariance` (`Spec => []IInv`), and the theorems that
follow from it.  Every `IInv` was checked by TLC, as invariants of a run, before it was proved.

**Stage.**  `IInv` conjoins the types, `LedgerInv` (the absent row is the one of
generation 0, and the checkpoint is not in the future, or a charge could run backwards),
`NeverOvercharged`, `HeldTokens` (which stopped ledgers may still have holders: those
paused for a human, closed, or continued), and `ClosingInv`: what a close in flight
has read exists and is not in the future, which is needed because `ClosePause` uses a
generation and a time of an earlier step.  The argument has two layers.
`StageLedger_proofs` shows for every transaction that it is a `LedgerStep`: what it
charges is covered by the elapsed time, its generation grows, and it grows whenever
the ledger stops for good, except in a failed close.  `StageExecution_proofs` shows that
every action is a `Move`, a ledger step on the rows together with what it may do to live
tokens, or a tick of the clock, and that both preserve `IInv`.  The action properties
follow from `LedgerStep`.  `EscalationStopsClock` strengthens `EscalatedStopsClock` to
`Parked`: the ledger of an Escalated or Blocked stage is neither active nor paused for a
human, or its answer would resume it, and nobody holds its generation; both unless a
start was overtaken.  `WatchHolds` uses `Parked` and needs more: the scheduler dispatches only
when nothing is live, so all live executions hold one token, what clears the monitor
stops that generation or drops them all, and a continuation leaves holders behind only
under an overtaken generation (`ContinuedIsOvertaken`).  `RevocationHolds` is `HeldTokens`
with that.

**Cycles.**  Rows that a call still holds count as if they were written; the
invariants of `CycleEngine_proofs` speak of both.  Types hold for any number of callers;
`OneStageRuns`, `StagesRunInOrder` and `ValidationIsCurrent` have the hypothesis
`OneCaller`, since two calls that overlap write over each other (the hazard at
`engine/engine.go:457`).  A validation is current because what makes it stale is reset by
the call that completes Implementation anew, all in the rows that call holds; where it
dies or Implementation is retried the histories `torn` and `retried` say so.

**A project's cycles.**  Who is within the lease is alone with it, so what an archive's
next steps rely on (`MoveInv`, `SealInv`, `IdeaInv`) changes under it only by what agents
write and by the directory a new cycle makes.  The destination of a move is empty,
and only the archiving process gives itself the claim, so evidence written after it is
`late`.  Without `raced` one process at most switches cycles, and it knows the one it
demotes; without `crossed` the lock's holder is the command that works under it.

**ToDos.**  Every step is one of a command's (`TodoMoves`), the file's (`FileSteps`) or
the engine's (`CycleSteps`), and these classes serve all invariants and the refinement,
`Implementation`.  `CurrentInv` is about a debt: the file is current, or some command has still to bring
it up to date (`Will`); the debt passes from the transaction to the candidate, from there
to the file, and to the command that changed the ToDos last.  `EndInv`, `PromotionInv`
(how many promotions saw the line) and `DeferInv` do the same for what a cycle's end, a
promotion and a deferral owe.  The proof needed `DeferredIsKept` and
`AdvancesAfterProjection` in a stronger form than the runs had, which they now have.

**Sessions.**  `BaseInv` is the types, with the fact that nobody refers to a session
before there is one.  `PendingAt` is about every TUI; the rest is for each TUI that is not
hasty: one item at most works for History (`LineAt`), no turn streams meanwhile (`TurnAt`),
chat and lease are of one session (`ChatAt`), what the line is to leave is the chat's
session (`PriorAt`), for what it opens it has left the chat's (`LeftAt`), and the two
properties (`HeldAt`, `BehindAt`).  A step of `p` keeps these for `p`; what another TUI or
the clock does is, for `p`, at most the loss of a lease that had expired.

**Telegram.**  While one daemon serves, a message is in one place: the hands of the poll
loop, one channel, or one row that waits or that a handler has read and not yet pushed
(`OnceInv`).  `NothingVanishes` is inductive beside the types and holds when two serve
as well.  That the free address and the order of addresses exist is proved by counting.

**Codex.**  The slot is exclusive, so who handles notifications or awaits is its holder
(`LinkInv`).  A call that gives up on a turn closes the connection first, so at a new
request nothing is left of a thread none of whose calls was cancelled, and the end of a
turn is the last a connection says of it (`TurnInv`).

| Module | Assumptions | States on which `IInv` was checked |
|---|---|---|
| `StageLedger_proofs`, `StageExecution_proofs` | `UnitsPerMsAssumption`, `StageExecutionAssumption` | 3,727,214, with `MaxCalls = 2` |
| `CycleEngine_proofs` | `CycleEngineAssumption`; `OneCaller` where named | 1,546,722 |
| `ProjectCycles_proofs` | `NoProcAssumption`, `BoundsAssumption` | 1,934,463 |
| `TodoProjection_proofs` | `IdsAssumption`, `BoundsAssumption` | 2,348,883 |
| `Sessions_proofs` | `NoneAssumption`, `StoredAssumption`, `TTLAssumption`, `HastyAssumption`, `BudgetsAssumption` | 2,042,601 |
| `TelegramDaemon_proofs` | `CountAssumption`, `ScenariosAssumption`, `CapAssumption` | 478,018 |
| `CodexAdapter_proofs` | `BoundsAssumption`, `LimitsAssumption` | 417,642 |

The assumptions say that bounds are numbers, that what the code counts from one is not
zero, that no name is used for two things (a finding is not a number, "none" is not a session or a
process), and that the instances given are instances.  None restricts what the code does.

Only model-checked: the liveness properties `DeadlineIsEnforced`, `RepairLoopEnds`,
`Reconnects` and `EveryExecuteEnds`, which are out of the prover's reach (what
eventually happens, fairness, ENABLED).  No module declares a recursive operator.

## Disagreements between the code and what is said of it

Four runs show one each; `PROJECT.json` quotes the lines.

| Run | What the documents say | What the code does |
|---|---|---|
| `StageRestart` | a restart does not leave a stage Running indefinitely | recovery looks at active ledgers; a crash during a human wait leaves the stage Running and its ledger waiting |
| `StageLoopBlocked` | `Update` never blocks | when a pause finds the time spent, the loop sends a message to itself |
| `CycleStranded` | `/hero-back` is available when Implementation is Escalated; an expired balance is continued by an explicit increase | the reset makes the stage Waiting and keeps its expired or interrupted ledger: it cannot start, and continuing or increasing needs an Escalated stage |
| `CodexPromptLost` | after a drop in mid-turn the adapter resumes the session and continues the interrupted turn | the child dies with the context of the `Execute` that started it; the next call takes the closed connection for a live one, reconnects at `turn/start`, and sends the continuation instead of the user's prompt |

The rest was met while modelling.  The models behave like the code in each, and where a
property would forbid it, the property says that it leaves it out.

**Stage.**

* Every checkpoint loses up to a millisecond, the one-shot deadline fires while time is
  still on the books, and the registered monitor is never replaced: with
  `UnitsPerMs = 2`, `DeadlineIsEnforced` fails.
* The failed close with findings and the empty close do not stop the ledger, which
  goes on charging a stopped stage (PRD-C17-001, FR-09, excludes idle and blocked time).
* An escalation that commits between the check of `StartStage` (`engine/engine.go:146`) and
  its `BeginStageBudget` (`:158`) is undone: the transaction looks at the ledger only and
  reactivates it.  If the starter dies before `UpdateStage` (`:173`) the stage stays
  Escalated with a running clock; otherwise its stale row makes it Running again.
* A failed close puts the ledger in `blocked` without a new generation
  (`store/stage_budgets.go:286-289`), so the orchestrator that closed it, or an agent still
  running, holds the current generation of a blocked ledger.  Its results are refused by
  the state until the next start takes a new generation; a continuation takes none.
* A result rejected for a paused or interrupted ledger leaves `streaming` set with nothing
  in flight: the scheduler is idle until the user acts.

The following are about the contents of reports and task lists, or about gates,
which the model leaves open; they were met while reading the code for it.

* A wave is dispatched with the tasks of all active agents, but judged with those of the
  agents that ran (`expected` in `validateImplementationChecklistPlan`,
  `tui/stage_handoff.go:1114`, `1159`).  If a task deferred by `[after:...]` belongs to an
  agent that had nothing to do in this wave, its owner is "not active", the plan is
  invalid, and the verified claims of the wave are not recorded, nor is the stage escalated:
  the next wave is the same again.  `docs/architecture/ADR-C17-003-implementation-gate-progress.md:22-23`
  has every verified claim recorded, and a deferred task "is not an error".  The tests have one agent.
* A wave that records the last task with `tests_passed` false counts as partial progress;
  the next dispatch finds no work and closes Implementation as completed
  (`tui/stage_handoff.go:354-380`), although `tests_passed` "gates stage completion" (the same ADR).
* `handleReproGateResult` tells a stale verdict by stage and wave number, and waves are
  numbered from 1 again after every clear: a late verdict can be applied to a new wave 1.
* `nextReportRetry` is "scoped to a stage so moving on always starts fresh": a second
  run of the same stage inherits the retries the first one spent.
* While the reproduction gate runs, a follow-up's output is taken for an unexpected report
  and the wave is rejected; neither the gate's result nor the browser preparation's looks at
  `m.executes`, so a user's turn in flight is dropped by the next dispatch.
* `tasks.md` is marked before the findings; if those fail the tasks stay marked.
  `MarkFindingDoneTx` does not look at the status: a finding deferred meanwhile becomes done.

**Cycles and archive.**

* An archive of an active cycle that is repeated after midnight uses a new name; the evidence stays
  under the first day's and an empty directory is archived.
* Two commands that cross in `AcquireLock` both proceed, and the holder `cli-<pid>` lets
  one process in twice.  A dead command's lock is recovered only when it is an archive's claim.
* `CreateCycle` sets the previous cycle to archived without moving its evidence or
  releasing its ToDos.

**ToDos.**

* An operation's key is the prefix, the cycle and the ids, so adopting, rejecting and
  adopting again finds a verified operation and leaves the file stale (`reused`).
* The candidate of a dead command may be installed after newer changes (`resumed`); when another
  operation overwrote the file meanwhile, the first stays `installed` for ever.
* After a crash between `AdoptTodo` and its operation's row, the retry is refused: the
  ToDo is adopted, and the projection is owed (`interrupted`).
* The cycle whose ToDos are released or resolved is read before the transaction
  (`cycle/handoff.go:346`, `359`).  (The model reads it in the transaction, `Releases`: a
  cycle that another command makes active in between is not seen as such.)
* ToDos are released before an engine call that may fail; the cycle then goes on without them.
* `CreateCycle`, `Resume`, an archive of an active cycle, and completion with deferred
  ToDos leave ToDos adopted by a cycle that has ended (`openspec/specs/durable-todos/spec.md:42`,
  `runtime-workflow-execution/spec.md:269-270`).
* Finding ids are numbered per cycle (`store/findings.go:649`) and are the ToDo's global
  primary key: the second cycle's deferred finding gets no ToDo of its own
  (`durable-todos/spec.md:9-13`).
* Completing a line of the user's again after a crash makes a second ToDo of it.
* The disposition of a cycle deferred in several commands lists the last one's ids.
* Of two overlapping `add-todo`, the first to finish completes the cycle before the other's
  ToDo is in the file; and after a death a repeated command for one finding may complete
  the cycle although another, deferred before, was never projected.

**Sessions** (`session-continuation/spec.md:9`: "Only the owner MAY append…").

* Writes, archive and delete never ask for the lease.  A TUI that lost it saves its queue.
* Reopening the current session when its exact resume fails releases the chat's own lease.
  A failed import leaves the chat whose lease was already left.
* `/new-chat` does not reset the loss; a late failure of persistence after it, or after
  opening another session, puts the old chat back; so does a late transcript.
* That late failure also gives a chat that is empty (after `/new-chat`, or while History
  loads a transcript) the session of its events (`tui/conversation.go:2162-2171`); a pending
  release of that session is then dropped as the chat's own, and the next binding leaves
  its lease until it expires.  The proof of `NoLeaseLeftBehind` found this one: it takes more
  commands than the run has.
* The restore after a stale clean-up repeats at once while the session is busy.
* The binding of a second turn and the restored transcript clear the loss without
  looking at the lease.  A failed transcript leaves the lease with an empty chat.
* A binding that arrives after its turn was cancelled is ignored and strands the lease.
* Between acquiring and bumping the epoch a stale release may take the lease away, and a
  stale clean-up may take one again.  A late "released" cancels a later retry; a
  late "lost" gives up a lease held again; a late `Attached` overwrites another.
* Deleting the chat's session after a late failure of persistence drops another lease.
* An import dialog left open longer than the expiry holds a lease nobody renews.
* An open in flight while a turn is submitted leaves `streaming` set.  A finished fork
  never resets the dialog, and Enter twice forks twice.
* `beginHeroStart` resets the chat without releasing its lease (`tui/app.go:1476`).
* A failed batch is queued behind later events; a reset drops what is unsaved; the keys
  `tui:turn:ex-<n>` are reused after a restart and replace older rows; a failed purge is
  reported as a failed deletion.  (The content of batches is not in the model.)

**Telegram.**

* Dial, remove and listen are not atomic, and a daemon that closes removes the socket
  file by name, a successor's too: two daemons may serve at once
  (`telegram/ipc/socket.go:14-15` and ADR-C09-002:19 say one per user).  Both then poll,
  their checks and marks interleave, both may give one address and flush one row.
* A daemon that never had a client never exits.  A client that registers between the
  timer's check and the shutdown is cut off and reconnects.
* A daemon whose socket file another removes between `Listen` and `Chmod`
  (`telegram/ipc/socket.go:28-35`) gives up, and so does one that cannot write its pid
  file.  (Not in the model: `Bind` succeeds or finds the file there.)
* `ExpirePending` has no caller outside tests, although a message expires after
  twenty-four hours in the specification of the daemon.
* An update is marked before it is handled: a crash loses the message.  A live delivery
  has no row in the queue.  A flush marks before it pushes, drops what the
  channel does not take, and never sends a delivered row again, although the
  specification of the protocol waits for `ack_delivery`.
* Rows queued because the channel was full, or while the TUI registers, stay until
  the next registration.  A cancellation between a flush's read and its mark is
  overwritten.  A live push during a flush overtakes what was queued.
* A plain message whose instance leaves between the two lookups is queued, not refused (ADR-063).
* After a daemon's restart an address, and the selection, may be another TUI's; `/select`
  counts in the list of the moment.
* A death between `SendPhoto` and `FinishImageDelivery` sends an image again.  (Not in the model.)

**Codex.**

* New threads fail at `thread/start` on a closed connection until some known thread's turn
  reconnects.
* A cancellation before the answer to `turn/start` leaves a turn nobody ends; the late
  end of an interrupted turn completes the next `Execute` on its thread.
* `clearDeadAppServer` clears whatever connection is there, one that another call has
  just started included; a turn that completed as the connection closed may be continued again.
* `Close` and the reader may both close a channel or send on a closed one, which
  panics.  (No state of the model stands for a panic.)

## What is not modelled

Of the stage machine: a second caller that overlaps the first, the coverage plan
and metrics a start or close also writes, the changes of limits by a
synchronisation, and human waits.  Of the execution of a stage: the contents of
reports (their verdict is a choice), which agents a wave needs, the numeric caps on
waves and retries (reaching one is a choice), the Research session, several stages
sharing the one monitor, and two TUIs on one project.  Stages without a timeout keep
`NoBudget` throughout and are not reached by `StartBegin`.

Of cycles and archive: symbolic links, ownership checks and the digests of files.  Of
findings: fingerprints, rounds, evidence, and their division among agents, which are
string and set computations of one call.  Of ToDos: the text of other sections, several
ToDos completed by one command (it is several commands), read-only queries.  Of
sessions: order, content and deduplication of events, assets and native bindings,
streaming deltas, the grace of a cancellation, quitting, recovery of interrupted
sessions, renaming, restoring from the archive.  Of Telegram: pairing and credentials, control
commands, notifications and images, the pid file, a change of abbreviation.  Of Codex: media,
properties, authentication, permission answers, the registry of orphaned children, and
turns that complete in their own answer.

The opencode, claude and cursor adapters follow the protocols of three other programs;
what is theirs and not the programs' is translation of events and files.  Rendering and
input of the TUI, parsing and validation of configuration and reports, media, file
operations of installation and upgrade, and the command line are sequential and hold no
state between calls; a large share of the repository's lines is there, and of the rest
of `tui/app.go`, `conversation.go` and `stage_handoff.go` much is layout and the wording of
prompts.  Components with status `not_modelled` in `PROJECT.json` say so in their notes.

## Plan

The modules planned are written, and every safety property a run checks is proved.  Left are

1. the safety half of the liveness properties, which is a matter of invariants: in
   `StageExecution`, that an overrun has a tick, a deadline or a result on its way (what
   remains is fairness); in `CodexAdapter`, that a call waits only for a slot that
   somebody holds, or for a turn that its server runs;
2. abstract specifications of the lease and of the queue, as `TodoLifecycle` is one of the
   ToDos, with `Sessions` and `TelegramDaemon` shown to implement them;
3. the windows that `history` leaves out, where the code closes one: the property without
   that exclusion, and its proof.

--------------------------- MODULE StageExecution ---------------------------
(***************************************************************************)
(* One timed stage of a cycle, run by the TUI scheduler.                   *)
(*                                                                         *)
(* Three parties act on the stage.  The TUI dispatches executions to       *)
(* harness agents, captures the ledger's generation in each as its token,  *)
(* watches the deadline and decides what a finished wave means             *)
(* (internal/tui/stage_budget.go, stage_handoff.go, conversation.go).  The *)
(* agents work, ask the human, finish.  CLI processes issued by the        *)
(* orchestrator's turn start and close the stage, the human continues or   *)
(* reworks it (internal/engine/engine.go).  All of them meet in two        *)
(* database rows, the stage and its ledger; every store call is one        *)
(* transaction, so StartStage and CloseStage are several steps here.       *)
(*                                                                         *)
(* The TUI is one Bubble Tea loop: its goroutines hand it messages over an *)
(* unbuffered channel that only the loop receives from.  A crash stops the *)
(* TUI and the agents it runs; the rows survive, and so may a CLI process. *)
(***************************************************************************)
EXTENDS StageLedger, FiniteSets

CONSTANTS Exec,            \* execution identifiers; reused once nothing refers to them
          Limit,           \* the stage's timeout in milliseconds
          Additional,      \* milliseconds a --budget-increase adds
          MaxIterations,   \* the stage's max_iterations
          MaxExtra,        \* bound: extra iterations /hero-continue may grant
          MaxGen,          \* bound: no start or increase goes beyond this generation
          MaxCalls,        \* bound: 2 when a start and a close may be in flight together
          MaxTime          \* bound: the clock stops here

ASSUME StageExecutionAssumption ==
    /\ Limit \in Nat \ {0} /\ Additional \in Nat \ {0}
    /\ MaxIterations \in Nat \ {0} /\ MaxExtra \in Nat /\ MaxGen \in Nat /\ MaxTime \in Nat
    /\ MaxCalls \in {1, 2}

VARIABLES
    now,         \* the wall clock, in units
    budget,      \* row of stage_budgets
    stage,       \* row of stages: status, iteration, extra iterations
    starting,    \* a StartStage call in flight: how far it is, the row it read
    closing,     \* a CloseStage call in flight: how far it is, what it read
    loop,        \* the TUI: its loop takes messages, is blocked in a send to
                 \* itself, or the process is down
    executes,    \* m.executes: the acceptance set
    handoff,     \* m.stageHandoffLive: a wave of stage agents is out, or its
                 \* last result was accepted and the gate has to judge it
    streaming,   \* m.streaming
    cancelling,  \* a user cancellation awaits streamCancelDoneMsg
    monitor,     \* the budget monitor goroutine
    tick,        \* generation of the stageBudgetTickMsg being sent, 0 for none
    activeTime,  \* history: how long the ledger has been active
    overtaken    \* history: the generation a start set running after its stage
                 \* had stopped waiting, 0 when none did

rows == <<budget, stage>>
tui  == <<loop, executes, handoff, streaming, cancelling, monitor, tick>>
vars == <<now, budget, stage, starting, closing, tui, activeTime, overtaken>>

Idle == [state |-> "idle", gen |-> 0, waiting |-> FALSE]
Executions == [state : {"idle", "running", "done", "lost"}, gen : Nat, waiting : BOOLEAN]

NoMonitor == [gen |-> 0, deadline |-> 0, armed |-> FALSE]

Stages == [status : StageStatuses, iteration : Nat, extra : Nat]
NewStage == [status |-> "Waiting", iteration |-> 0, extra |-> 0]
NotStarting == [pc |-> "idle", stage |-> NewStage]
Starts == [pc : {"idle", "read", "exhausted", "admitted", "begun"}, stage : Stages]
NotClosing == [at |-> 0, gen |-> 0, pc |-> "idle", stage |-> NewStage]
Closings == [at : Nat, gen : Nat, stage : Stages,
             pc : {"idle", "read", "accepted", "closing", "failing"}]

TypeOK ==
    /\ now \in Nat /\ activeTime \in Nat /\ overtaken \in Nat
    /\ budget \in Ledger
    /\ stage \in Stages
    /\ starting \in Starts
    /\ closing \in Closings
    /\ loop \in {"running", "blocked", "down"} /\ handoff \in {"none", "out", "gate"}
    /\ streaming \in BOOLEAN /\ cancelling \in BOOLEAN
    /\ executes \in [Exec -> Executions]
    /\ monitor \in [gen : Nat, deadline : Nat, armed : BOOLEAN]
    /\ tick \in Nat

-----------------------------------------------------------------------------
Live(ex, e) == ex[e].state # "idle"
LiveExecutes == {e \in Exec : Live(executes, e)}

Up == loop = "running"

Row == [budget |-> budget, status |-> stage.status]

\* Commit what a ledger transaction computed.
Commit(r) == budget' = r.budget /\ stage' = [stage EXCEPT !.status = r.status]

Init ==
    /\ now = 0 /\ activeTime = 0 /\ overtaken = 0
    /\ budget = NoBudget
    /\ stage = NewStage
    /\ starting = NotStarting /\ closing = NotClosing
    /\ loop = "running" /\ handoff = "none" /\ streaming = FALSE /\ cancelling = FALSE
    /\ executes = [e \in Exec |-> Idle]
    /\ monitor = NoMonitor
    /\ tick = 0

ClockTick ==
    /\ now < MaxTime
    /\ now' = now + 1
    /\ activeTime' = activeTime + (IF budget.state = "active" THEN 1 ELSE 0)
    /\ UNCHANGED <<rows, starting, closing, tui, overtaken>>

-----------------------------------------------------------------------------
(* Engine.StartStage, by the scheduler or by `hero stage start`: it reads   *)
(* the stage, looks at the ledger, begins it and writes back the row read.  *)

StartRead ==
    /\ starting.pc = "idle" /\ (MaxCalls = 2 \/ closing.pc = "idle")
    /\ stage.status = "Waiting" /\ budget.gen <= MaxGen
    /\ starting' = [pc |-> "read", stage |-> stage]
    /\ UNCHANGED <<now, rows, closing, tui, activeTime, overtaken>>

\* budgetExhausted: the iteration budget of the row read, then the time budget.
Exhausted(row) ==
    \/ row.iteration >= MaxIterations + row.extra
    \/ Exists(budget) /\ (budget.state = "expired" \/ OutOfTime(budget, now))

StartCheck ==
    /\ starting.pc = "read"
    /\ starting' = IF Exhausted(starting.stage)
                   THEN [NotStarting EXCEPT !.pc = "exhausted"]
                   ELSE [starting EXCEPT !.pc = "admitted"]
    /\ UNCHANGED <<now, rows, closing, tui, activeTime, overtaken>>

StartExhausted ==
    /\ starting.pc = "exhausted"
    /\ Commit(Escalate(Row, now))
    /\ starting' = NotStarting
    /\ UNCHANGED <<now, closing, tui, activeTime, overtaken>>

\* The ledger's transaction does not look at the stage: what happened to it
\* since the check is overtaken.  An interrupted or expired ledger refuses.
StartBegin ==
    LET r == Begin(Row, Limit, now) IN
    /\ starting.pc = "admitted" /\ r.budget.gen <= MaxGen
    /\ Commit(r)
    /\ starting' = IF Begun(Row, Limit, now) THEN [starting EXCEPT !.pc = "begun"]
                   ELSE NotStarting
    /\ overtaken' = IF Begun(Row, Limit, now) /\ stage.status # "Waiting"
                    THEN r.budget.gen ELSE overtaken
    /\ UNCHANGED <<now, closing, tui, activeTime>>

\* The row read first is written back whole.
StartWrite ==
    /\ starting.pc = "begun"
    /\ stage' = [starting.stage EXCEPT !.status = "Running", !.iteration = @ + 1]
    /\ starting' = NotStarting
    /\ UNCHANGED <<now, budget, closing, tui, activeTime, overtaken>>

\* The starting process dies or gives up after an error.
StartDies ==
    /\ starting.pc # "idle"
    /\ starting' = NotStarting
    /\ UNCHANGED <<now, rows, closing, tui, activeTime, overtaken>>

-----------------------------------------------------------------------------
(* The monitor.  It ticks while armed; its one-shot deadline posts a last  *)
(* tick and ends the goroutine, but not the monitor's registration.        *)

\* Faulty variant: a registered monitor is kept whatever it watches.
MonitorForAny(b, gen, mon) ==
    IF mon.gen # 0 THEN mon
    ELSE [gen |-> gen, armed |-> TRUE,
          deadline |-> now + (IF b.gen = gen /\ b.state = "active"
                              THEN Remaining(b, now) ELSE 0)]

\* startStageBudgetMonitor: keyed by generation, a registered key is kept.
MonitorFor(b, gen, mon) ==
    IF mon.gen = gen THEN mon
    ELSE [gen |-> gen, armed |-> TRUE,
          deadline |-> now + (IF b.gen = gen /\ b.state = "active"
                              THEN Remaining(b, now) ELSE 0)]

PostTick ==
    /\ monitor.armed /\ tick = 0
    /\ tick' = monitor.gen
    /\ UNCHANGED <<now, rows, starting, closing, loop, executes, handoff,
                   streaming, cancelling, monitor, activeTime, overtaken>>

Deadline ==
    /\ monitor.armed /\ now >= monitor.deadline /\ tick = 0
    /\ tick' = monitor.gen
    /\ monitor' = [monitor EXCEPT !.armed = FALSE, !.deadline = 0]
    /\ UNCHANGED <<now, rows, starting, closing, loop, executes, handoff,
                   streaming, cancelling, activeTime, overtaken>>

\* cancelStageBudgetExecutions(timeout): expire the generation if nothing did,
\* drop every execution holding it, and stop watching.
Held(gen) == {e \in Exec : Live(executes, e) /\ executes[e].gen = gen}

CancelGeneration(r, gen) ==
    LET dropped == [e \in Exec |-> IF e \in Held(gen) THEN Idle ELSE executes[e]]
        left == {e \in Exec : Live(dropped, e)}
    IN /\ Commit(Advance(r, gen, now))
       /\ executes' = dropped
       /\ monitor' = NoMonitor
       /\ streaming' = IF Held(gen) = {} THEN streaming ELSE left # {}
       /\ handoff' = IF Held(gen) # {} /\ left = {} THEN "none" ELSE handoff

\* handleStageBudgetTick: checkpoint, then look at what state that left.
HandleTick ==
    LET r == Advance(Row, tick, now)
        expired == budget.gen = tick /\ r.budget.state = "expired"
    IN
    /\ Up /\ tick > 0
    /\ tick' = 0
    /\ \/ /\ tick # monitor.gen                 \* a stale key
          /\ UNCHANGED <<rows, executes, handoff, streaming, monitor>>
       \/ /\ tick = monitor.gen /\ Accepts(Row, tick, now)
          /\ Commit(r)
          /\ UNCHANGED <<executes, handoff, streaming, monitor>>
       \/ /\ tick = monitor.gen /\ expired
          /\ CancelGeneration(r, tick)
       \/ /\ tick = monitor.gen                 \* paused, or a newer generation
          /\ ~Accepts(Row, tick, now) /\ ~expired
          /\ monitor' = NoMonitor
          /\ UNCHANGED <<rows, executes, handoff, streaming>>
    /\ UNCHANGED <<now, starting, closing, loop, cancelling, activeTime, overtaken>>

-----------------------------------------------------------------------------
(* Executions.                                                             *)

\* captureActiveStageBudget: only an active ledger yields a token.
Token(b) == IF b.state = "active" THEN b.gen ELSE 0

\* Start the executions S for the stage whose ledger is b.
DispatchTo(b, S) ==
    /\ executes' = [e \in Exec |-> IF e \in S
                      THEN [state |-> "running", gen |-> Token(b), waiting |-> FALSE]
                      ELSE executes[e]]
    /\ streaming' = TRUE
    /\ monitor' = IF Token(b) > 0 THEN MonitorFor(b, Token(b), monitor) ELSE monitor

\* The scheduler has nothing in flight; a finished wave waits to be judged.
Scheduled == Up /\ handoff = "none" /\ ~streaming /\ ~cancelling /\ LiveExecutes = {}
WaveDone == Up /\ handoff = "gate"

\* startStageAgentSessions from the "never idle" gate, on a Running stage.
DispatchWave(S) ==
    /\ Scheduled /\ stage.status = "Running" /\ S # {}
    /\ DispatchTo(budget, S)
    /\ handoff' = "out"
    /\ UNCHANGED <<now, rows, starting, closing, loop, cancelling, tick, activeTime,
                   overtaken>>

\* refreshStageBudgetWait after the executions became ex and the rows r: the
\* clock pauses when every tracked execution waits for a human and runs again
\* when one of them is runnable.  When the pause finds no time left, the loop
\* sends stageBudgetExpiredMsg to itself: nobody receives it.
Tracked(ex) == {e \in Exec : Live(ex, e) /\ ex[e].gen > 0}
Runnable(ex) == \E e \in Tracked(ex) : ~ex[e].waiting
AllWait(ex) == Tracked(ex) # {} /\ ~Runnable(ex)

RefreshWait(r, ex) ==
    LET b == r.budget
        pausing  == AllWait(ex) /\ b.state = "active"
        resuming == Runnable(ex) /\ b.state = "waiting" /\ b.pause = "human"
        p == IF pausing THEN Pause(r, b.gen, "waiting", "human", now)
             ELSE IF resuming THEN Resume(r, b.gen, now) ELSE r
    IN /\ Commit(p)
       /\ loop' = IF pausing /\ p.budget.state = "expired" THEN "blocked" ELSE loop
       /\ monitor' = IF pausing THEN (IF loop' = "blocked" THEN monitor ELSE NoMonitor)
                     ELSE IF resuming /\ p.budget.state = "active"
                          THEN MonitorFor(p.budget, p.budget.gen, monitor)
                          ELSE monitor

\* An agent asks a permission or a question; the human answers.
SetWaiting(e, waiting) ==
    /\ Up /\ executes[e].state = "running" /\ executes[e].gen > 0
    /\ executes[e].waiting # waiting
    /\ executes' = [executes EXCEPT ![e].waiting = waiting]
    /\ RefreshWait(Row, executes')
    /\ UNCHANGED <<now, starting, closing, handoff, streaming, cancelling, tick,
                   activeTime, overtaken>>

\* The harness returns, with a report or an error; executeDoneMsg is on its way.
Finish(e) ==
    /\ executes[e].state = "running"
    /\ executes' = [executes EXCEPT ![e].state = "done"]
    /\ UNCHANGED <<now, rows, starting, closing, loop, handoff, streaming,
                   cancelling, monitor, tick, activeTime, overtaken>>

\* acceptStageExecution; an execution without a token is always accepted.
Accepted(e) == executes[e].gen = 0 \/ Accepts(Row, executes[e].gen, now)
AfterAccept(e) == IF executes[e].gen = 0 THEN Row ELSE Advance(Row, executes[e].gen, now)

AcceptResult(e) ==
    LET ex == [executes EXCEPT ![e] = Idle] IN
    /\ Up /\ executes[e].state = "done" /\ Accepted(e)
    /\ executes' = ex
    /\ streaming' = (\E o \in Exec : Live(ex, o))
    /\ handoff' = IF handoff = "out" /\ \A o \in Exec : ~Live(ex, o)
                  THEN "gate" ELSE handoff
    /\ IF executes[e].gen > 0 THEN RefreshWait(AfterAccept(e), ex)
       ELSE UNCHANGED <<rows, loop, monitor>>
    /\ UNCHANGED <<now, starting, closing, cancelling, tick, activeTime, overtaken>>

\* rejectExpiredStageResult: by the state of the ledger now.
RejectTimedOut(e) ==
    LET r == AfterAccept(e) IN
    /\ Up /\ executes[e].state = "done" /\ ~Accepted(e)
    /\ r.budget.state = "expired" \/ OutOfTime(r.budget, now)
    /\ CancelGeneration(r, executes[e].gen)
    /\ UNCHANGED <<now, starting, closing, loop, cancelling, tick, activeTime, overtaken>>

RejectStopped(e) ==
    /\ Up /\ executes[e].state = "done" /\ ~Accepted(e)
    /\ budget.state \in {"interrupted", "blocked", "waiting"}
    /\ ~OutOfTime(budget, now)
    /\ executes' = [executes EXCEPT ![e] = Idle]
    /\ UNCHANGED <<now, rows, starting, closing, loop, handoff, streaming,
                   cancelling, monitor, tick, activeTime, overtaken>>

\* A newer generation is active: the message is consumed, the entry stays.
RejectSuperseded(e) ==
    /\ Up /\ executes[e].state = "done" /\ ~Accepted(e)
    /\ budget.state = "active" /\ ~OutOfTime(budget, now)
    /\ executes' = [executes EXCEPT ![e].state = "lost"]
    /\ UNCHANGED <<now, rows, starting, closing, loop, handoff, streaming,
                   cancelling, monitor, tick, activeTime, overtaken>>

-----------------------------------------------------------------------------
(* resumeOrchestratorAfterStageHandoff: what the finished wave means.      *)

\* EscalateIfStageTimedOut.
TimeoutChecked ==
    IF /\ stage.status \notin {"Completed", "Skipped", "Escalated"}
       /\ Exists(budget)
       /\ budget.state = "expired" \/ OutOfTime(budget, now)
    THEN Escalate(Row, now) ELSE Row

\* Partial progress: the timeout is checked, and a stage that is still Running
\* gets its next wave at once; otherwise the orchestrator's turn follows.
NextWave(S) ==
    LET r == TimeoutChecked IN
    /\ WaveDone /\ S # {}
    /\ r.status = "Running" \/ Cardinality(S) = 1
    /\ Commit(r)
    /\ DispatchTo(r.budget, S)
    /\ handoff' = IF r.status = "Running" THEN "out" ELSE "none"
    /\ UNCHANGED <<now, starting, closing, loop, cancelling, tick, activeTime, overtaken>>

\* A rejected report or plan: the same agents again, without that check.
RetryWave(S) ==
    /\ WaveDone /\ stage.status = "Running" /\ S # {}
    /\ DispatchTo(budget, S)
    /\ handoff' = "out"
    /\ UNCHANGED <<now, rows, starting, closing, loop, cancelling, tick, activeTime,
                   overtaken>>

\* The orchestrator's turn, an execution like any other: it may close the
\* stage, or leave it Running for intervention.  The scheduler gives it after a
\* wave or a failed preparation, a command of the user at any quiet moment.  It
\* belongs to this stage while this stage is Running, else perhaps to another.
Orchestrate(e) ==
    /\ WaveDone \/ Scheduled
    /\ \E b \in {budget, NoBudget} :
          (stage.status = "Running" => b = budget) /\ DispatchTo(b, {e})
    /\ handoff' = "none"
    /\ UNCHANGED <<now, rows, starting, closing, loop, cancelling, tick, activeTime,
                   overtaken>>

\* CloseStageFailedWithFindings: the stage fails and the loop-back returns it
\* to Waiting in the same transaction; the ledger is not part of it.  The turn
\* that follows belongs to the stage the loop-back went to.
FailWithFindings(e) ==
    /\ WaveDone /\ stage.status = "Running"
    /\ stage' = [stage EXCEPT !.status = "Waiting"]
    /\ DispatchTo(NoBudget, {e})
    /\ handoff' = "none"
    /\ UNCHANGED <<now, budget, starting, closing, loop, cancelling, tick,
                   activeTime, overtaken>>

\* CloseStageBlockedWithReport: the scheduler stops.  An expiry is committed,
\* the report then refused and the orchestrator's turn follows.  A report of
\* blocked preparation gives its iteration back.
BlockWithReport(preparation, e) ==
    LET r == BlockByReport(Row, now) IN
    /\ WaveDone /\ stage.status = "Running" /\ ~BlockRefused(Row)
    /\ handoff' = "none"
    /\ \/ /\ r.budget.state = "expired"
          /\ Commit(r)
          /\ DispatchTo(r.budget, {e})
       \/ /\ r.budget.state # "expired"
          /\ budget' = r.budget
          /\ stage' = [stage EXCEPT !.status = "Blocked",
                         !.iteration = IF preparation /\ @ > 0 THEN @ - 1 ELSE @]
          /\ monitor' = NoMonitor
          /\ UNCHANGED <<executes, streaming>>
    /\ UNCHANGED <<now, starting, closing, loop, cancelling, tick, activeTime, overtaken>>

\* A report or plan rejected too often: EscalateStage, then a turn.
EscalateWave(e) ==
    LET r == IF stage.status \in {"Completed", "Skipped", "Escalated"} THEN Row
             ELSE Escalate(Row, now) IN
    /\ WaveDone
    /\ Commit(r)
    /\ DispatchTo(r.budget, {e})
    /\ handoff' = "none"
    /\ UNCHANGED <<now, starting, closing, loop, cancelling, tick, activeTime, overtaken>>

\* What startStageAgentSessions may do instead of dispatching a wave.
Preparing == stage.status = "Running" /\ (Scheduled \/ (WaveDone /\ TimeoutChecked = Row))

\* Findings at their round cap: EscalateStage and no turn.
EscalateStalled ==
    /\ Preparing
    /\ Commit(Escalate(Row, now))
    /\ handoff' = "none"
    /\ UNCHANGED <<now, starting, closing, loop, executes, streaming, cancelling,
                   monitor, tick, activeTime, overtaken>>

\* CloseImplementationWhenAssignmentEmpty, then the orchestrator's turn, which
\* captures this ledger unless another stage comes first.
CloseEmpty(e) ==
    /\ Preparing
    /\ stage' = [stage EXCEPT !.status = "Completed"]
    /\ \E b \in {budget, NoBudget} : DispatchTo(b, {e})
    /\ handoff' = "none"
    /\ UNCHANGED <<now, budget, starting, closing, loop, cancelling, tick,
                   activeTime, overtaken>>

-----------------------------------------------------------------------------
(* Engine.CloseStage: it reads the stage, accepts, pauses and writes back    *)
(* the row read, each a transaction of its own.                             *)

CloseRead ==
    /\ closing.pc = "idle" /\ (MaxCalls = 2 \/ starting.pc = "idle")
    /\ stage.status = "Running"
    /\ closing' = [NotClosing EXCEPT !.pc = "read", !.stage = stage]
    /\ UNCHANGED <<now, rows, starting, tui, activeTime, overtaken>>

CloseAccept ==
    /\ closing.pc = "read" /\ budget.state = "active"
    /\ Commit(Advance(Row, budget.gen, now))
    /\ closing' = IF Accepts(Row, budget.gen, now)
                  THEN [closing EXCEPT !.pc = "accepted", !.gen = budget.gen, !.at = now]
                  ELSE NotClosing
    /\ UNCHANGED <<now, starting, tui, activeTime, overtaken>>

\* Engine.acceptAndPauseStageBudget uses the time it read before accepting.  A
\* failed close blocks the ledger, and like the other keeps its generation.
ClosePause ==
    \E failed \in BOOLEAN :
       LET r == IF failed THEN Pause(Row, closing.gen, "blocked", "failed", closing.at)
                ELSE Pause(Row, closing.gen, "waiting", "closed", closing.at)
       IN
       /\ closing.pc = "accepted"
       /\ Commit(r)
       /\ closing' = IF PauseRefused(Row, closing.gen) THEN NotClosing
                     ELSE [NotClosing EXCEPT !.pc = IF failed THEN "failing" ELSE "closing",
                                             !.stage = closing.stage]
       /\ UNCHANGED <<now, starting, tui, activeTime, overtaken>>

CloseWrite ==
    /\ \/ closing.pc = "failing" /\ stage' = [closing.stage EXCEPT !.status = "Failed"]
       \/ /\ closing.pc = "closing"
          /\ \E status \in {"Completed", "PendingApproval"} :
                stage' = [closing.stage EXCEPT !.status = status]
    /\ closing' = NotClosing
    /\ UNCHANGED <<now, budget, starting, tui, activeTime, overtaken>>

CloseDies ==
    /\ closing.pc # "idle"
    /\ closing' = NotClosing
    /\ UNCHANGED <<now, rows, starting, tui, activeTime, overtaken>>

-----------------------------------------------------------------------------
(* The human.                                                              *)

\* Reject, or the loop-back of a later stage.
Rework ==
    /\ stage.status \in {"PendingApproval", "Completed", "Failed"}
    /\ stage' = [stage EXCEPT !.status = "Waiting"]
    /\ UNCHANGED <<now, budget, starting, closing, tui, activeTime, overtaken>>

\* prepareContinueBudget with --budget-increase; a Running stage that ran out
\* of time is expired, and so escalated, first.
IncreaseBudget ==
    LET overdue == stage.status = "Running" /\ Exists(budget) /\ OutOfTime(budget, now)
        r == IF overdue THEN Advance(Row, budget.gen, now) ELSE Row
    IN
    /\ Up /\ ~streaming /\ budget.gen < MaxGen
    /\ r.status = "Escalated" /\ ~IncreaseRefused(r, now)
    /\ Commit(Increase(r, Additional, now))
    /\ UNCHANGED <<now, starting, closing, tui, activeTime, overtaken>>

\* Faulty variant: the continuation also gives the iteration back.
ContinueRefundsIteration ==
    LET r == ContinueBudget(Row, now) IN
    /\ stage.status \in {"Escalated", "Blocked"}
    /\ stage.extra < MaxExtra /\ budget.gen <= MaxGen
    /\ Exists(budget) => ~ContinueRefused(Row) /\ ~OutOfTime(budget, now)
    /\ budget' = r.budget
    /\ stage' = [stage EXCEPT !.status = "Waiting", !.extra = @ + 1, !.iteration = @ - 1]
    /\ UNCHANGED <<now, starting, closing, tui, activeTime, overtaken>>

\* Engine.Continue: one more iteration for an escalated stage; a blocked one
\* goes through continueBlockedInCycle, which does the same to these rows.
\* An expired or active ledger refuses.
Continue ==
    LET r == ContinueBudget(Row, now) IN
    /\ stage.status \in {"Escalated", "Blocked"}
    /\ stage.extra < MaxExtra /\ budget.gen <= MaxGen
    /\ Exists(budget) => ~ContinueRefused(Row) /\ ~OutOfTime(budget, now)
    /\ budget' = r.budget
    /\ stage' = [stage EXCEPT !.status = "Waiting", !.extra = @ + 1]
    /\ UNCHANGED <<now, starting, closing, tui, activeTime, overtaken>>

\* Ctrl+C: revoke every generation held, then empty the acceptance set.
UserCancel ==
    /\ Up /\ streaming /\ ~cancelling
    /\ Commit(IF budget.gen > 0 /\ Held(budget.gen) # {}
              THEN Interrupt(Row, budget.gen, now) ELSE Row)
    /\ executes' = [e \in Exec |-> Idle]
    /\ monitor' = NoMonitor
    /\ cancelling' = TRUE
    /\ UNCHANGED <<now, starting, closing, loop, handoff, streaming, tick,
                   activeTime, overtaken>>

CancelDone ==
    /\ Up /\ cancelling
    /\ cancelling' = FALSE /\ streaming' = FALSE /\ handoff' = "none"
    /\ UNCHANGED <<now, rows, starting, closing, loop, executes, monitor, tick,
                   activeTime, overtaken>>

Crash ==
    /\ loop # "down"
    /\ loop' = "down"
    /\ executes' = [e \in Exec |-> Idle]
    /\ handoff' = "none" /\ streaming' = FALSE /\ cancelling' = FALSE
    /\ monitor' = NoMonitor /\ tick' = 0
    /\ UNCHANGED <<now, rows, starting, closing, activeTime, overtaken>>

\* model.Init: RecoverActiveStageBudgets.
Restart ==
    /\ loop = "down"
    /\ loop' = "running"
    /\ Commit(Recover(Row))
    /\ UNCHANGED <<now, starting, closing, executes, handoff, streaming,
                   cancelling, monitor, tick, activeTime, overtaken>>

-----------------------------------------------------------------------------
Starting == StartRead \/ StartCheck \/ StartExhausted \/ StartBegin \/ StartWrite \/ StartDies
Gate(e) == \/ Orchestrate(e) \/ FailWithFindings(e) \/ EscalateWave(e) \/ CloseEmpty(e)
           \/ (\E p \in BOOLEAN : BlockWithReport(p, e))
Closing == CloseRead \/ CloseAccept \/ ClosePause \/ CloseWrite \/ CloseDies
Result(e) == AcceptResult(e) \/ RejectTimedOut(e) \/ RejectStopped(e) \/ RejectSuperseded(e)
Agent(e) == Finish(e) \/ (\E w \in BOOLEAN : SetWaiting(e, w)) \/ Result(e)
Watch == PostTick \/ Deadline \/ HandleTick
Human == Rework \/ IncreaseBudget \/ Continue \/ UserCancel \/ CancelDone
Wave(S) == DispatchWave(S) \/ NextWave(S) \/ RetryWave(S)
Dispatch == EscalateStalled \/ \E S \in SUBSET Exec : Wave(S)

Next == \/ ClockTick \/ Starting \/ Watch \/ Dispatch \/ (\E e \in Exec : Agent(e) \/ Gate(e))
        \/ Closing \/ Human \/ Crash \/ Restart

Spec == Init /\ [][Next]_vars

\* Time passes, the monitor goroutine is scheduled and the loop, unless it is
\* blocked, takes the messages that wait for it.  Agents, CLI processes and
\* the human owe nothing.
Fairness == /\ WF_vars(ClockTick) /\ WF_vars(PostTick) /\ WF_vars(Deadline)
            /\ WF_vars(HandleTick) /\ \A e \in Exec : WF_vars(Result(e))

FairSpec == Spec /\ Fairness

-----------------------------------------------------------------------------
(* What the stage's clock and its tokens promise.                          *)

\* The stage never pays for time in which its ledger was not active: neither
\* human waits nor closed, blocked or interrupted periods nor a pause charged
\* twice reach consumed_ms, whichever process wrote the row last.
NeverOvercharged ==
    budget.consumed * UnitsPerMs + Elapsed(budget, now) <= activeTime

\* Whatever stops a ledger for good (expiry, interruption, a block, an
\* increase) takes acceptance from every execution dispatched before it: a live
\* execution that holds the current generation belongs to a ledger that is
\* running, paused for a human, or stopped by the close or the failure of its
\* stage.  The one token a continuation brings back is that of a generation which
\* a start had set running although its stage had stopped waiting.
RevokedTokensAreStale ==
    \A e \in Exec :
        /\ executes[e].gen <= budget.gen
        /\ Live(executes, e) /\ executes[e].gen > 0 /\ executes[e].gen = budget.gen
           => \/ budget.state = "active"
              \/ budget.state = "waiting" /\ budget.pause \in {"human", "closed"}
              \/ budget.state = "blocked" /\ budget.pause = "failed"
              \/ budget.state = "waiting" /\ budget.pause = "continued"
                 /\ budget.gen = overtaken

\* While the clock of a live execution runs, a monitor of that very generation
\* is registered: no pause, resume, close or stale tick loses it.  Only the
\* generation of an overtaken start may run again, unwatched, after a continuation.
ActiveIsWatched ==
    \A e \in Exec :
        Live(executes, e) /\ executes[e].gen > 0 /\ executes[e].gen = budget.gen
        /\ budget.state = "active" => monitor.gen = budget.gen \/ budget.gen = overtaken

\* An escalated stage has no running clock, however the steps of StartStage and
\* CloseStage interleave with an expiry, an escalation or a recovery: the one
\* exception is a start that had checked the stage before it was escalated, and
\* set the escalated ledger running again.
EscalatedStopsClock ==
    stage.status = "Escalated" => budget.state # "active" \/ budget.gen = overtaken

\* A generation is one attempt: the clock starts on the same generation only
\* after a human wait, or for the start that an increase or a continuation
\* prepared; an expiry, an interruption and a block take a new one, a failed
\* close leaves that to the next start, and none comes back.
GenerationIsOneAttempt ==
    [][ /\ budget'.gen >= budget.gen
        /\ budget.state = "active" /\ budget'.state \in {"expired", "interrupted", "blocked"}
           => budget'.gen > budget.gen \/ budget'.pause = "failed"
        /\ budget.state # "active" /\ budget'.state = "active" /\ budget'.gen = budget.gen
           => budget.pause \in {"human", "continued", "increased"} ]_vars

\* A spent budget gets time from an explicit increase and from nothing else:
\* not from a restart, a continuation, a cancellation or another start.
SpentNeedsIncrease ==
    [][ budget.state = "expired" /\ budget'.state # "expired"
        => budget'.limit > budget.limit ]_vars

\* An execution of the current generation works on a clock with no time left.
Overrun ==
    /\ budget.state = "active" /\ OutOfTime(budget, now)
    /\ \E e \in Exec : Live(executes, e) /\ executes[e].gen > 0
                       /\ executes[e].gen = budget.gen

\* The scheduler enforces the deadline whatever the agents do: an overrun ends,
\* by expiry or because nothing is left running.
DeadlineIsEnforced == Overrun ~> ~Overrun

-----------------------------------------------------------------------------
(* What the documentation says and the code does not keep.                 *)

\* ADR-C08-001: "`Update` stays non-blocking".
UpdateNeverBlocks == loop # "blocked"

\* PRD-C17-001 FR-09: a restart reconciles the interrupted execution and does
\* not "leave it Running indefinitely".
RestartStopsRunningStage ==
    [][ loop = "down" /\ loop' = "running" /\ closing.pc = "idle" /\ starting.pc = "idle"
        => stage'.status # "Running" ]_vars
=============================================================================

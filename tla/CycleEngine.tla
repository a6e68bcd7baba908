----------------------------- MODULE CycleEngine -----------------------------
(***************************************************************************)
(* The stages of one cycle and the operations of the workflow engine on    *)
(* them (internal/engine: engine.go, handoff.go, blocked_handoff.go,       *)
(* implementation_close.go).                                               *)
(*                                                                         *)
(* An operation reads stage rows, decides, and writes each row whole in a  *)
(* statement of its own; only the handoffs of validation reports and the   *)
(* ledger's functions are transactions over what they read.  A call is     *)
(* therefore a read followed by pending writes of the rows as read, one a  *)
(* step, during which ledgers may expire or be interrupted and the calling *)
(* process may die.                                                        *)
(*                                                                         *)
(* Of a stage's ledger (StageLedger) only its state matters here; whether  *)
(* its time is spent when a transaction looks is a choice.                 *)
(***************************************************************************)
EXTENDS Naturals, FiniteSets

CONSTANTS Last,            \* stages are 1..Last in canonicalStageOrder
          Planning, Implementation, Judge,
          Callers,         \* processes that call the engine
          Snapshots        \* the configurations a cycle may be created with

Stage == 1..Last
Validations == (Implementation + 1)..Last

\* What config_snapshot_json of a cycle says of its stages, and what its users
\* do: commands are the optional commands and failures, maxExtra bounds the
\* extra iterations /hero-continue grants.
Snapshot == [browser : SUBSET Validations,   \* validations that may report a blocker
             timed : SUBSET Stage,           \* stages with timeout_minutes > 0
             optional : SUBSET Validations,  \* validations that may be disabled
             maxIterations : Nat \ {0}, maxExtra : Nat,
             commands : SUBSET {"die", "loop-back", "reopen-planning", "finish",
                                "retry", "sync"}]

ASSUME CycleEngineAssumption ==
    /\ Last \in Nat /\ Planning \in Stage /\ Implementation \in Stage
    /\ Planning < Implementation /\ Judge \in Validations
    /\ \A config \in Snapshots : config \in Snapshot

VARIABLES
    config,   \* its configuration snapshot, never written again
    cycle,    \* status of the cycle
    stages,   \* the stage rows: status, iteration, extra iterations
    clock,    \* state of each stage's ledger
    calls,    \* what each caller has read and not yet written
    fresh,    \* history: validations started since Implementation completed
    torn,     \* history: a reset died with a validation still to write
    retried   \* history: a Failed Implementation was retried

vars == <<config, cycle, stages, clock, calls, fresh, torn, retried>>

StageStatuses == {"Waiting", "Running", "PendingApproval", "Completed",
                  "Failed", "Escalated", "Skipped", "Blocked"}
StageRows == [status : StageStatuses, iteration : Nat, extra : Nat]
Clocks == {"none", "active", "waiting", "blocked", "expired", "interrupted"}

\* pc: "pause", "handoff" and "reset" are transactions on stage still to come;
\* "write" writes the rows of todo in order; "complete" completes the cycle.
NewRows == [s \in Stage |-> [status |-> "Waiting", iteration |-> 0, extra |-> 0]]
Returned == [pc |-> "idle", stage |-> 1, todo |-> {}, rows |-> NewRows, then |-> "idle"]
Calls == [pc : {"idle", "pause", "handoff", "reset", "write", "complete"},
          stage : Stage, todo : SUBSET Stage, rows : [Stage -> StageRows],
          then : {"idle", "complete"}]

TypeOK ==
    /\ config \in Snapshots
    /\ cycle \in {"active", "completed", "cancelled"}
    /\ stages \in [Stage -> StageRows]
    /\ clock \in [Stage -> Clocks]
    /\ calls \in [Callers -> Calls]
    /\ fresh \subseteq Validations
    /\ torn \in BOOLEAN /\ retried \in BOOLEAN

Init ==
    /\ config \in Snapshots
    /\ cycle = "active"
    /\ stages = NewRows
    /\ clock = [s \in Stage |-> "none"]
    /\ calls = [p \in Callers |-> Returned]
    /\ fresh = {} /\ torn = FALSE /\ retried = FALSE

-----------------------------------------------------------------------------
With(status) == {s \in Stage : stages[s].status = status}
First(S) == CHOOSE s \in S : \A o \in S : s <= o

\* Commit rows to the table, and keep the history of validations.
Store(rows) ==
    /\ stages' = rows
    /\ fresh' = IF rows[Implementation].status = "Completed"
                   /\ stages[Implementation].status # "Completed"
                THEN {}
                ELSE fresh \cup {v \in Validations : rows[v].status = "Running"
                                                     /\ stages[v].status # "Running"}

Set(s, status) == [stages EXCEPT ![s].status = status]

\* A call on the active cycle has read the table; rows holds what it will
\* write for the stages of todo.
Reads(p) == calls[p].pc = "idle" /\ cycle = "active"
Writes(p, todo, rows, then) ==
    calls' = [calls EXCEPT ![p] = [pc |-> "write", stage |-> 1, todo |-> todo,
                                   rows |-> rows, then |-> then]]
Later(p, pc, s, rows) ==
    calls' = [calls EXCEPT ![p] = [pc |-> pc, stage |-> s, todo |-> {s},
                                   rows |-> rows, then |-> "idle"]]
Returns(p) == calls' = [calls EXCEPT ![p] = Returned]

Write(p) ==
    LET c == calls[p]
        s == First(c.todo)
        left == c.todo \ {s}
    IN
    /\ c.pc = "write"
    /\ Store([stages EXCEPT ![s] = c.rows[s]])
    /\ calls' = [calls EXCEPT ![p] =
                   IF left # {} THEN [c EXCEPT !.todo = left]
                   ELSE IF c.then = "complete" THEN [Returned EXCEPT !.pc = "complete"]
                   ELSE Returned]
    /\ UNCHANGED <<cycle, clock, torn, retried>>

Complete(p) ==
    /\ calls[p].pc = "complete"
    /\ cycle' = "completed"
    /\ Returns(p)
    /\ UNCHANGED <<stages, clock, fresh, torn, retried>>

Die(p) ==
    LET c == calls[p] IN
    /\ "die" \in config.commands /\ c.pc # "idle"
    /\ Returns(p)
    /\ torn' = (torn \/ \E v \in c.todo \cap Validations :
                          c.pc = "write" /\ c.rows[v].status = "Waiting")
    /\ UNCHANGED <<cycle, stages, clock, fresh, retried>>

-----------------------------------------------------------------------------
(* What the ledger's transactions do to a stage.                           *)

\* Faulty variant: the ledger's state becomes the stage's status.
StoppedAs(status) == IF status \in {"Waiting", "Running"} THEN "Interrupted" ELSE status

\* commitStoppedStageBudget.
EscalatedFrom(status) == IF status \in {"Waiting", "Running"} THEN "Escalated" ELSE status

Stop(s, state) ==
    /\ clock' = [clock EXCEPT ![s] = state]
    /\ Store(Set(s, EscalatedFrom(stages[s].status)))

\* Time ran out (checkpoint, deadline), a user cancelled, the TUI restarted.
Expire(s) == clock[s] = "active" /\ Stop(s, "expired")
Interrupt(s) == clock[s] = "active" /\ Stop(s, "interrupted")

Recover ==
    /\ \E s \in Stage : clock[s] = "active"
    /\ clock' = [s \in Stage |-> IF clock[s] = "active" THEN "interrupted" ELSE clock[s]]
    /\ Store([s \in Stage |-> IF clock[s] = "active"
                              THEN [stages[s] EXCEPT !.status = EscalatedFrom(@)]
                              ELSE stages[s]])

Ledger == ((\E s \in Stage : Expire(s) \/ Interrupt(s)) \/ Recover)
          /\ UNCHANGED <<cycle, calls, torn, retried>>

\* escalateStage of s by p: through the ledger in one transaction, which leaves
\* an expired ledger and its stage alone, else by writing the row as read.
EscalateStage(p, s) ==
    \/ /\ clock[s] \notin {"none", "expired"}
       /\ \E state \in {"blocked", "expired"} :
            (clock[s] \notin {"active", "interrupted"} => state = "blocked") /\ Stop(s, state)
       /\ UNCHANGED calls
    \/ /\ clock[s] = "none"
       /\ Writes(p, {s}, Set(s, "Escalated"), "idle")
       /\ UNCHANGED <<stages, clock, fresh>>

-----------------------------------------------------------------------------
(* The scheduler.                                                          *)

\* Faulty variant: the last Waiting stage.
PickedLastWaiting(s) ==
    /\ \A st \in {"Blocked", "Running", "Escalated", "PendingApproval"} : With(st) = {}
    /\ s \in With("Waiting") /\ \A o \in With("Waiting") : s >= o

\* Faulty variant: the first Waiting stage, whatever the others do.
PickedFirstWaiting(s) ==
    s \in With("Waiting") /\ \A o \in With("Waiting") : s <= o

\* resolveRunStage finds a Waiting stage to start.
Picked(s) ==
    /\ \A st \in {"Blocked", "Running", "Escalated", "PendingApproval"} : With(st) = {}
    /\ s \in With("Waiting") /\ \A o \in With("Waiting") : s <= o

IterationsSpent(s) == stages[s].iteration >= config.maxIterations + stages[s].extra

\* Faulty variant: an attempt is not counted.
StartsFree(p, s) ==
    /\ Reads(p) /\ Picked(s) /\ ~IterationsSpent(s)
    /\ clock[s] \notin {"expired", "interrupted"}
    /\ clock' = [clock EXCEPT ![s] = IF s \in config.timed THEN "active" ELSE @]
    /\ Writes(p, {s}, Set(s, "Running"), "idle")
    /\ UNCHANGED <<cycle, stages, fresh, torn, retried>>

\* StartStage: the ledger begins, then the row is written.  An interrupted
\* ledger refuses; an expired one is escalated, which changes nothing.
Starts(p, s) ==
    /\ Reads(p) /\ Picked(s) /\ ~IterationsSpent(s)
    /\ clock[s] \notin {"expired", "interrupted"}
    /\ clock' = [clock EXCEPT ![s] = IF s \in config.timed THEN "active" ELSE @]
    /\ Writes(p, {s}, [stages EXCEPT ![s].status = "Running", ![s].iteration = @ + 1], "idle")
    /\ UNCHANGED <<cycle, stages, fresh, torn, retried>>

StartExhausted(p, s) ==
    /\ Reads(p) /\ Picked(s) /\ IterationsSpent(s)
    /\ EscalateStage(p, s)
    /\ UNCHANGED <<cycle, torn, retried>>

\* EscalateStage for an ambiguity, a cap or no progress.
Escalates(p, s) ==
    /\ Reads(p) /\ stages[s].status = "Running"
    /\ EscalateStage(p, s)
    /\ UNCHANGED <<cycle, torn, retried>>

\* CloseStage: the result is accepted on an active ledger, which then pauses.
Closes(p, s) ==
    /\ Reads(p) /\ stages[s].status = "Running" /\ clock[s] \in {"none", "active"}
    /\ \E status \in {"PendingApproval", "Completed", "Failed"} :
          Later(p, IF clock[s] = "none" THEN "write" ELSE "pause", s, Set(s, status))
    /\ UNCHANGED <<cycle, stages, clock, fresh, torn, retried>>

\* The pause of acceptAndPauseStageBudget, refused once the generation changed.
Pauses(p) ==
    LET c == calls[p] IN
    /\ c.pc = "pause"
    /\ IF clock[c.stage] = "active"
       THEN /\ clock' = [clock EXCEPT ![c.stage] =
                 IF c.rows[c.stage].status = "Failed" THEN "blocked" ELSE "waiting"]
            /\ calls' = [calls EXCEPT ![p].pc = "write"]
       ELSE Returns(p) /\ UNCHANGED clock
    /\ UNCHANGED <<cycle, stages, fresh, torn, retried>>

\* CloseImplementationWhenAssignmentEmpty.
ClosesEmpty(p) ==
    /\ Reads(p) /\ stages[Implementation].status = "Running"
    /\ Writes(p, {Implementation}, Set(Implementation, "Completed"), "idle")
    /\ UNCHANGED <<cycle, stages, clock, fresh, torn, retried>>

-----------------------------------------------------------------------------
(* Loop-backs.                                                             *)

\* Implementation, or Planning, and every later stage that is not Skipped.
Enabled(first) == {s \in first..Last : stages[s].status # "Skipped"}
Reset(rows, S) == [s \in Stage |-> IF s \in S THEN [rows[s] EXCEPT !.status = "Waiting"]
                                   ELSE rows[s]]

CanLoopBack == stages[Implementation].status \in {"Completed", "Failed", "Waiting"}

\* Faulty variant: only Implementation and the stage that failed run again.
LoopedBackOnlyTo(rows, from) ==
    IF stages[Implementation].status = "Waiting" THEN rows
    ELSE Reset(rows, {Implementation, from})

\* applyLoopBackInTx: nothing but a summary when Implementation waits already.
LoopedBack(rows, from) ==
    IF stages[Implementation].status = "Waiting" THEN rows
    ELSE Reset(rows, Enabled(Implementation))

\* CloseStageFailedWithFindings: preconditions, then one transaction that does
\* not look at the stage's status again.
FailsWithFindings(p, s) ==
    /\ Reads(p) /\ s \in Validations /\ With("Running") = {s}
    /\ Later(p, "handoff", s, stages)
    /\ UNCHANGED <<cycle, stages, clock, fresh, torn, retried>>

HandsOff(p) ==
    LET s == calls[p].stage IN
    /\ calls[p].pc = "handoff"
    /\ Returns(p)
    /\ IF CanLoopBack THEN Store(LoopedBack(Set(s, "Failed"), s))
       ELSE UNCHANGED <<stages, fresh>>
    /\ UNCHANGED <<cycle, clock, torn, retried>>

\* LoopBackToImplementation (`hero stage loop-back`): row by row.
LoopsBack(p, s) ==
    /\ Reads(p) /\ "loop-back" \in config.commands
    /\ s \in Validations /\ stages[s].status \in {"Failed", "Completed"}
    /\ With("Running") = {} /\ CanLoopBack
    /\ IF stages[Implementation].status = "Waiting"
       THEN Writes(p, {Implementation}, stages, "idle")
       ELSE Writes(p, Enabled(Implementation), Reset(stages, Stage), "idle")
    /\ UNCHANGED <<cycle, stages, clock, fresh, torn, retried>>

\* ReopenPlanning (/hero-back): a Running source is escalated first, the table
\* is read again and reset row by row.
ReopensPlanning(p, s) ==
    /\ Reads(p) /\ "reopen-planning" \in config.commands
    /\ s \in {Implementation, Judge} /\ stages[Planning].status = "Completed"
    /\ With("Running") \subseteq {s}
    /\ stages[s].status \in {"Escalated", "PendingApproval", "Failed", "Running"}
    /\ Later(p, "reset", s, stages)
    /\ UNCHANGED <<cycle, stages, clock, fresh, torn, retried>>

EscalatesSource(p) ==
    LET s == calls[p].stage IN
    /\ calls[p].pc = "reset" /\ calls[p].rows[s].status = "Running"
    /\ \/ /\ clock[s] \notin {"none", "expired"}
          /\ \E state \in {"blocked", "expired"} :
               (clock[s] \notin {"active", "interrupted"} => state = "blocked") /\ Stop(s, state)
       \/ /\ clock[s] = "expired" /\ UNCHANGED <<clock, stages, fresh>>
       \/ /\ clock[s] = "none"
          /\ Store([stages EXCEPT ![s] = [calls[p].rows[s] EXCEPT !.status = "Escalated"]])
          /\ UNCHANGED clock
    /\ calls' = [calls EXCEPT ![p].rows[s].status = "Escalated"]
    /\ UNCHANGED <<cycle, torn, retried>>

ReadsAgain(p) ==
    /\ calls[p].pc = "reset" /\ calls[p].rows[calls[p].stage].status # "Running"
    /\ Writes(p, Enabled(Planning), Reset(stages, Stage), "idle")
    /\ UNCHANGED <<cycle, stages, clock, fresh, torn, retried>>

-----------------------------------------------------------------------------
(* The human.                                                              *)

\* CloseStageBlockedWithReport, one transaction; an expiry is committed and the
\* report refused (Expire).  Blocked preparation gives the iteration back.
Blocks(p, s) ==
    /\ Reads(p) /\ s \in config.browser /\ With("Running") = {s}
    /\ clock[s] \in {"none", "active"}
    /\ clock' = [clock EXCEPT ![s] = IF @ = "active" THEN "blocked" ELSE @]
    /\ \E preparation \in BOOLEAN :
          Store([stages EXCEPT ![s].status = "Blocked",
                   ![s].iteration = IF preparation /\ @ > 0 THEN @ - 1 ELSE @])
    /\ UNCHANGED <<cycle, calls, torn, retried>>

\* An expired ledger refuses to continue; blocked and interrupted ones wait.
Continued(state) == IF state \in {"blocked", "interrupted"} THEN "waiting" ELSE state

\* continueBlockedInCycle; genuine findings of the report loop back with it.
ContinuesBlocked(p) ==
    LET s == First(With("Blocked"))
        rows == [stages EXCEPT ![s].status = "Waiting", ![s].extra = @ + 1]
    IN
    /\ Reads(p) /\ With("Blocked") # {} /\ stages[s].extra < config.maxExtra
    /\ clock[s] \notin {"expired", "active"}
    /\ clock' = [clock EXCEPT ![s] = Continued(@)]
    /\ Store(rows) \/ (CanLoopBack /\ Store(LoopedBack(rows, s)))
    /\ UNCHANGED <<cycle, calls, torn, retried>>

ContinuesEscalated(p) ==
    LET s == First(With("Escalated")) IN
    /\ Reads(p) /\ With("Blocked") = {} /\ With("Escalated") # {}
    /\ stages[s].extra < config.maxExtra
    /\ clock[s] \notin {"expired", "active"}
    /\ clock' = [clock EXCEPT ![s] = Continued(@)]
    /\ Writes(p, {s}, [stages EXCEPT ![s].status = "Waiting", ![s].extra = @ + 1], "idle")
    /\ UNCHANGED <<cycle, stages, fresh, torn, retried>>

\* prepareContinueBudget with --budget-increase.
IncreasesBudget ==
    LET s == First(With("Escalated")) IN
    /\ cycle = "active" /\ With("Escalated") # {} /\ clock[s] = "expired"
    /\ clock' = [clock EXCEPT ![s] = "waiting"]
    /\ UNCHANGED <<cycle, stages, calls, fresh, torn, retried>>

\* Approve completes the stage that waits for approval, Reject sends it back.
Approves(p) ==
    /\ Reads(p) /\ With("PendingApproval") # {}
    /\ LET s == First(With("PendingApproval")) IN
       \E status \in {"Completed", "Waiting"} : Writes(p, {s}, Set(s, status), "idle")
    /\ UNCHANGED <<cycle, stages, clock, fresh, torn, retried>>

\* Finish also completes the stage that waits for approval.
Finishes(p) ==
    /\ Reads(p) /\ "finish" \in config.commands
    /\ IF With("PendingApproval") = {}
       THEN calls' = [calls EXCEPT ![p] = [Returned EXCEPT !.pc = "complete"]]
       ELSE LET s == First(With("PendingApproval")) IN
            Writes(p, {s}, Set(s, "Completed"), "complete")
    /\ UNCHANGED <<cycle, stages, clock, fresh, torn, retried>>

Cancels(p) ==
    /\ Reads(p) /\ "finish" \in config.commands
    /\ cycle' = "cancelled"
    /\ UNCHANGED <<stages, clock, calls, fresh, torn, retried>>

\* CompleteCycleWithDeferredTodosDisposition, from the triage of an Escalated
\* stage, in one transaction.
DefersAll(p) ==
    /\ Reads(p) /\ "finish" \in config.commands /\ With("Escalated") # {}
    /\ cycle' = "completed"
    /\ Store([s \in Stage |->
                IF s < Implementation \/ stages[s].status \in {"Completed", "Skipped", "Failed"}
                THEN stages[s]
                ELSE [stages[s] EXCEPT !.status = IF s = Implementation THEN "Completed"
                                                  ELSE "Skipped"]])
    /\ UNCHANGED <<clock, calls, torn, retried>>

\* RetryFailedStage, from the configuration screen.
Retries(p, s) ==
    /\ Reads(p) /\ "retry" \in config.commands /\ stages[s].status = "Failed"
    /\ Writes(p, {s}, [stages EXCEPT ![s].status = "Waiting", ![s].iteration = 0], "idle")
    /\ retried' = (retried \/ s = Implementation)
    /\ UNCHANGED <<cycle, stages, clock, fresh, torn>>

\* SyncCycleConfigFromWorkflow after the validations in disabled were disabled
\* and the other optional ones enabled.
Syncs(p) ==
    LET open == {s \in Stage : stages[s].status \notin {"Completed", "Failed"}} IN
    /\ Reads(p) /\ "sync" \in config.commands /\ open # {}
    /\ \E disabled \in SUBSET config.optional :
          Writes(p, open,
                 [s \in Stage |-> IF stages[s].status \notin {"Waiting", "Skipped"} THEN stages[s]
                                  ELSE [stages[s] EXCEPT !.status = IF s \in disabled
                                                          THEN "Skipped" ELSE "Waiting"]],
                 "idle")
    /\ UNCHANGED <<cycle, stages, clock, fresh, torn, retried>>

-----------------------------------------------------------------------------
Step(p) == Write(p) \/ Complete(p) \/ Pauses(p) \/ HandsOff(p)
           \/ EscalatesSource(p) \/ ReadsAgain(p)
Start(p) == \E s \in Stage : Starts(p, s) \/ StartExhausted(p, s)
Report(p) == \/ ClosesEmpty(p)
             \/ \E s \in Stage : \/ Escalates(p, s) \/ Closes(p, s)
                                 \/ FailsWithFindings(p, s) \/ Blocks(p, s)
Command(p) == \/ ContinuesBlocked(p) \/ ContinuesEscalated(p) \/ Approves(p)
              \/ Finishes(p) \/ Cancels(p) \/ DefersAll(p) \/ Syncs(p)
              \/ \E s \in Stage : LoopsBack(p, s) \/ ReopensPlanning(p, s) \/ Retries(p, s)

Next == /\ \/ Ledger \/ IncreasesBudget
           \/ \E p \in Callers : Step(p) \/ Start(p) \/ Report(p) \/ Command(p) \/ Die(p)
        /\ UNCHANGED config

Spec == Init /\ [][Next]_vars

-----------------------------------------------------------------------------
\* Stages run one at a time: whatever expires, is interrupted or dies while a
\* call holds rows it has yet to write, no second stage becomes Running.
OneStageRuns == Cardinality(With("Running")) <= 1

\* Stages run in canonicalStageOrder: nothing before a Running stage is left to
\* do, not even after a reset that died half way.  Outside: a stage that expired
\* while its start was being written, which is Running and revoked, and cycles
\* whose user retries or enables an earlier stage while a later one runs.
StagesRunInOrder ==
    config.commands \cap {"retry", "sync"} = {} =>
    \A s \in With("Running") : clock[s] # "expired" =>
        \A o \in 1..(s - 1) : stages[o].status \in {"Completed", "Failed", "Skipped"}

\* The validations that count have seen the present Implementation: none that
\* started before it last completed stays Completed beside it.  Outside: a
\* `loop-back` that dies between rows, and a retry of a Failed Implementation
\* that the scheduler had passed by.
ValidationIsCurrent ==
    ~torn /\ ~retried /\ cycle = "active" /\ stages[Implementation].status = "Completed"
    => With("Completed") \cap Validations \subseteq fresh

\* A repair loop ends: unless the human retries without end, only finitely many
\* attempts start, whatever the validations report.  Resets keep iterations.
RepairLoopEnds ==
    \/ []<><<\E p \in Callers, s \in Stage : Retries(p, s)>>_vars
    \/ <>[][\A s \in Stage : stages'[s].status = "Running" => stages[s].status = "Running"]_vars

\* engine.go: an interrupted stage is refused a start with "run
\* /hero-continue", and the time of an expired one may be increased; both look
\* for an Escalated stage.  So no stage waits on a ledger that refuses.
WaitingCanStart ==
    (\A p \in Callers : calls[p].pc = "idle")
    => \A s \in With("Waiting") : clock[s] \notin {"interrupted", "expired"}
=============================================================================

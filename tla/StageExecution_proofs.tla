------------------------ MODULE StageExecution_proofs ------------------------
(***************************************************************************)
(* What one timed stage keeps, for every set of executions, every budget   *)
(* and every bound: its types, that it is never overcharged, that revoked  *)
(* tokens are stale, what a generation is and how a spent budget gets time,*)
(* that a running clock is watched and an escalated stage's clock is not   *)
(* running.                                                                *)
(*                                                                         *)
(* Every step but the clock's is a Move: the ledger takes one step of      *)
(* StageLedger_proofs, and no execution receives a token but the one a     *)
(* running ledger gives at dispatch.                                       *)
(***************************************************************************)
EXTENDS StageExecution, StageLedger_proofs

\* An accepted close holds a generation that exists and a time that is past.
ClosingInv ==
    /\ closing.pc = "accepted" => closing.gen > 0
    /\ closing.at <= now

\* A live execution that holds the current generation.
Holds(ex, e, gen) == Live(ex, e) /\ ex[e].gen > 0 /\ ex[e].gen = gen

\* The part of RevokedTokensAreStale that the ledger alone keeps: whoever has
\* continued the ledger, an expired, interrupted, reported or increased one has
\* no holder.
HeldTokens ==
    \A e \in Exec : /\ executes[e].gen <= budget.gen
                    /\ Holds(executes, e, budget.gen) => Holdable(budget)

\* The inductive invariant.  LedgerInv ties state "none" to generation 0 and
\* keeps the checkpoint in the past: without it a charge could run backwards.
IInv ==
    /\ TypeOK
    /\ LedgerInv(budget, now)
    /\ NeverOvercharged
    /\ HeldTokens
    /\ ClosingInv

\* What a step may do to the token of an execution.
TokenMove(e) ==
    \/ executes'[e] = Idle
    \/ executes'[e].gen = executes[e].gen /\ (Live(executes', e) => Live(executes, e))
    \/ executes'[e].gen \in {0, Token(budget')}

\* A step of the stage in which no time passes.
Move ==
    /\ now' = now /\ activeTime' = activeTime
    /\ overtaken' \in {overtaken, budget'.gen}
    /\ LedgerStep(budget, budget', now)
    /\ \A e \in Exec : TokenMove(e)
    /\ ClosingInv'

-----------------------------------------------------------------------------
\* The rows a transaction reads.
LEMMA RowType ==
    ASSUME TypeOK
    PROVE  Row \in Rows /\ Row.budget = budget /\ Row.status = stage.status
  BY DEF TypeOK, Row, Rows, Stages

\* The rows a transaction commits.
LEMMA Committed ==
    ASSUME TypeOK, NEW r \in Rows, Commit(r)
    PROVE  budget' = r.budget /\ budget' \in Ledger /\ stage' \in Stages
  BY DEF TypeOK, Commit, Rows, Stages

\* The ledger of a stage that changes nothing.
LEMMA Still ==
    ASSUME IInv, budget' = budget
    PROVE  LedgerStep(budget, budget', now) /\ budget' \in Ledger
  BY NoStep DEF IInv, TypeOK

\* A transaction that first accepts and then writes again is one step of a
\* ledger that was running.
LEMMA TwoSteps ==
    ASSUME NEW b \in Ledger, NEW c \in Ledger, NEW d \in Ledger, NEW t \in Nat,
           b.state = "active", LedgerStep(b, c, t), LedgerStep(c, d, t)
    PROVE  LedgerStep(b, d, t)
  <1>1. Cost(b, t) \in Nat /\ Cost(c, t) \in Nat /\ Cost(d, t) \in Nat
    BY CostType
  <1>2. b.gen \in Nat /\ c.gen \in Nat /\ d.gen \in Nat
    BY DEF Ledger
  <1>3. Cost(d, t) <= Cost(b, t)
    BY <1>1 DEF LedgerStep
  <1>4. d.gen >= b.gen /\ LedgerInv(d, t)
    BY <1>2 DEF LedgerStep
  <1>5. Holdable(b) /\ d.gen = b.gen => Holdable(d)
    BY <1>2 DEF LedgerStep
  <1>6. d.state \in {"expired", "interrupted", "blocked"}
        => d.gen > b.gen \/ d.pause = "failed"
    BY <1>2, <1>4, <1>5 DEF Holdable
  <1> QED
    BY <1>3, <1>4, <1>5, <1>6 DEF LedgerStep

-----------------------------------------------------------------------------
\* A move keeps the invariant: the new ledger costs no more, and a token of its
\* generation was held before, by a ledger that is still holdable.
LEMMA MoveInductive ==
    ASSUME IInv, TypeOK', Move
    PROVE  IInv'
  <1>1. LedgerInv(budget, now)'
    BY DEF Move, LedgerStep
  <1>2. NeverOvercharged'
    <2>1. Cost(budget, now) <= activeTime /\ Cost(budget', now) <= Cost(budget, now)
      BY DEF IInv, NeverOvercharged, Cost, Move, LedgerStep
    <2>2. Cost(budget, now) \in Nat /\ Cost(budget', now) \in Nat /\ activeTime \in Nat
      BY CostType DEF IInv, TypeOK, Move
    <2>3. Cost(budget', now) <= activeTime
      BY <2>1, <2>2
    <2> QED
      BY <2>3 DEF Move, NeverOvercharged, Cost
  <1>3. HeldTokens'
    <2> SUFFICES ASSUME NEW e \in Exec
                 PROVE  /\ executes'[e].gen <= budget'.gen
                        /\ Holds(executes', e, budget'.gen) => Holdable(budget')
      BY DEF HeldTokens, Holdable, Holds, Live
    <2>1. /\ budget.gen \in Nat /\ budget'.gen \in Nat /\ budget'.gen >= budget.gen
          /\ executes[e].gen \in Nat
      BY DEF IInv, TypeOK, Ledger, Executions, Move, LedgerStep
    <2>2. /\ executes[e].gen <= budget.gen
          /\ Holds(executes, e, budget.gen) => Holdable(budget)
      BY DEF IInv, HeldTokens
    <2>3. Holdable(budget) /\ budget'.gen = budget.gen => Holdable(budget')
      BY DEF Move, LedgerStep
    <2>4. TokenMove(e)
      BY DEF Move
    <2>5. CASE executes'[e] = Idle
      BY <2>1, <2>5 DEF Idle, Live, Holds
    <2>6. CASE executes'[e].gen = executes[e].gen /\ (Live(executes', e) => Live(executes, e))
      BY <2>1, <2>2, <2>3, <2>6 DEF Holds
    <2>7. CASE executes'[e].gen \in {0, Token(budget')}
      BY <2>1, <2>7 DEF Token, Holdable, Holds
    <2> QED
      BY <2>4, <2>5, <2>6, <2>7 DEF TokenMove
  <1> QED
    BY <1>1, <1>2, <1>3 DEF IInv, Move

-----------------------------------------------------------------------------
(* The pieces the actions are made of.                                     *)

Monitors == [gen : Nat, deadline : Nat, armed : BOOLEAN]

\* A monitor started for a ledger has a deadline in the future of now.
LEMMA MonitorType ==
    ASSUME now \in Nat, NEW b \in Ledger, NEW gen \in Nat, NEW mon \in Monitors
    PROVE  MonitorFor(b, gen, mon) \in Monitors
  <1>1. Remaining(b, now) \in Nat
    BY Charging
  <1> QED
    BY <1>1 DEF MonitorFor, Monitors

\* The empty records have the types of their variables.
LEMMA EmptyTypes ==
    /\ Idle \in Executions /\ NoMonitor \in Monitors /\ NewStage \in Stages
    /\ NotStarting \in Starts /\ NotClosing \in Closings
  BY DEF Idle, Executions, NoMonitor, Monitors, NewStage, NotStarting, Starts, NotClosing,
         Closings, Stages, StageStatuses

\* The token of a dispatch.
LEMMA TokenType ==
    ASSUME NEW b \in Ledger
    PROVE  Token(b) \in Nat
  BY DEF Token, Ledger

\* refreshStageBudgetWait after an acceptance of a running ledger, or on its
\* own: the pause and the resumption are steps of the ledger.
LEMMA RefreshStep ==
    ASSUME IInv, NEW r \in Rows, NEW ex, RefreshWait(r, ex),
           LedgerStep(budget, r.budget, now),
           r.budget = budget \/ budget.state = "active"
    PROVE  /\ LedgerStep(budget, budget', now)
           /\ budget' \in Ledger /\ stage' \in Stages
           /\ loop' \in {loop, "blocked"} /\ monitor' \in Monitors
  <1> DEFINE pausing  == AllWait(ex) /\ r.budget.state = "active"
             resuming == Runnable(ex) /\ r.budget.state = "waiting"
                         /\ r.budget.pause = "human"
  <1>1. PICK p : /\ p = IF pausing THEN Pause(r, r.budget.gen, "waiting", "human", now)
                        ELSE IF resuming THEN Resume(r, r.budget.gen, now) ELSE r
                 /\ Commit(p)
                 /\ loop' = IF pausing /\ p.budget.state = "expired" THEN "blocked" ELSE loop
                 /\ monitor' = IF pausing THEN (IF loop' = "blocked" THEN monitor
                                                ELSE NoMonitor)
                               ELSE IF resuming /\ p.budget.state = "active"
                                    THEN MonitorFor(p.budget, p.budget.gen, monitor)
                                    ELSE monitor
    BY DEF RefreshWait
  <1> HIDE DEF pausing, resuming
  <1>2. now \in Nat /\ now <= now /\ TypeOK
    BY DEF IInv, TypeOK
  <1>3. r.budget \in Ledger /\ LedgerInv(r.budget, now)
    BY RowsType DEF LedgerStep
  <1>4. p \in Rows /\ LedgerStep(r.budget, p.budget, now)
    <2>1. CASE pausing
      <3>1. r.budget.gen # 0
        BY <1>3, <2>1 DEF pausing, LedgerInv
      <3>2. PICK state, reason : state = "waiting" /\ reason = "human"
        OBVIOUS
      <3>3. p = Pause(r, r.budget.gen, state, reason, now)
        BY <1>1, <2>1, <3>2
      <3>4. PauseKind(state, reason)
        BY <3>2 DEF PauseKind
      <3> QED
        BY <1>2, <1>3, <3>1, <3>3, <3>4, PauseStep
    <2>2. CASE ~pausing /\ resuming
      <3>1. r.budget.state = "waiting" /\ r.budget.pause = "human"
        BY <2>2 DEF resuming
      <3>2. p = Resume(r, r.budget.gen, now)
        BY <1>1, <2>2
      <3> QED
        BY <1>2, <1>3, <3>1, <3>2, ResumeStep
    <2>3. CASE ~pausing /\ ~resuming
      <3>1. p = r
        BY <1>1, <2>3
      <3> QED
        BY <1>2, <1>3, <3>1, NoStep
    <2> QED
      BY <2>1, <2>2, <2>3
  <1>5. budget' = p.budget /\ budget' \in Ledger /\ stage' \in Stages
    BY <1>1, <1>2, <1>4, Committed
  <1>6. LedgerStep(budget, budget', now)
    <2>1. CASE r.budget = budget
      BY <1>4, <1>5, <2>1
    <2>2. CASE budget.state = "active"
      <3>1. budget \in Ledger
        BY <1>2 DEF TypeOK
      <3> QED
        BY <1>2, <1>3, <1>4, <1>5, <2>2, <3>1, TwoSteps
    <2> QED
      BY <2>1, <2>2
  <1>7. monitor' \in Monitors
    <2>1. monitor \in Monitors /\ NoMonitor \in Monitors
      BY <1>2, EmptyTypes DEF TypeOK, Monitors
    <2>2. p.budget \in Ledger /\ p.budget.gen \in Nat
      BY <1>5 DEF Ledger
    <2>3. MonitorFor(p.budget, p.budget.gen, monitor) \in Monitors
      BY <1>2, <2>1, <2>2, MonitorType
    <2> QED
      BY <1>1, <2>1, <2>3
  <1> QED
    BY <1>1, <1>5, <1>6, <1>7

\* cancelStageBudgetExecutions on rows that are the current ones or the ones
\* an expiry check of the same generation left: one step of the ledger, and
\* executions are only dropped.
LEMMA CancelStep ==
    ASSUME IInv, NEW r, NEW gen, CancelGeneration(r, gen),
           r = Row \/ r = Advance(Row, gen, now)
    PROVE  /\ LedgerStep(budget, budget', now)
           /\ budget' \in Ledger /\ stage' \in Stages
           /\ executes' \in [Exec -> Executions] /\ monitor' \in Monitors
           /\ streaming' \in BOOLEAN /\ handoff' \in {"none", handoff}
           /\ \A e \in Exec : executes'[e] = Idle \/ executes'[e] = executes[e]
  <1>1. /\ TypeOK /\ now \in Nat /\ LedgerInv(budget, now) /\ budget \in Ledger
        /\ executes \in [Exec -> Executions] /\ streaming \in BOOLEAN
    BY DEF IInv, TypeOK
  <1>2. Row \in Rows /\ Row.budget = budget
    BY <1>1, RowType
  <1>3. PICK s : s = Advance(Row, gen, now)
    OBVIOUS
  <1>4. s \in Rows /\ LedgerStep(budget, s.budget, now)
    BY <1>1, <1>2, <1>3, AdvanceStep
  <1>5. PICK q : q = Advance(r, gen, now)
    OBVIOUS
  <1>6. q \in Rows /\ LedgerStep(budget, q.budget, now)
    <2>1. CASE r = Row
      BY <1>3, <1>4, <1>5, <2>1
    <2>2. CASE r = s
      <3>1. LedgerInv(s.budget, now) /\ s.budget \in Ledger
        BY <1>4, RowsType DEF LedgerStep
      <3>2. q \in Rows /\ LedgerStep(s.budget, q.budget, now)
        BY <1>1, <1>4, <1>5, <2>2, <3>1, AdvanceStep
      <3>3. CASE budget.state = "active"
        <4>1. q.budget \in Ledger
          BY <3>2, RowsType
        <4> QED
          BY <1>1, <1>4, <3>1, <3>2, <3>3, <4>1, TwoSteps
      <3>4. CASE budget.state # "active"
        <4>1. s = Row
          BY <1>2, <1>3, <3>4 DEF Advance
        <4> QED
          BY <1>3, <1>4, <1>5, <2>2, <4>1
      <3> QED
        BY <3>3, <3>4
    <2> QED
      BY <1>3, <2>1, <2>2
  <1>7. Commit(q)
    BY <1>5 DEF CancelGeneration
  <1>8. budget' = q.budget /\ budget' \in Ledger /\ stage' \in Stages
    BY <1>1, <1>6, <1>7, Committed
  <1>9. executes' = [e \in Exec |-> IF e \in Held(gen) THEN Idle ELSE executes[e]]
    BY DEF CancelGeneration
  <1>10. executes' \in [Exec -> Executions]
         /\ \A e \in Exec : executes'[e] = Idle \/ executes'[e] = executes[e]
    BY <1>1, <1>9, EmptyTypes
  <1>11. /\ monitor' \in Monitors /\ streaming' \in BOOLEAN
         /\ handoff' \in {"none", handoff}
    BY <1>1, EmptyTypes DEF CancelGeneration
  <1> QED
    BY <1>6, <1>8, <1>10, <1>11

-----------------------------------------------------------------------------
(* One lemma for each group of actions.                                    *)

\* The types and the current rows, in the form the action lemmas use.
LEMMA Facts ==
    ASSUME IInv
    PROVE  /\ now \in Nat /\ now <= now /\ activeTime \in Nat
           /\ budget \in Ledger /\ budget.gen \in Nat /\ LedgerInv(budget, now)
           /\ stage \in Stages /\ starting \in Starts /\ closing \in Closings
           /\ executes \in [Exec -> Executions] /\ monitor \in Monitors
           /\ Row \in Rows /\ Row.budget = budget /\ LedgerInv(Row.budget, now)
           /\ Limit \in Nat /\ Additional \in Nat \ {0}
  BY RowType, StageExecutionAssumption DEF IInv, TypeOK, Ledger, Monitors

\* The columns a transaction of the engine writes to the stage's row.
LEMMA StageWritten ==
    ASSUME NEW s \in Stages, NEW status \in StageStatuses, NEW n \in Nat
    PROVE  /\ [s EXCEPT !.status = status] \in Stages
           /\ [s EXCEPT !.status = status, !.iteration = n] \in Stages
           /\ [s EXCEPT !.status = status, !.extra = n] \in Stages
  <1>1. [s EXCEPT !.status = status] \in Stages
    BY DEF Stages
  <1>2. PICK t \in Stages : t = [s EXCEPT !.status = status]
    BY <1>1
  <1>3. [t EXCEPT !.iteration = n] \in Stages /\ [t EXCEPT !.extra = n] \in Stages
    BY DEF Stages
  <1>4. /\ [s EXCEPT !.status = status, !.iteration = n] = [t EXCEPT !.iteration = n]
        /\ [s EXCEPT !.status = status, !.extra = n] = [t EXCEPT !.extra = n]
    BY <1>2 DEF Stages
  <1> QED
    BY <1>1, <1>3, <1>4

\* StartStage: what it reads and decides, the escalation of an exhausted stage,
\* the ledger's transaction, the stage's, and the death between them.
LEMMA StartingStep ==
    ASSUME IInv, Starting
    PROVE  TypeOK' /\ Move
  <1>1. CASE StartExhausted
    <2>1. PICK r : r = Escalate(Row, now)
      OBVIOUS
    <2>2. r \in Rows /\ LedgerStep(budget, r.budget, now)
      BY <2>1, Facts, EscalateStep
    <2>3. /\ Commit(r) /\ starting' = NotStarting
          /\ UNCHANGED <<now, closing, tui, activeTime, overtaken>>
      BY <1>1, <2>1 DEF StartExhausted
    <2>4. budget' = r.budget /\ budget' \in Ledger /\ stage' \in Stages
      BY <2>2, <2>3, Committed DEF IInv
    <2>5. TypeOK'
      BY <2>3, <2>4, EmptyTypes DEF IInv, TypeOK, tui
    <2> QED
      BY <2>2, <2>3, <2>4, <2>5 DEF Move, TokenMove, ClosingInv, IInv, tui, Live
  <1>2. CASE StartBegin
    <2>1. PICK r : r = Begin(Row, Limit, now)
      OBVIOUS
    <2>2. r \in Rows /\ LedgerStep(budget, r.budget, now)
      BY <2>1, Facts, BeginStep
    <2>3. /\ Commit(r) /\ starting' \in {NotStarting, [starting EXCEPT !.pc = "begun"]}
          /\ overtaken' \in {overtaken, r.budget.gen}
          /\ UNCHANGED <<now, closing, tui, activeTime>>
      BY <1>2, <2>1 DEF StartBegin
    <2>4. budget' = r.budget /\ budget' \in Ledger /\ stage' \in Stages
      BY <2>2, <2>3, Committed DEF IInv
    <2>5. starting' \in Starts /\ overtaken' \in Nat
      BY <2>3, <2>4, Facts, EmptyTypes DEF Starts, IInv, TypeOK, Ledger
    <2>6. TypeOK'
      BY <2>3, <2>4, <2>5 DEF IInv, TypeOK, tui
    <2> QED
      BY <2>2, <2>3, <2>4, <2>6 DEF Move, TokenMove, ClosingInv, IInv, tui, Live
  <1>3. CASE StartWrite
    <2>1. /\ starting' = NotStarting
          /\ UNCHANGED <<now, budget, closing, tui, activeTime, overtaken>>
      BY <1>3 DEF StartWrite
    <2>2. stage' \in Stages
      <3>1. PICK n : n = starting.stage.iteration + 1
        OBVIOUS
      <3>2. n \in Nat /\ "Running" \in StageStatuses /\ starting.stage \in Stages
        BY <3>1, Facts DEF Starts, Stages, StageStatuses
      <3>3. stage' = [starting.stage EXCEPT !.status = "Running", !.iteration = n]
        BY <1>3, <3>1 DEF StartWrite
      <3> QED
        BY <3>2, <3>3, StageWritten
    <2>3. LedgerStep(budget, budget', now) /\ budget' \in Ledger
      BY <2>1, Still
    <2>4. TypeOK'
      BY <2>1, <2>2, <2>3, EmptyTypes DEF IInv, TypeOK, tui
    <2> QED
      BY <2>1, <2>3, <2>4 DEF Move, TokenMove, ClosingInv, IInv, tui, Live
  <1>4. CASE StartRead \/ StartCheck \/ StartDies
    <2>1. /\ UNCHANGED <<now, rows, closing, tui, activeTime, overtaken>>
          /\ starting' \in {NotStarting, [pc |-> "read", stage |-> stage],
                             [NotStarting EXCEPT !.pc = "exhausted"],
                             [starting EXCEPT !.pc = "admitted"]}
      BY <1>4 DEF StartRead, StartCheck, StartDies
    <2>2. starting' \in Starts
      BY <2>1, Facts, EmptyTypes DEF Starts
    <2>3. LedgerStep(budget, budget', now) /\ budget' \in Ledger
      BY <2>1, Still DEF rows
    <2>4. TypeOK'
      BY <2>1, <2>2, <2>3 DEF IInv, TypeOK, tui, rows
    <2> QED
      BY <2>1, <2>3, <2>4 DEF Move, TokenMove, ClosingInv, IInv, tui, Live
  <1> QED
    BY <1>1, <1>2, <1>3, <1>4 DEF Starting

\* The monitor and its ticks.
LEMMA WatchStep ==
    ASSUME IInv, Watch
    PROVE  TypeOK' /\ Move
  <1>1. CASE PostTick
    <2>1. /\ UNCHANGED <<now, rows, starting, closing, loop, executes, handoff,
                         streaming, cancelling, monitor, activeTime, overtaken>>
          /\ tick' = monitor.gen
      BY <1>1 DEF PostTick
    <2>2. tick' \in Nat
      BY <2>1, Facts DEF Monitors
    <2>3. LedgerStep(budget, budget', now) /\ budget' \in Ledger
      BY <2>1, Still DEF rows
    <2>4. TypeOK'
      BY <2>1, <2>2, <2>3 DEF IInv, TypeOK, rows
    <2> QED
      BY <2>1, <2>3, <2>4 DEF Move, TokenMove, ClosingInv, IInv, Live
  <1>2. CASE Deadline
    <2>1. /\ UNCHANGED <<now, rows, starting, closing, loop, executes, handoff,
                         streaming, cancelling, activeTime, overtaken>>
          /\ tick' = monitor.gen
          /\ monitor' = [monitor EXCEPT !.armed = FALSE, !.deadline = 0]
      BY <1>2 DEF Deadline
    <2>2. tick' \in Nat /\ monitor' \in Monitors
      BY <2>1, Facts DEF Monitors
    <2>3. LedgerStep(budget, budget', now) /\ budget' \in Ledger
      BY <2>1, Still DEF rows
    <2>4. TypeOK'
      BY <2>1, <2>2, <2>3 DEF IInv, TypeOK, rows, Monitors
    <2> QED
      BY <2>1, <2>3, <2>4 DEF Move, TokenMove, ClosingInv, IInv, Live
  <1>3. CASE HandleTick
    <2>1. PICK r : r = Advance(Row, tick, now)
      OBVIOUS
    <2>2. tick' = 0 /\ UNCHANGED <<now, starting, closing, loop, cancelling, activeTime, overtaken>>
      BY <1>3 DEF HandleTick
    <2>3. \/ UNCHANGED <<rows, executes, handoff, streaming, monitor>>
          \/ Commit(r) /\ UNCHANGED <<executes, handoff, streaming, monitor>>
          \/ CancelGeneration(r, tick)
          \/ monitor' = NoMonitor /\ UNCHANGED <<rows, executes, handoff, streaming>>
      BY <1>3, <2>1 DEF HandleTick
    <2>4. r \in Rows /\ LedgerStep(budget, r.budget, now)
      BY <2>1, Facts, AdvanceStep
    <2>5. /\ LedgerStep(budget, budget', now) /\ budget' \in Ledger /\ stage' \in Stages
          /\ executes' \in [Exec -> Executions] /\ monitor' \in Monitors
          /\ streaming' \in BOOLEAN /\ handoff' \in {"none", handoff}
          /\ \A e \in Exec : executes'[e] = Idle \/ executes'[e] = executes[e]
      <3>1. CASE UNCHANGED <<rows, executes, handoff, streaming, monitor>>
        BY <3>1, Facts, Still DEF rows, IInv, TypeOK
      <3>2. CASE Commit(r) /\ UNCHANGED <<executes, handoff, streaming, monitor>>
        <4>1. budget' = r.budget /\ budget' \in Ledger /\ stage' \in Stages
          BY <2>4, <3>2, Committed DEF IInv
        <4> QED
          BY <2>4, <3>2, <4>1, Facts DEF IInv, TypeOK
      <3>3. CASE CancelGeneration(r, tick)
        BY <2>1, <3>3, CancelStep
      <3>4. CASE monitor' = NoMonitor /\ UNCHANGED <<rows, executes, handoff, streaming>>
        BY <3>4, Facts, Still, EmptyTypes DEF rows, IInv, TypeOK
      <3> QED
        BY <2>3, <3>1, <3>2, <3>3, <3>4
    <2>6. TypeOK'
      BY <2>2, <2>5 DEF IInv, TypeOK, Monitors
    <2> QED
      BY <2>2, <2>5, <2>6 DEF Move, TokenMove, ClosingInv, IInv, Live
  <1> QED
    BY <1>1, <1>2, <1>3 DEF Watch

\* A dispatch for this stage, or for another one, in a step that commits at
\* most one step of the ledger: its token is the one of the committed ledger.
LEMMA DispatchStep ==
    ASSUME IInv, NEW b, NEW S, DispatchTo(b, S), b \in {budget', NoBudget},
           LedgerStep(budget, budget', now), budget' \in Ledger, stage' \in Stages,
           handoff' \in {"none", "out"},
           UNCHANGED <<now, starting, closing, loop, cancelling, tick, activeTime, overtaken>>
    PROVE  TypeOK' /\ Move
  <1>1. NoBudget \in Ledger /\ Token(NoBudget) = 0
    BY DEF NoBudget, Ledger, PauseReasons, Token
  <1>2. b \in Ledger /\ Token(b) \in Nat /\ Token(b) \in {0, Token(budget')}
    BY <1>1, TokenType
  <1>3. [state |-> "running", gen |-> Token(b), waiting |-> FALSE] \in Executions
    BY <1>2 DEF Executions
  <1>4. executes' = [e \in Exec |-> IF e \in S
                       THEN [state |-> "running", gen |-> Token(b), waiting |-> FALSE]
                       ELSE executes[e]]
    BY DEF DispatchTo
  <1>5. executes' \in [Exec -> Executions]
    BY <1>3, <1>4, Facts
  <1>6. MonitorFor(b, Token(b), monitor) \in Monitors
    BY <1>2, Facts, MonitorType
  <1>7. monitor' \in Monitors /\ streaming' = TRUE
    BY <1>6, Facts DEF DispatchTo
  <1>8. \A e \in Exec : TokenMove(e)
    BY <1>2, <1>4 DEF TokenMove, Live
  <1>9. TypeOK'
    BY <1>5, <1>7 DEF IInv, TypeOK, Monitors
  <1> QED
    BY <1>8, <1>9 DEF Move, ClosingInv, IInv

\* The timeout check between waves.
LEMMA CheckStep ==
    ASSUME IInv, NEW r, r = TimeoutChecked
    PROVE  r \in Rows /\ LedgerStep(budget, r.budget, now)
  <1>1. r = Row \/ r = Escalate(Row, now)
    BY DEF TimeoutChecked
  <1> QED
    BY <1>1, Facts, EscalateStep, NoStep

\* A wave of stage agents, and the stalled findings that prevent it.
LEMMA WaveStep ==
    ASSUME IInv, Dispatch
    PROVE  TypeOK' /\ Move
  <1>1. CASE EscalateStalled
    <2>1. PICK r : r = Escalate(Row, now)
      OBVIOUS
    <2>2. /\ Commit(r) /\ handoff' = "none"
          /\ UNCHANGED <<now, starting, closing, loop, executes, streaming,
                         cancelling, monitor, tick, activeTime, overtaken>>
      BY <1>1, <2>1 DEF EscalateStalled
    <2>3. r \in Rows /\ LedgerStep(budget, r.budget, now)
      BY <2>1, Facts, EscalateStep
    <2>4. budget' = r.budget /\ budget' \in Ledger /\ stage' \in Stages
      BY <2>2, <2>3, Committed DEF IInv
    <2>5. TypeOK'
      BY <2>2, <2>4 DEF IInv, TypeOK
    <2> QED
      BY <2>2, <2>3, <2>4, <2>5 DEF Move, TokenMove, ClosingInv, IInv, Live
  <1>2. ASSUME NEW S \in SUBSET Exec, DispatchWave(S) \/ RetryWave(S)
        PROVE  TypeOK' /\ Move
    <2>1. /\ DispatchTo(budget, S) /\ handoff' = "out" /\ budget' = budget /\ stage' = stage
          /\ UNCHANGED <<now, starting, closing, loop, cancelling, tick, activeTime, overtaken>>
      BY <1>2 DEF DispatchWave, RetryWave, rows
    <2>2. LedgerStep(budget, budget', now) /\ budget' \in Ledger /\ stage' \in Stages
      BY <2>1, Still, Facts
    <2> QED
      BY <2>1, <2>2, DispatchStep
  <1>3. ASSUME NEW S \in SUBSET Exec, NextWave(S)
        PROVE  TypeOK' /\ Move
    <2>1. PICK r : r = TimeoutChecked
      OBVIOUS
    <2>2. /\ Commit(r) /\ DispatchTo(r.budget, S) /\ handoff' \in {"none", "out"}
          /\ UNCHANGED <<now, starting, closing, loop, cancelling, tick, activeTime, overtaken>>
      BY <1>3, <2>1 DEF NextWave
    <2>3. r \in Rows /\ LedgerStep(budget, r.budget, now)
      BY <2>1, CheckStep
    <2>4. budget' = r.budget /\ budget' \in Ledger /\ stage' \in Stages
      BY <2>2, <2>3, Committed DEF IInv
    <2> QED
      BY <2>2, <2>3, <2>4, DispatchStep
  <1> QED
    BY <1>1, <1>2, <1>3 DEF Dispatch, Wave

\* The harness of an execution and its questions to the human.
LEMMA AgentStep ==
    ASSUME IInv, NEW e \in Exec, Finish(e) \/ (\E w \in BOOLEAN : SetWaiting(e, w))
    PROVE  TypeOK' /\ Move
  <1>1. CASE Finish(e)
    <2>1. /\ executes' = [executes EXCEPT ![e].state = "done"]
          /\ executes[e].state = "running"
          /\ UNCHANGED <<now, rows, starting, closing, loop, handoff, streaming,
                         cancelling, monitor, tick, activeTime, overtaken>>
      BY <1>1 DEF Finish
    <2>2. executes' \in [Exec -> Executions]
      BY <2>1, Facts DEF Executions
    <2>3. \A o \in Exec : TokenMove(o)
      BY <2>1, Facts DEF TokenMove, Live, Executions
    <2>4. LedgerStep(budget, budget', now) /\ budget' \in Ledger
      BY <2>1, Still DEF rows
    <2>5. TypeOK'
      BY <2>1, <2>2, <2>4 DEF IInv, TypeOK, rows
    <2> QED
      BY <2>1, <2>3, <2>4, <2>5 DEF Move, ClosingInv, IInv
  <1>2. ASSUME NEW w \in BOOLEAN, SetWaiting(e, w)
        PROVE  TypeOK' /\ Move
    <2>1. /\ executes' = [executes EXCEPT ![e].waiting = w]
          /\ RefreshWait(Row, executes')
          /\ UNCHANGED <<now, starting, closing, handoff, streaming, cancelling,
                         tick, activeTime, overtaken>>
      BY <1>2 DEF SetWaiting
    <2>2. executes' \in [Exec -> Executions]
      BY <2>1, Facts DEF Executions
    <2>3. \A o \in Exec : TokenMove(o)
      BY <2>1, Facts DEF TokenMove, Live, Executions
    <2>4. LedgerStep(budget, Row.budget, now)
      BY Facts, NoStep
    <2>5. /\ LedgerStep(budget, budget', now) /\ budget' \in Ledger /\ stage' \in Stages
          /\ loop' \in {loop, "blocked"} /\ monitor' \in Monitors
      BY <2>1, <2>4, Facts, RefreshStep
    <2>6. TypeOK'
      BY <2>1, <2>2, <2>5 DEF IInv, TypeOK, Monitors
    <2> QED
      BY <2>1, <2>3, <2>5, <2>6 DEF Move, ClosingInv, IInv
  <1> QED
    BY <1>1, <1>2

\* A result: accepted, or rejected in one of three ways.
LEMMA ResultStep ==
    ASSUME IInv, NEW e \in Exec, Result(e)
    PROVE  TypeOK' /\ Move
  <1>1. CASE AcceptResult(e)
    <2>1. PICK ex : ex = [executes EXCEPT ![e] = Idle]
      OBVIOUS
    <2>2. /\ executes' = ex /\ Accepted(e)
          /\ streaming' = (\E o \in Exec : Live(ex, o))
          /\ handoff' = IF handoff = "out" /\ \A o \in Exec : ~Live(ex, o)
                        THEN "gate" ELSE handoff
          /\ UNCHANGED <<now, starting, closing, cancelling, tick, activeTime, overtaken>>
      BY <1>1, <2>1 DEF AcceptResult
    <2>3. executes' \in [Exec -> Executions] /\ \A o \in Exec : TokenMove(o)
      BY <2>1, <2>2, Facts, EmptyTypes DEF TokenMove, Live
    <2>4. streaming' \in BOOLEAN /\ handoff' \in {"gate", handoff}
      BY <2>2
    <2>5. /\ LedgerStep(budget, budget', now) /\ budget' \in Ledger /\ stage' \in Stages
          /\ loop' \in {loop, "blocked"} /\ monitor' \in Monitors
      <3>1. CASE executes[e].gen > 0
        <4>1. PICK r : r = AfterAccept(e)
          OBVIOUS
        <4>2. RefreshWait(r, ex)
          BY <1>1, <2>1, <3>1, <4>1 DEF AcceptResult
        <4>3. r = Advance(Row, executes[e].gen, now) /\ budget.state = "active"
          BY <2>2, <3>1, <4>1, Facts DEF AfterAccept, Accepted, Accepts
        <4>4. r \in Rows /\ LedgerStep(budget, r.budget, now)
          BY <4>3, Facts, AdvanceStep
        <4> QED
          BY <4>2, <4>3, <4>4, RefreshStep
      <3>2. CASE ~(executes[e].gen > 0)
        <4>1. UNCHANGED <<rows, loop, monitor>>
          BY <1>1, <3>2 DEF AcceptResult
        <4> QED
          BY <4>1, Still, Facts DEF rows
      <3> QED
        BY <3>1, <3>2
    <2>6. TypeOK'
      BY <2>2, <2>3, <2>4, <2>5 DEF IInv, TypeOK, Monitors
    <2> QED
      BY <2>2, <2>3, <2>5, <2>6 DEF Move, ClosingInv, IInv
  <1>2. CASE RejectTimedOut(e)
    <2>1. PICK r : r = AfterAccept(e)
      OBVIOUS
    <2>2. /\ CancelGeneration(r, executes[e].gen)
          /\ UNCHANGED <<now, starting, closing, loop, cancelling, tick, activeTime, overtaken>>
      BY <1>2, <2>1 DEF RejectTimedOut
    <2>3. r = Row \/ r = Advance(Row, executes[e].gen, now)
      BY <2>1 DEF AfterAccept
    <2>4. /\ LedgerStep(budget, budget', now) /\ budget' \in Ledger /\ stage' \in Stages
          /\ executes' \in [Exec -> Executions] /\ monitor' \in Monitors
          /\ streaming' \in BOOLEAN /\ handoff' \in {"none", handoff}
          /\ \A o \in Exec : executes'[o] = Idle \/ executes'[o] = executes[o]
      BY <2>2, <2>3, CancelStep
    <2>5. TypeOK'
      BY <2>2, <2>4 DEF IInv, TypeOK, Monitors
    <2> QED
      BY <2>2, <2>4, <2>5 DEF Move, TokenMove, ClosingInv, IInv, Live
  <1>3. CASE RejectStopped(e)
    <2>1. /\ executes' = [executes EXCEPT ![e] = Idle]
          /\ UNCHANGED <<now, rows, starting, closing, loop, handoff, streaming,
                         cancelling, monitor, tick, activeTime, overtaken>>
      BY <1>3 DEF RejectStopped
    <2>2. executes' \in [Exec -> Executions] /\ \A o \in Exec : TokenMove(o)
      BY <2>1, Facts, EmptyTypes DEF TokenMove, Live
    <2>3. LedgerStep(budget, budget', now) /\ budget' \in Ledger
      BY <2>1, Still DEF rows
    <2>4. TypeOK'
      BY <2>1, <2>2, <2>3 DEF IInv, TypeOK, rows
    <2> QED
      BY <2>1, <2>2, <2>3, <2>4 DEF Move, ClosingInv, IInv
  <1>4. CASE RejectSuperseded(e)
    <2>1. /\ executes' = [executes EXCEPT ![e].state = "lost"]
          /\ executes[e].state = "done"
          /\ UNCHANGED <<now, rows, starting, closing, loop, handoff, streaming,
                         cancelling, monitor, tick, activeTime, overtaken>>
      BY <1>4 DEF RejectSuperseded
    <2>2. executes' \in [Exec -> Executions]
      BY <2>1, Facts DEF Executions
    <2>3. \A o \in Exec : TokenMove(o)
      BY <2>1, Facts DEF TokenMove, Live, Executions
    <2>4. LedgerStep(budget, budget', now) /\ budget' \in Ledger
      BY <2>1, Still DEF rows
    <2>5. TypeOK'
      BY <2>1, <2>2, <2>4 DEF IInv, TypeOK, rows
    <2> QED
      BY <2>1, <2>3, <2>4, <2>5 DEF Move, ClosingInv, IInv
  <1> QED
    BY <1>1, <1>2, <1>3, <1>4 DEF Result

\* What the gate does with a finished wave: every branch commits one ledger
\* transaction or none, and ends in a turn or in a scheduler stop.
LEMMA GateStep ==
    ASSUME IInv, NEW e \in Exec, Gate(e)
    PROVE  TypeOK' /\ Move
  <1>1. CASE Orchestrate(e) \/ FailWithFindings(e) \/ CloseEmpty(e)
    <2>1. PICK b \in {budget, NoBudget} : DispatchTo(b, {e})
      BY <1>1 DEF Orchestrate, FailWithFindings, CloseEmpty
    <2>2. /\ handoff' = "none" /\ budget' = budget
          /\ UNCHANGED <<now, starting, closing, loop, cancelling, tick, activeTime, overtaken>>
      BY <1>1 DEF Orchestrate, FailWithFindings, CloseEmpty, rows
    <2>3. \/ stage' = stage
          \/ \E status \in {"Waiting", "Completed"} :
                stage' = [stage EXCEPT !.status = status]
      BY <1>1 DEF Orchestrate, FailWithFindings, CloseEmpty, rows
    <2>4. stage' \in Stages
      BY <2>3, Facts DEF Stages, StageStatuses
    <2>5. LedgerStep(budget, budget', now) /\ budget' \in Ledger
      BY <2>2, Still
    <2> QED
      BY <2>1, <2>2, <2>4, <2>5, DispatchStep
  <1>2. CASE EscalateWave(e)
    <2>1. PICK r \in {Row, Escalate(Row, now)} : Commit(r) /\ DispatchTo(r.budget, {e})
      BY <1>2 DEF EscalateWave
    <2>2. /\ handoff' = "none"
          /\ UNCHANGED <<now, starting, closing, loop, cancelling, tick, activeTime, overtaken>>
      BY <1>2 DEF EscalateWave
    <2>3. r \in Rows /\ LedgerStep(budget, r.budget, now)
      BY <2>1, Facts, EscalateStep, NoStep
    <2>4. budget' = r.budget /\ budget' \in Ledger /\ stage' \in Stages
      BY <2>1, <2>3, Committed DEF IInv
    <2> QED
      BY <2>1, <2>2, <2>3, <2>4, DispatchStep
  <1>3. ASSUME NEW p \in BOOLEAN, BlockWithReport(p, e)
        PROVE  TypeOK' /\ Move
    <2>1. PICK r : r = BlockByReport(Row, now)
      OBVIOUS
    <2>2. r \in Rows /\ LedgerStep(budget, r.budget, now)
      BY <2>1, Facts, BlockStep
    <2>3. /\ handoff' = "none"
          /\ UNCHANGED <<now, starting, closing, loop, cancelling, tick, activeTime, overtaken>>
      BY <1>3 DEF BlockWithReport
    <2>4. CASE Commit(r) /\ DispatchTo(r.budget, {e})
      <3>1. budget' = r.budget /\ budget' \in Ledger /\ stage' \in Stages
        BY <2>2, <2>4, Committed DEF IInv
      <3> QED
        BY <2>2, <2>3, <2>4, <3>1, DispatchStep
    <2>5. CASE /\ budget' = r.budget
               /\ stage' = [stage EXCEPT !.status = "Blocked",
                              !.iteration = IF p /\ @ > 0 THEN @ - 1 ELSE @]
               /\ monitor' = NoMonitor
               /\ UNCHANGED <<executes, streaming>>
      <3>1. PICK n : n = IF p /\ stage.iteration > 0 THEN stage.iteration - 1
                         ELSE stage.iteration
        OBVIOUS
      <3>2. n \in Nat /\ "Blocked" \in StageStatuses
        BY <3>1, Facts DEF Stages, StageStatuses
      <3>3. stage' = [stage EXCEPT !.status = "Blocked", !.iteration = n]
        BY <2>5, <3>1
      <3>4. stage' \in Stages
        BY <3>2, <3>3, Facts, StageWritten
      <3>5. monitor' \in Monitors /\ budget' \in Ledger
        BY <2>2, <2>5, EmptyTypes, RowsType
      <3>6. TypeOK'
        BY <2>3, <2>5, <3>4, <3>5 DEF IInv, TypeOK, Monitors
      <3> QED
        BY <2>2, <2>3, <2>5, <3>6 DEF Move, TokenMove, ClosingInv, IInv, Live
    <2> QED
      BY <1>3, <2>1, <2>4, <2>5 DEF BlockWithReport
  <1> QED
    BY <1>1, <1>2, <1>3 DEF Gate

\* The pause of a close, failed or not.
LEMMA PausingClose ==
    ASSUME ClosePause
    PROVE  \E state, reason, r :
             /\ PauseKind(state, reason)
             /\ r = Pause(Row, closing.gen, state, reason, closing.at)
             /\ closing.pc = "accepted" /\ Commit(r)
             /\ closing' \in {NotClosing} \cup
                  {[NotClosing EXCEPT !.pc = pc, !.stage = closing.stage] :
                     pc \in {"closing", "failing"}}
             /\ UNCHANGED <<now, starting, tui, activeTime, overtaken>>
  <1>1. PauseKind("waiting", "closed") /\ PauseKind("blocked", "failed")
    BY DEF PauseKind
  <1> QED
    BY <1>1 DEF ClosePause

\* A close that is over, has read the stage, or has paused its ledger.
LEMMA OpenClose ==
    ASSUME IInv, now' = now,
           closing' \in {NotClosing} \cup
             {[NotClosing EXCEPT !.pc = pc, !.stage = s] :
                pc \in {"read", "closing", "failing"}, s \in {stage, closing.stage}}
    PROVE  closing' \in Closings /\ ClosingInv'
  <1>1. CASE closing' = NotClosing
    BY <1>1, EmptyTypes, Facts DEF ClosingInv, NotClosing
  <1>2. ASSUME NEW pc \in {"read", "closing", "failing"}, NEW s \in {stage, closing.stage},
               closing' = [NotClosing EXCEPT !.pc = pc, !.stage = s]
        PROVE  closing' \in Closings /\ ClosingInv'
    <2>1. s \in Stages
      BY Facts DEF Closings
    <2>2. closing' = [at |-> 0, gen |-> 0, pc |-> pc, stage |-> s]
      BY <1>2 DEF NotClosing
    <2> QED
      BY <2>1, <2>2, Facts DEF Closings, ClosingInv
  <1> QED
    BY <1>1, <1>2

\* CloseStage: what it reads, one step for each of its transactions, its death.
LEMMA ClosingStep ==
    ASSUME IInv, Closing
    PROVE  TypeOK' /\ Move
  <1>1. CASE CloseAccept
    <2>1. PICK r : r = Advance(Row, budget.gen, now)
      OBVIOUS
    <2>2. /\ budget.state = "active" /\ Commit(r)
          /\ closing' \in {NotClosing, [closing EXCEPT !.pc = "accepted",
                                        !.gen = budget.gen, !.at = now]}
          /\ UNCHANGED <<now, starting, tui, activeTime, overtaken>>
      BY <1>1, <2>1 DEF CloseAccept
    <2>3. r \in Rows /\ LedgerStep(budget, r.budget, now)
      BY <2>1, Facts, AdvanceStep
    <2>4. budget' = r.budget /\ budget' \in Ledger /\ stage' \in Stages
      BY <2>2, <2>3, Committed DEF IInv
    <2>5. closing' \in Closings
      BY <2>2, Facts, EmptyTypes DEF Closings
    <2>6. ClosingInv'
      <3>1. budget.gen > 0 /\ now' = now
        BY <2>2, Facts DEF LedgerInv
      <3>2. CASE closing' = [closing EXCEPT !.pc = "accepted", !.gen = budget.gen, !.at = now]
        <4>1. closing \in Closings /\ now \in Nat
          BY Facts
        <4>2. closing'.gen = budget.gen /\ closing'.at = now
          BY <3>2, <4>1 DEF Closings
        <4> QED
          BY <3>1, <4>1, <4>2 DEF ClosingInv
      <3> QED
        BY <2>2, <3>1, <3>2, Facts DEF ClosingInv, NotClosing
    <2>7. TypeOK'
      BY <2>2, <2>4, <2>5 DEF IInv, TypeOK, tui
    <2> QED
      BY <2>2, <2>3, <2>4, <2>6, <2>7 DEF Move, TokenMove, tui, Live
  <1>2. CASE ClosePause
    <2>1. PICK state, reason, r :
             /\ PauseKind(state, reason)
             /\ r = Pause(Row, closing.gen, state, reason, closing.at)
             /\ closing.pc = "accepted" /\ Commit(r)
             /\ closing' \in {NotClosing} \cup
                  {[NotClosing EXCEPT !.pc = pc, !.stage = closing.stage] :
                     pc \in {"closing", "failing"}}
             /\ UNCHANGED <<now, starting, tui, activeTime, overtaken>>
      BY <1>2, PausingClose
    <2>2. closing.at \in Nat /\ closing.at <= now /\ closing.gen \in Nat /\ closing.gen # 0
      BY <2>1, Facts DEF IInv, ClosingInv, Closings
    <2>3. r \in Rows /\ LedgerStep(budget, r.budget, now)
      BY <2>1, <2>2, Facts, PauseStep
    <2>4. budget' = r.budget /\ budget' \in Ledger /\ stage' \in Stages
      BY <2>1, <2>3, Committed DEF IInv
    <2>5. closing' \in Closings /\ ClosingInv'
      BY <2>1, OpenClose, Facts
    <2>6. TypeOK'
      BY <2>1, <2>4, <2>5 DEF IInv, TypeOK, tui
    <2> QED
      BY <2>1, <2>3, <2>4, <2>5, <2>6 DEF Move, TokenMove, tui, Live
  <1>3. CASE CloseWrite
    <2>1. /\ closing' = NotClosing
          /\ UNCHANGED <<now, budget, starting, tui, activeTime, overtaken>>
      BY <1>3 DEF CloseWrite
    <2>2. PICK status \in {"Completed", "PendingApproval", "Failed"} :
             stage' = [closing.stage EXCEPT !.status = status]
      BY <1>3 DEF CloseWrite
    <2>3. stage' \in Stages
      <3>1. closing.stage \in Stages /\ status \in StageStatuses
        BY Facts DEF Closings, StageStatuses
      <3> QED
        BY <2>2, <3>1, StageWritten
    <2>4. LedgerStep(budget, budget', now) /\ budget' \in Ledger
      BY <2>1, Still
    <2>5. closing' \in Closings /\ ClosingInv'
      BY <2>1, Facts, EmptyTypes DEF ClosingInv, NotClosing
    <2>6. TypeOK'
      BY <2>1, <2>3, <2>4, <2>5 DEF IInv, TypeOK, tui
    <2> QED
      BY <2>1, <2>4, <2>5, <2>6 DEF Move, TokenMove, tui, Live
  <1>4. CASE CloseRead \/ CloseDies
    <2>1. /\ closing' \in {NotClosing, [NotClosing EXCEPT !.pc = "read", !.stage = stage]}
          /\ UNCHANGED <<now, rows, starting, tui, activeTime, overtaken>>
      BY <1>4 DEF CloseRead, CloseDies
    <2>2. LedgerStep(budget, budget', now) /\ budget' \in Ledger
      BY <2>1, Still DEF rows
    <2>3. closing' \in Closings /\ ClosingInv'
      BY <2>1, OpenClose, Facts
    <2>4. TypeOK'
      BY <2>1, <2>2, <2>3 DEF IInv, TypeOK, tui, rows
    <2> QED
      BY <2>1, <2>2, <2>3, <2>4 DEF Move, TokenMove, tui, Live
  <1> QED
    BY <1>1, <1>2, <1>3, <1>4 DEF Closing

\* The human's operations.  A cancellation interrupts the current generation
\* only when an execution holds it, so never a spent ledger: this is where the
\* invariant on tokens is needed for the ledger.
LEMMA HumanStep ==
    ASSUME IInv, Human
    PROVE  TypeOK' /\ Move
  <1>1. CASE Rework
    <2>1. /\ stage' = [stage EXCEPT !.status = "Waiting"]
          /\ UNCHANGED <<now, budget, starting, closing, tui, activeTime, overtaken>>
      BY <1>1 DEF Rework
    <2>2. stage' \in Stages
      BY <2>1, Facts DEF Stages, StageStatuses
    <2>3. LedgerStep(budget, budget', now) /\ budget' \in Ledger
      BY <2>1, Still
    <2>4. TypeOK'
      BY <2>1, <2>2, <2>3 DEF IInv, TypeOK, tui
    <2> QED
      BY <2>1, <2>3, <2>4 DEF Move, TokenMove, ClosingInv, IInv, tui, Live
  <1>2. CASE IncreaseBudget
    <2>1. PICK r : /\ r = IF stage.status = "Running" /\ Exists(budget)
                             /\ OutOfTime(budget, now)
                          THEN Advance(Row, budget.gen, now) ELSE Row
                   /\ Commit(Increase(r, Additional, now))
      BY <1>2 DEF IncreaseBudget
    <2>2. UNCHANGED <<now, starting, closing, tui, activeTime, overtaken>>
      BY <1>2 DEF IncreaseBudget
    <2>3. /\ r \in Rows /\ LedgerStep(budget, r.budget, now)
          /\ r = Row \/ budget.state = "active"
      <3>1. Row.budget.state # "active" => Advance(Row, budget.gen, now) = Row
        BY Facts DEF Advance
      <3>2. LedgerStep(budget, Row.budget, now)
        BY Facts, NoStep
      <3>3. /\ LedgerStep(budget, Advance(Row, budget.gen, now).budget, now)
            /\ Advance(Row, budget.gen, now) \in Rows
        BY Facts, AdvanceStep
      <3> QED
        BY <2>1, <3>1, <3>2, <3>3, Facts
    <2>4. PICK q : q = Increase(r, Additional, now)
      OBVIOUS
    <2>5. q \in Rows /\ LedgerStep(r.budget, q.budget, now)
      <3>1. LedgerInv(r.budget, now)
        BY <2>3 DEF LedgerStep
      <3> QED
        BY <2>3, <2>4, <3>1, Facts, IncreaseStep
    <2>6. LedgerStep(budget, q.budget, now)
      <3>1. CASE r = Row
        BY <2>5, <3>1, Facts
      <3>2. CASE budget.state = "active"
        <4>1. r.budget \in Ledger /\ q.budget \in Ledger
          BY <2>3, <2>5, RowsType
        <4> QED
          BY <2>3, <2>5, <3>2, <4>1, Facts, TwoSteps
      <3> QED
        BY <2>3, <3>1, <3>2
    <2>7. budget' = q.budget /\ budget' \in Ledger /\ stage' \in Stages
      BY <2>1, <2>4, <2>5, Committed DEF IInv
    <2>8. TypeOK'
      BY <2>2, <2>7 DEF IInv, TypeOK, tui
    <2> QED
      BY <2>2, <2>6, <2>7, <2>8 DEF Move, TokenMove, ClosingInv, IInv, tui, Live
  <1>3. CASE Continue
    <2>1. PICK r : r = ContinueBudget(Row, now)
      OBVIOUS
    <2>2. /\ budget' = r.budget
          /\ stage' = [stage EXCEPT !.status = "Waiting", !.extra = @ + 1]
          /\ UNCHANGED <<now, starting, closing, tui, activeTime, overtaken>>
      BY <1>3, <2>1 DEF Continue
    <2>3. r \in Rows /\ LedgerStep(budget, r.budget, now)
      BY <2>1, Facts, ContinueStep
    <2>4. stage' \in Stages
      <3>1. PICK n : n = stage.extra + 1
        OBVIOUS
      <3>2. n \in Nat /\ "Waiting" \in StageStatuses
        BY <3>1, Facts DEF Stages, StageStatuses
      <3>3. stage' = [stage EXCEPT !.status = "Waiting", !.extra = n]
        BY <2>2, <3>1
      <3> QED
        BY <3>2, <3>3, Facts, StageWritten
    <2>5. budget' \in Ledger
      BY <2>2, <2>3, RowsType
    <2>6. TypeOK'
      BY <2>2, <2>4, <2>5 DEF IInv, TypeOK, tui
    <2> QED
      BY <2>2, <2>3, <2>6 DEF Move, TokenMove, ClosingInv, IInv, tui, Live
  <1>4. CASE UserCancel
    <2>1. PICK r : r = IF budget.gen > 0 /\ Held(budget.gen) # {}
                       THEN Interrupt(Row, budget.gen, now) ELSE Row
      OBVIOUS
    <2>2. /\ Commit(r)
          /\ executes' = [e \in Exec |-> Idle]
          /\ monitor' = NoMonitor /\ cancelling' = TRUE
          /\ UNCHANGED <<now, starting, closing, loop, handoff, streaming, tick, activeTime, overtaken>>
      BY <1>4, <2>1 DEF UserCancel
    <2>3. r \in Rows /\ LedgerStep(budget, r.budget, now)
      <3>1. CASE budget.gen > 0 /\ Held(budget.gen) # {}
        <4>1. PICK e \in Exec : Live(executes, e) /\ executes[e].gen = budget.gen
          BY <3>1 DEF Held
        <4>2. Row.budget.state # "expired"
          BY <3>1, <4>1, Facts DEF IInv, HeldTokens, Holds, Holdable
        <4> QED
          BY <2>1, <3>1, <4>2, Facts, InterruptStep
      <3>2. CASE ~(budget.gen > 0 /\ Held(budget.gen) # {})
        <4>1. r = Row
          BY <2>1, <3>2
        <4> QED
          BY <4>1, Facts, NoStep
      <3> QED
        BY <3>1, <3>2
    <2>4. budget' = r.budget /\ budget' \in Ledger /\ stage' \in Stages
      BY <2>2, <2>3, Committed DEF IInv
    <2>5. executes' \in [Exec -> Executions] /\ monitor' \in Monitors
          /\ \A e \in Exec : executes'[e] = Idle
      BY <2>2, EmptyTypes
    <2>6. TypeOK'
      BY <2>2, <2>4, <2>5 DEF IInv, TypeOK, Monitors
    <2> QED
      BY <2>2, <2>3, <2>4, <2>5, <2>6 DEF Move, TokenMove, ClosingInv, IInv
  <1>5. CASE CancelDone
    <2>1. /\ cancelling' = FALSE /\ streaming' = FALSE /\ handoff' = "none"
          /\ UNCHANGED <<now, rows, starting, closing, loop, executes, monitor, tick,
                         activeTime, overtaken>>
      BY <1>5 DEF CancelDone
    <2>2. LedgerStep(budget, budget', now) /\ budget' \in Ledger
      BY <2>1, Still DEF rows
    <2>3. TypeOK'
      BY <2>1, <2>2 DEF IInv, TypeOK, rows
    <2> QED
      BY <2>1, <2>2, <2>3 DEF Move, TokenMove, ClosingInv, IInv, Live
  <1> QED
    BY <1>1, <1>2, <1>3, <1>4, <1>5 DEF Human

\* A crash drops every execution; a restart recovers the ledger.
LEMMA CrashStep ==
    ASSUME IInv, Crash \/ Restart
    PROVE  TypeOK' /\ Move
  <1>1. CASE Crash
    <2>1. /\ loop' = "down" /\ executes' = [e \in Exec |-> Idle]
          /\ handoff' = "none" /\ streaming' = FALSE /\ cancelling' = FALSE
          /\ monitor' = NoMonitor /\ tick' = 0
          /\ UNCHANGED <<now, rows, starting, closing, activeTime, overtaken>>
      BY <1>1 DEF Crash
    <2>2. executes' \in [Exec -> Executions] /\ monitor' \in Monitors
          /\ \A e \in Exec : executes'[e] = Idle
      BY <2>1, EmptyTypes
    <2>3. LedgerStep(budget, budget', now) /\ budget' \in Ledger
      BY <2>1, Still DEF rows
    <2>4. TypeOK'
      BY <2>1, <2>2, <2>3 DEF IInv, TypeOK, rows, Monitors
    <2> QED
      BY <2>1, <2>2, <2>3, <2>4 DEF Move, TokenMove, ClosingInv, IInv
  <1>2. CASE Restart
    <2>1. PICK r : r = Recover(Row)
      OBVIOUS
    <2>2. /\ loop' = "running" /\ Commit(r)
          /\ UNCHANGED <<now, starting, closing, executes, handoff, streaming,
                         cancelling, monitor, tick, activeTime, overtaken>>
      BY <1>2, <2>1 DEF Restart
    <2>3. r \in Rows /\ LedgerStep(budget, r.budget, now)
      BY <2>1, Facts, RecoverStep
    <2>4. budget' = r.budget /\ budget' \in Ledger /\ stage' \in Stages
      BY <2>2, <2>3, Committed DEF IInv
    <2>5. TypeOK'
      BY <2>2, <2>4 DEF IInv, TypeOK
    <2> QED
      BY <2>2, <2>3, <2>4, <2>5 DEF Move, TokenMove, ClosingInv, IInv, Live
  <1> QED
    BY <1>1, <1>2

-----------------------------------------------------------------------------
(* Every step, and the theorems.                                           *)

\* Every step is a move or lets time pass.
LEMMA NextMove ==
    ASSUME IInv, Next
    PROVE  (TypeOK' /\ Move) \/ ClockTick
  BY StartingStep, WatchStep, WaveStep, AgentStep, ResultStep, GateStep, ClosingStep,
     HumanStep, CrashStep DEF Next, Agent

\* A tick of the clock adds to what the stage owes at most what it adds to the
\* time its ledger has been active.
LEMMA ClockInductive ==
    ASSUME IInv, ClockTick
    PROVE  IInv'
  <1>1. /\ now' = now + 1
        /\ activeTime' = activeTime + (IF budget.state = "active" THEN 1 ELSE 0)
        /\ UNCHANGED <<rows, starting, closing, tui, overtaken>>
    BY DEF ClockTick
  <1>2. TypeOK' /\ budget' = budget
    BY <1>1 DEF IInv, TypeOK, rows, tui
  <1>3. LedgerInv(budget, now)'
    BY <1>1, <1>2, Facts DEF LedgerInv, Ledger
  <1>4. NeverOvercharged'
    <2>1. Elapsed(budget, now + 1)
          <= Elapsed(budget, now) + (IF budget.state = "active" THEN 1 ELSE 0)
      BY Facts DEF Elapsed, Ledger
    <2>2. budget.consumed * UnitsPerMs + Elapsed(budget, now) <= activeTime
      BY DEF IInv, NeverOvercharged
    <2>3. /\ budget.consumed * UnitsPerMs \in Nat
          /\ Elapsed(budget, now) \in Nat /\ Elapsed(budget, now + 1) \in Nat
      <3>1. now + 1 \in Nat /\ budget.consumed \in Nat
        BY Facts DEF Ledger
      <3> QED
        BY <3>1, Facts, Charging, UnitsPerMsAssumption
    <2>4. budget.consumed * UnitsPerMs + Elapsed(budget, now + 1)
          <= activeTime + (IF budget.state = "active" THEN 1 ELSE 0)
      BY <2>1, <2>2, <2>3, Facts
    <2> QED
      BY <1>1, <1>2, <2>4 DEF NeverOvercharged
  <1>5. HeldTokens' /\ ClosingInv'
    BY <1>1, <1>2, Facts DEF IInv, HeldTokens, Holds, ClosingInv, rows, tui, Live, Closings
  <1> QED
    BY <1>2, <1>3, <1>4, <1>5 DEF IInv

\* The initial state: no ledger, nothing dispatched.
LEMMA InitIInv ==
    ASSUME Init
    PROVE  IInv
  <1>1. NoBudget \in Ledger /\ NoBudget.state = "none" /\ NoBudget.gen = 0
        /\ NoBudget.at = 0 /\ NoBudget.consumed = 0
    BY DEF NoBudget, Ledger, PauseReasons
  <1>2. TypeOK
    BY <1>1, EmptyTypes DEF Init, TypeOK, Stages, StageStatuses, Monitors
  <1>3. LedgerInv(budget, now) /\ ClosingInv
    BY <1>1 DEF Init, LedgerInv, ClosingInv, NotClosing
  <1>4. NeverOvercharged
    BY <1>1, UnitsPerMsAssumption DEF Init, NeverOvercharged, Elapsed
  <1>5. HeldTokens
    BY <1>1 DEF Init, HeldTokens, Holds, Idle, Live
  <1> QED
    BY <1>2, <1>3, <1>4, <1>5 DEF IInv

\* Steps and stutters keep the invariant.
LEMMA NextIInv ==
    ASSUME IInv, [Next]_vars
    PROVE  IInv'
  <1>1. CASE Next
    BY <1>1, NextMove, MoveInductive, ClockInductive
  <1>2. CASE UNCHANGED vars
    <2>1. UNCHANGED <<now, budget, stage, starting, closing, loop, executes, handoff,
                      streaming, cancelling, monitor, tick, activeTime, overtaken>>
      BY <1>2 DEF vars, rows, tui
    <2>2. TypeOK' /\ LedgerInv(budget, now)'
      BY <2>1 DEF IInv, TypeOK
    <2>3. NeverOvercharged' /\ HeldTokens' /\ ClosingInv'
      BY <2>1 DEF IInv, NeverOvercharged, HeldTokens, Holds, ClosingInv, Live
    <2> QED
      BY <2>2, <2>3 DEF IInv
  <1> QED
    BY <1>1, <1>2

\* The inductive invariant holds in every reachable state.
THEOREM Invariance == Spec => []IInv
  <1>1. Init => IInv
    BY InitIInv
  <1>2. IInv /\ [Next]_vars => IInv'
    BY NextIInv
  <1> QED
    BY <1>1, <1>2, PTL DEF Spec

\* Every variable keeps its type.
THEOREM TypeCorrect == Spec => []TypeOK
  <1>1. IInv => TypeOK
    BY DEF IInv
  <1> QED
    BY <1>1, Invariance, PTL

\* No interleaving of the TUI, CLI processes, crashes and restarts charges the
\* stage for time in which its clock did not run (internal/store/stage_budgets.go).
THEOREM NoOvercharge == Spec => []NeverOvercharged
  <1>1. IInv => NeverOvercharged
    BY DEF IInv
  <1> QED
    BY <1>1, Invariance, PTL

\* The ledger takes one step of StageLedger_proofs or none.
LEMMA NextLedger ==
    ASSUME IInv, [Next]_vars
    PROVE  budget' = budget \/ LedgerStep(budget, budget', now)
  BY NextMove DEF Move, ClockTick, vars, rows

\* Generations only grow; an expiry, an interruption and a block take a new one
\* unless it is the block of a failed close, and a clock restarts on the same one
\* only after a human wait or for the start a continuation or an increase prepared.
THEOREM GenerationsAreAttempts == Spec => GenerationIsOneAttempt
  <1>1. IInv /\ [Next]_vars =>
        [ /\ budget'.gen >= budget.gen
          /\ budget.state = "active" /\ budget'.state \in {"expired", "interrupted", "blocked"}
             => budget'.gen > budget.gen \/ budget'.pause = "failed"
          /\ budget.state # "active" /\ budget'.state = "active" /\ budget'.gen = budget.gen
             => budget.pause \in {"human", "continued", "increased"} ]_vars
    <2> SUFFICES ASSUME IInv, [Next]_vars
                 PROVE  /\ budget'.gen >= budget.gen
                        /\ budget.state = "active"
                           /\ budget'.state \in {"expired", "interrupted", "blocked"}
                           => budget'.gen > budget.gen \/ budget'.pause = "failed"
                        /\ budget.state # "active" /\ budget'.state = "active"
                           /\ budget'.gen = budget.gen
                           => budget.pause \in {"human", "continued", "increased"}
      OBVIOUS
    <2>1. budget.gen \in Nat
      BY Facts
    <2> QED
      BY <2>1, NextLedger DEF LedgerStep
  <1> QED
    BY <1>1, Invariance, PTL DEF GenerationIsOneAttempt, Spec

\* Only an increase takes a ledger out of state expired, and it adds time.
THEOREM OnlyIncreaseAddsTime == Spec => SpentNeedsIncrease
  <1>1. IInv /\ [Next]_vars =>
        [ budget.state = "expired" /\ budget'.state # "expired"
          => budget'.limit > budget.limit ]_vars
    BY NextLedger DEF LedgerStep
  <1> QED
    BY <1>1, Invariance, PTL DEF SpentNeedsIncrease, Spec

-----------------------------------------------------------------------------
(* The escalated stage: EscalatedStopsClock.  As it stands it is not       *)
(* inductive: an escalated stage whose ledger were paused for a human would*)
(* run again when the human answers.  No transaction leaves such a pair of *)
(* rows either, nor an execution that holds the generation of an escalated *)
(* or blocked stage, unless a start overtook the stage: this is Parked.    *)

Stopped(b) == b.state # "active" /\ ~(b.state = "waiting" /\ b.pause = "human")
Parkable == {"Escalated", "Blocked"}

Parked(r) ==
    r.status \in Parkable =>
        \/ r.budget.gen = overtaken
        \/ Stopped(r.budget) /\ \A e \in Exec : ~Holds(executes, e, r.budget.gen)

\* The rows a transaction of this step may find.
Reached == {r \in Rows : r.budget.gen >= budget.gen}

\* The current rows are among them, and a step of the ledger stays there.
LEMMA ReachedRows ==
    ASSUME IInv
    PROVE  /\ Row \in Reached
           /\ \A r \in Rows : LedgerStep(budget, r.budget, now) => r \in Reached
           /\ \A r \in Reached : r \in Rows /\ r.budget \in Ledger /\ r.budget.gen \in Nat
  BY Facts DEF Reached, LedgerStep, Rows, Ledger

-----------------------------------------------------------------------------
(* The transactions of the ledger, on rows that are parked.                *)

\* The ledgers that expiry and a charge write.
LEMMA ChargedColumns ==
    ASSUME NEW r \in Rows, NEW state, NEW pause, NEW gen, NEW t
    PROVE  /\ Expire(r, t).budget.state = "expired"
           /\ Charge(r, state, pause, gen, t).status = r.status
           /\ Charge(r, state, pause, gen, t).budget.state = state
           /\ Charge(r, state, pause, gen, t).budget.pause = pause
           /\ Charge(r, state, pause, gen, t).budget.gen = gen
           /\ Charge(r, state, pause, gen, t).budget.consumed = Charged(r.budget, t)
           /\ Charge(r, state, pause, gen, t).budget.limit = r.budget.limit
           /\ Charge(r, state, pause, gen, t).budget.at = t
  BY DEF Expire, Charge, Written, Rows

\* A ledger stopped on a new generation is parked whatever the stage: nobody
\* holds that generation yet.
LEMMA ParkedNew ==
    ASSUME IInv, NEW r \in Reached, NEW q, q.budget.gen = r.budget.gen + 1, Stopped(q.budget)
    PROVE  Parked(q)
  <1> SUFFICES ASSUME NEW e \in Exec
               PROVE  executes[e].gen # q.budget.gen
    BY DEF Parked, Holds
  <1>1. r.budget.gen \in Nat /\ budget.gen \in Nat /\ r.budget.gen >= budget.gen
    BY ReachedRows, Facts DEF Reached
  <1>2. executes[e].gen \in Nat /\ executes[e].gen <= budget.gen
    BY Facts DEF IInv, HeldTokens, Executions
  <1> QED
    BY <1>1, <1>2

\* An expiry.
LEMMA ParkedExpire ==
    ASSUME IInv, NEW r \in Reached, NEW t
    PROVE  Parked(Expire(r, t))
  <1>1. Expire(r, t).budget.gen = r.budget.gen + 1 /\ Stopped(Expire(r, t).budget)
    BY DEF Expire, Written, Stopped
  <1> QED
    BY <1>1, ParkedNew

\* A charge of a running ledger, which a parked stage has only if a start
\* overtook it.
LEMMA ParkedAdvance ==
    ASSUME IInv, NEW r \in Reached, NEW gen, NEW t, Parked(r)
    PROVE  Parked(Advance(r, gen, t))
  <1>1. r \in Rows
    BY ReachedRows
  <1>2. CASE r.budget.gen # gen \/ r.budget.state # "active"
    BY <1>2 DEF Advance
  <1>3. CASE r.budget.gen = gen /\ r.budget.state = "active" /\ OutOfTime(r.budget, t)
    BY <1>3, ParkedExpire DEF Advance
  <1>4. CASE r.budget.gen = gen /\ r.budget.state = "active" /\ ~OutOfTime(r.budget, t)
    <2>1. Advance(r, gen, t) = Charge(r, "active", r.budget.pause, gen, t)
      BY <1>4 DEF Advance
    <2> QED
      BY <1>1, <1>4, <2>1, ChargedColumns DEF Parked, Stopped
  <1> QED
    BY <1>2, <1>3, <1>4

\* A pause keeps the generation; one for a human is made of a running ledger.
LEMMA ParkedPause ==
    ASSUME IInv, NEW r \in Reached, NEW gen, NEW state, NEW reason, NEW t, Parked(r),
           PauseKind(state, reason), reason # "human" \/ r.budget.state = "active"
    PROVE  Parked(Pause(r, gen, state, reason, t))
  <1>1. r \in Rows
    BY ReachedRows
  <1>2. CASE PauseRefused(r, gen)
    BY <1>2 DEF Pause
  <1>3. CASE ~PauseRefused(r, gen) /\ OutOfTime(r.budget, t)
    BY <1>3, ParkedExpire DEF Pause
  <1>4. CASE ~PauseRefused(r, gen) /\ ~OutOfTime(r.budget, t)
    <2>1. Pause(r, gen, state, reason, t) = Charge(r, state, reason, gen, t)
          /\ gen = r.budget.gen
      BY <1>4 DEF Pause, PauseRefused
    <2> QED
      BY <1>1, <2>1, ChargedColumns DEF Parked, Stopped, PauseKind
  <1> QED
    BY <1>2, <1>3, <1>4

\* Only a ledger paused for a human is resumed.
LEMMA ParkedResume ==
    ASSUME IInv, NEW r \in Reached, NEW gen, NEW t, Parked(r),
           r.budget.state = "waiting", r.budget.pause = "human"
    PROVE  Parked(Resume(r, gen, t))
  <1>1. r \in Rows
    BY ReachedRows
  <1>2. CASE r.budget.gen # gen
    BY <1>2 DEF Resume
  <1>3. CASE r.budget.gen = gen /\ OutOfTime(r.budget, t)
    BY <1>3, ParkedExpire DEF Resume
  <1>4. CASE r.budget.gen = gen /\ ~OutOfTime(r.budget, t)
    <2>1. Resume(r, gen, t) = Charge(r, "active", "none", gen, t)
      BY <1>4 DEF Resume
    <2> QED
      BY <1>1, <1>4, <2>1, ChargedColumns DEF Parked, Stopped
  <1> QED
    BY <1>2, <1>3, <1>4

\* An interruption or a recovery takes a new generation.
LEMMA ParkedStop ==
    ASSUME IInv, NEW r \in Reached, NEW gen, NEW t, Parked(r)
    PROVE  Parked(Interrupt(r, gen, t)) /\ Parked(Recover(r))
  <1>1. Parked(Interrupt(r, gen, t))
    <2>1. CASE r.budget.gen # gen
      BY <2>1 DEF Interrupt
    <2>2. CASE r.budget.gen = gen
      <3>1. Interrupt(r, gen, t).budget.gen = r.budget.gen + 1
            /\ Stopped(Interrupt(r, gen, t).budget)
        BY <2>2 DEF Interrupt, Written, Stopped
      <3> QED
        BY <3>1, ParkedNew
    <2> QED
      BY <2>1, <2>2
  <1>2. Parked(Recover(r))
    <2>1. CASE r.budget.state # "active"
      BY <2>1 DEF Recover
    <2>2. CASE r.budget.state = "active"
      <3>1. Recover(r).budget.gen = r.budget.gen + 1 /\ Stopped(Recover(r).budget)
        BY <2>2 DEF Recover, Written, Stopped
      <3> QED
        BY <3>1, ParkedNew
    <2> QED
      BY <2>1, <2>2
  <1> QED
    BY <1>1, <1>2

\* Nobody holds the generation of a ledger that does not exist.
LEMMA ParkedWithoutLedger ==
    ASSUME NEW r, r.budget.state = "none", r.budget.gen = 0
    PROVE  Parked(r)
  BY DEF Parked, Stopped, Holds

\* A block takes a new generation.
LEMMA ParkedBlock ==
    ASSUME IInv, NEW r \in Reached, NEW t, NEW q,
           q.budget = Charge(r, "blocked", "none", r.budget.gen + 1, t).budget
    PROVE  Parked(q)
  <1>1. q.budget.gen = r.budget.gen + 1 /\ Stopped(q.budget)
    BY ReachedRows, ChargedColumns DEF Stopped
  <1> QED
    BY <1>1, ParkedNew

\* An escalation blocks the ledger, or finds none.
LEMMA ParkedEscalate ==
    ASSUME IInv, NEW r \in Reached, LedgerInv(r.budget, now), Parked(r)
    PROVE  Parked(Escalate(r, now))
  <1>1. CASE ~Exists(r.budget)
    <2>1. Escalate(r, now).budget = r.budget
      BY <1>1, ReachedRows DEF Escalate, Rows
    <2> QED
      BY <1>1, <2>1, ParkedWithoutLedger DEF Exists, LedgerInv
  <1>2. CASE Exists(r.budget) /\ r.budget.state # "expired" /\ ~OutOfTime(r.budget, now)
    <2>1. PICK c : c = Charge(r, "blocked", "none", r.budget.gen + 1, now)
      OBVIOUS
    <2>2. Escalate(r, now) = [c EXCEPT !.status = EscalatedFrom(@)]
      BY <1>2, <2>1 DEF Escalate, EscalateBudget
    <2>3. Escalate(r, now).budget = c.budget
      BY <2>1, <2>2, ReachedRows DEF Charge, Rows
    <2> QED
      BY <2>1, <2>3, ParkedBlock
  <1>3. CASE Exists(r.budget) /\ r.budget.state = "expired"
    BY <1>3 DEF Escalate, EscalateBudget
  <1>4. CASE Exists(r.budget) /\ r.budget.state # "expired" /\ OutOfTime(r.budget, now)
    BY <1>4, ParkedExpire DEF Escalate, EscalateBudget
  <1> QED
    BY <1>1, <1>2, <1>3, <1>4

\* An increase takes a new generation, after an expiry perhaps two.
LEMMA ParkedIncrease ==
    ASSUME IInv, NEW r \in Reached, LedgerInv(r.budget, now), NEW additional, Parked(r)
    PROVE  Parked(Increase(r, additional, now))
  <1>1. CASE IncreaseRefused(r, now)
    BY <1>1 DEF Increase
  <1>2. CASE ~IncreaseRefused(r, now)
    <2>1. PICK s : s = Advance(r, r.budget.gen, now)
      OBVIOUS
    <2>2. s \in Reached
      <3>1. s \in Rows /\ LedgerStep(r.budget, s.budget, now) /\ r \in Rows
        BY <2>1, AdvanceStep, ReachedRows, Facts
      <3>2. s.budget.gen >= r.budget.gen /\ r.budget.gen >= budget.gen
        BY <3>1 DEF LedgerStep, Reached
      <3>3. s.budget.gen \in Nat /\ r.budget.gen \in Nat /\ budget.gen \in Nat
        BY <3>1, Facts DEF Rows, Ledger
      <3> QED
        BY <3>1, <3>2, <3>3 DEF Reached
    <2>3. PICK b : b = Written(s.budget, "waiting", "increased", s.budget.consumed,
                               s.budget.gen + 1, now)
      OBVIOUS
    <2>4. PICK c : c = [b EXCEPT !.limit = @ + additional]
      OBVIOUS
    <2>5. c.state = "waiting" /\ c.pause = "increased" /\ c.gen = s.budget.gen + 1
      BY <2>3, <2>4 DEF Written
    <2>6. Increase(r, additional, now) = [s EXCEPT !.budget = c]
      BY <1>2, <2>1, <2>3, <2>4 DEF Increase
    <2>7. Increase(r, additional, now).budget = c
      BY <2>2, <2>6, ReachedRows DEF Rows
    <2>8. Stopped(c)
      BY <2>5 DEF Stopped
    <2> QED
      BY <2>2, <2>5, <2>7, <2>8, ParkedNew
  <1> QED
    BY <1>1, <1>2

-----------------------------------------------------------------------------
(* The steps of the stage.                                                 *)

\* A step that leaves rows that were parked, and overtakes nothing: whoever
\* holds a token of a stopped ledger held it before.
LEMMA ParkedRows ==
    ASSUME Move, NEW q, Parked(q), budget' = q.budget, stage'.status = q.status,
           overtaken' = overtaken
    PROVE  Parked(Row)'
  <1>1. Row'.budget = q.budget /\ Row'.status = q.status
    BY DEF Row
  <1>2. ASSUME NEW e \in Exec, Stopped(budget'), Holds(executes', e, budget'.gen)
        PROVE  Holds(executes, e, q.budget.gen)
    <2>1. Token(budget') = 0
      BY <1>2 DEF Token, Stopped
    <2>2. TokenMove(e)
      BY DEF Move
    <2> QED
      BY <1>2, <2>1, <2>2 DEF TokenMove, Holds, Idle, Live
  <1> QED
    BY <1>1, <1>2 DEF Parked, Holds, Live

\* A transaction commits the pair of rows it computed.
LEMMA ParkedCommit ==
    ASSUME IInv, Move, overtaken' = overtaken, NEW r, Commit(r), Parked(r)
    PROVE  Parked(Row)'
  <1>1. budget' = r.budget /\ stage'.status = r.status
    BY Facts DEF Stages, Commit
  <1> QED
    BY <1>1, ParkedRows

\* A step that writes neither row, or leaves the stage in another status.
LEMMA ParkedOther ==
    ASSUME Move, overtaken' = overtaken, Parked(Row),
           UNCHANGED rows \/ stage'.status \notin Parkable
    PROVE  Parked(Row)'
  <1>1. CASE UNCHANGED rows
    <2>1. budget' = Row.budget /\ stage'.status = Row.status
      BY <1>1 DEF Row, rows
    <2> QED
      BY <2>1, ParkedRows
  <1>2. CASE stage'.status \notin Parkable
    BY <1>2 DEF Parked, Row
  <1> QED
    BY <1>1, <1>2

\* The rows an acceptance leaves.
LEMMA ParkedAccepted ==
    ASSUME IInv, Parked(Row), NEW gen, NEW r, r = Row \/ r = Advance(Row, gen, now)
    PROVE  Parked(r) /\ r \in Reached /\ LedgerInv(r.budget, now)
  <1>1. Parked(r)
    BY ParkedAdvance, ReachedRows
  <1>2. r \in Rows /\ LedgerStep(budget, r.budget, now)
    BY AdvanceStep, NoStep, Facts
  <1> QED
    BY <1>1, <1>2, ReachedRows DEF LedgerStep

\* refreshStageBudgetWait.
LEMMA ParkedRefresh ==
    ASSUME IInv, Move, overtaken' = overtaken,
           NEW r \in Reached, Parked(r), NEW ex, RefreshWait(r, ex)
    PROVE  Parked(Row)'
  <1> DEFINE pausing  == AllWait(ex) /\ r.budget.state = "active"
             resuming == Runnable(ex) /\ r.budget.state = "waiting"
                         /\ r.budget.pause = "human"
  <1>1. PICK p : /\ p = IF pausing THEN Pause(r, r.budget.gen, "waiting", "human", now)
                        ELSE IF resuming THEN Resume(r, r.budget.gen, now) ELSE r
                 /\ Commit(p)
    BY DEF RefreshWait
  <1>2. PauseKind("waiting", "human")
    BY DEF PauseKind
  <1>3. Parked(p)
    BY <1>1, <1>2, ParkedPause, ParkedResume
  <1> QED
    BY <1>1, <1>3, ParkedCommit

\* cancelStageBudgetExecutions.
LEMMA ParkedCancel ==
    ASSUME IInv, Move, overtaken' = overtaken,
           NEW r \in Reached, Parked(r), NEW gen, CancelGeneration(r, gen)
    PROVE  Parked(Row)'
  <1>1. Commit(Advance(r, gen, now))
    BY DEF CancelGeneration
  <1> QED
    BY <1>1, ParkedAdvance, ParkedCommit

\* The ledger's transaction of a start: what it sets running of a stage that
\* is not Waiting is overtaken, and what it cannot start stays stopped.
LEMMA ParkedBegin ==
    ASSUME IInv, Move, Parked(Row), StartBegin
    PROVE  Parked(Row)'
  <1>1. PICK r : r = Begin(Row, Limit, now)
    OBVIOUS
  <1>2. /\ Commit(r)
        /\ overtaken' = IF Begun(Row, Limit, now) /\ stage.status # "Waiting"
                        THEN r.budget.gen ELSE overtaken
    BY <1>1 DEF StartBegin
  <1>3. Row'.budget = r.budget /\ Row'.status = r.status /\ Row.status = stage.status
    BY <1>2, Facts DEF Stages, Commit, Row
  <1>4. CASE Begun(Row, Limit, now) /\ stage.status # "Waiting"
    BY <1>2, <1>3, <1>4 DEF Parked
  <1>5. CASE Begun(Row, Limit, now) /\ stage.status = "Waiting"
    <2>1. r.budget.state = "active"
      BY <1>1, <1>5 DEF Begun
    <2>2. Expire(Row, now).budget.state # "active"
      BY DEF Expire, Written
    <2>3. r.status = "Waiting"
      BY <1>1, <1>3, <1>5, <2>1, <2>2, ChargedColumns, Facts DEF Begin, Rows
    <2> QED
      BY <1>3, <2>3 DEF Parked, Parkable
  <1>6. CASE ~Begun(Row, Limit, now)
    <2>1. r = Row \/ r = Expire(Row, now)
      <3>1. ASSUME NEW gen
            PROVE  Charge(Row, "active", "none", gen, now).budget.state = "active"
        BY Facts, ChargedColumns
      <3>2. CASE ~Exists(Row.budget)
        <4>1. r.budget.state = "active" /\ ~BeginRefused(Row)
          BY <1>1, <3>2, Facts DEF Begin, Exists, BeginRefused, Rows
        <4> QED
          BY <1>1, <1>6, <4>1 DEF Begun
      <3>3. CASE Exists(Row.budget) /\ Row.budget.state \in {"waiting", "blocked"}
        <4>1. ~BeginRefused(Row)
          BY <3>3 DEF BeginRefused
        <4> QED
          BY <1>1, <1>6, <3>1, <3>3, <4>1 DEF Begin, Begun
      <3>4. CASE Exists(Row.budget) /\ Row.budget.state \notin {"waiting", "blocked"}
        BY <1>1, <3>4 DEF Begin
      <3> QED
        BY <3>2, <3>3, <3>4
    <2>2. Parked(r)
      BY <2>1, ReachedRows, ParkedExpire
    <2> QED
      BY <1>2, <1>6, <2>2, ParkedCommit
  <1> QED
    BY <1>4, <1>5, <1>6

\* The rest of StartStage.
LEMMA ParkedStarting ==
    ASSUME IInv, Move, overtaken' = overtaken, Parked(Row), Starting, ~StartBegin
    PROVE  Parked(Row)'
  <1>1. CASE StartExhausted
    <2>1. Commit(Escalate(Row, now))
      BY <1>1 DEF StartExhausted
    <2> QED
      BY <2>1, Facts, ReachedRows, ParkedEscalate, ParkedCommit
  <1>2. CASE StartWrite
    <2>1. stage'.status = "Running"
      BY <1>2, Facts DEF StartWrite, Stages, Starts
    <2> QED
      BY <2>1, ParkedOther DEF Parkable
  <1>3. CASE StartRead \/ StartCheck \/ StartDies
    BY <1>3, ParkedOther DEF StartRead, StartCheck, StartDies
  <1> QED
    BY <1>1, <1>2, <1>3 DEF Starting

\* The monitor's ticks.
LEMMA ParkedWatch ==
    ASSUME IInv, Move, overtaken' = overtaken, Parked(Row), Watch
    PROVE  Parked(Row)'
  <1>1. CASE PostTick \/ Deadline
    BY <1>1, ParkedOther DEF PostTick, Deadline
  <1>2. CASE HandleTick
    <2>1. PICK r : r = Advance(Row, tick, now)
      OBVIOUS
    <2>2. UNCHANGED rows \/ Commit(r) \/ CancelGeneration(r, tick)
      BY <1>2, <2>1 DEF HandleTick
    <2>3. Parked(r) /\ r \in Reached
      BY <2>1, ParkedAccepted
    <2> QED
      BY <2>2, <2>3, ParkedOther, ParkedCommit, ParkedCancel
  <1> QED
    BY <1>1, <1>2 DEF Watch

\* A blocked report: the stage is blocked with its ledger, or has none.
LEMMA ParkedReport ==
    ASSUME IInv, Move, overtaken' = overtaken, Parked(Row),
           NEW e \in Exec, NEW p \in BOOLEAN, BlockWithReport(p, e)
    PROVE  Parked(Row)'
  <1>1. PICK r : r = BlockByReport(Row, now)
    OBVIOUS
  <1>2. CASE Commit(r) /\ r.budget.state = "expired"
    <2>1. r = Row \/ r = Expire(Row, now)
          \/ r = Charge(Row, "blocked", "none", Row.budget.gen + 1, now)
      BY <1>1 DEF BlockByReport
    <2>2. Parked(r)
      BY <2>1, ReachedRows, ParkedExpire, ParkedBlock
    <2> QED
      BY <1>2, <2>2, ParkedCommit
  <1>3. CASE /\ r.budget.state # "expired" /\ budget' = r.budget
             /\ stage' = [stage EXCEPT !.status = "Blocked",
                            !.iteration = IF p /\ @ > 0 THEN @ - 1 ELSE @]
    <2>1. PICK q : q = [budget |-> r.budget, status |-> "Blocked"]
      OBVIOUS
    <2>2. stage'.status = "Blocked"
      BY <1>3, Facts DEF Stages
    <2>3. CASE budget.state = "active"
      <3>1. r.budget = Charge(Row, "blocked", "none", Row.budget.gen + 1, now).budget
        BY <1>1, <1>3, <2>3, Facts, ChargedColumns DEF BlockByReport
      <3>2. Parked(q)
        BY <2>1, <3>1, ReachedRows, ParkedBlock
      <3> QED
        BY <1>3, <2>1, <2>2, <3>2, ParkedRows
    <2>4. CASE budget.state # "active"
      <3>1. r.budget = budget /\ budget.state = "none"
        <4>1. r = Row
          BY <1>1, <2>4, Facts DEF BlockByReport
        <4>2. budget.state \notin {"waiting", "blocked", "interrupted", "expired"}
          BY <1>3, <4>1, Facts DEF BlockWithReport, BlockRefused
        <4> QED
          BY <2>4, <4>1, <4>2, Facts DEF Ledger, BudgetStates
      <3>2. Parked(q)
        BY <2>1, <3>1, Facts, ParkedWithoutLedger DEF LedgerInv
      <3> QED
        BY <1>3, <2>1, <2>2, <3>2, ParkedRows
    <2> QED
      BY <2>3, <2>4
  <1> QED
    BY <1>1, <1>2, <1>3 DEF BlockWithReport

\* Waves and the gate.
LEMMA ParkedGate ==
    ASSUME IInv, Move, overtaken' = overtaken, Parked(Row),
           Dispatch \/ \E e \in Exec : Gate(e)
    PROVE  Parked(Row)'
  <1>1. Parked(Escalate(Row, now)) /\ Parked(TimeoutChecked)
    BY Facts, ReachedRows, ParkedEscalate DEF TimeoutChecked
  <1>2. CASE \E r \in {Row, Escalate(Row, now), TimeoutChecked} : Commit(r)
    BY <1>1, <1>2, ParkedCommit
  <1>3. CASE \E status \in StageStatuses \ Parkable : stage' = [stage EXCEPT !.status = status]
    <2>1. stage'.status \notin Parkable
      BY <1>3, Facts DEF Stages
    <2> QED
      BY <2>1, ParkedOther
  <1>4. CASE UNCHANGED rows
    BY <1>4, ParkedOther
  <1>5. ASSUME NEW e \in Exec, Gate(e), ~\E p \in BOOLEAN : BlockWithReport(p, e)
        PROVE  Parked(Row)'
    <2>1. CASE Orchestrate(e)
      BY <1>4, <2>1 DEF Orchestrate
    <2>2. CASE FailWithFindings(e) \/ CloseEmpty(e)
      BY <1>3, <2>2 DEF FailWithFindings, CloseEmpty, StageStatuses, Parkable
    <2>3. CASE EscalateWave(e)
      BY <1>2, <2>3 DEF EscalateWave
    <2> QED
      BY <1>5, <2>1, <2>2, <2>3 DEF Gate
  <1>6. CASE Dispatch
    <2>1. CASE EscalateStalled
      BY <1>2, <2>1 DEF EscalateStalled
    <2>2. ASSUME NEW S \in SUBSET Exec, Wave(S)
          PROVE  Parked(Row)'
      <3>1. CASE DispatchWave(S) \/ RetryWave(S)
        BY <1>4, <3>1 DEF DispatchWave, RetryWave
      <3>2. CASE NextWave(S)
        BY <1>2, <3>2 DEF NextWave
      <3> QED
        BY <2>2, <3>1, <3>2 DEF Wave
    <2> QED
      BY <1>6, <2>1, <2>2 DEF Dispatch
  <1> QED
    BY <1>5, <1>6, ParkedReport

\* Agents: their questions and their results.
LEMMA ParkedAgent ==
    ASSUME IInv, Move, overtaken' = overtaken, Parked(Row), NEW e \in Exec, Agent(e)
    PROVE  Parked(Row)'
  <1>1. PICK r : r = AfterAccept(e)
    OBVIOUS
  <1>2. Parked(r) /\ r \in Reached
    BY <1>1, ParkedAccepted DEF AfterAccept
  <1>3. CASE Finish(e) \/ RejectStopped(e) \/ RejectSuperseded(e)
    BY <1>3, ParkedOther DEF Finish, RejectStopped, RejectSuperseded
  <1>4. ASSUME NEW w \in BOOLEAN, SetWaiting(e, w)
        PROVE  Parked(Row)'
    BY <1>4, ReachedRows, ParkedRefresh DEF SetWaiting
  <1>5. CASE AcceptResult(e)
    <2>1. PICK ex : UNCHANGED rows \/ RefreshWait(r, ex)
      BY <1>1, <1>5 DEF AcceptResult, rows
    <2> QED
      BY <1>2, <2>1, ParkedOther, ParkedRefresh
  <1>6. CASE RejectTimedOut(e)
    <2>1. CancelGeneration(r, executes[e].gen)
      BY <1>1, <1>6 DEF RejectTimedOut
    <2> QED
      BY <1>2, <2>1, ParkedCancel
  <1> QED
    BY <1>3, <1>4, <1>5, <1>6 DEF Agent, Result

\* CloseStage.
LEMMA ParkedClosing ==
    ASSUME IInv, Move, overtaken' = overtaken, Parked(Row), Closing
    PROVE  Parked(Row)'
  <1>1. CASE CloseAccept
    <2>1. Commit(Advance(Row, budget.gen, now))
      BY <1>1 DEF CloseAccept
    <2> QED
      BY <2>1, ReachedRows, ParkedAdvance, ParkedCommit
  <1>2. CASE ClosePause
    <2>1. PICK failed \in BOOLEAN :
             Commit(IF failed THEN Pause(Row, closing.gen, "blocked", "failed", closing.at)
                    ELSE Pause(Row, closing.gen, "waiting", "closed", closing.at))
      BY <1>2 DEF ClosePause
    <2>2. PauseKind("waiting", "closed") /\ PauseKind("blocked", "failed")
      BY DEF PauseKind
    <2> QED
      BY <2>1, <2>2, ReachedRows, ParkedPause, ParkedCommit
  <1>3. CASE CloseWrite
    <2>1. PICK status \in {"Completed", "PendingApproval", "Failed"} :
             stage' = [closing.stage EXCEPT !.status = status]
      BY <1>3 DEF CloseWrite
    <2>2. stage'.status \notin Parkable
      BY <2>1, Facts DEF Closings, Stages, Parkable
    <2> QED
      BY <2>2, ParkedOther
  <1>4. CASE CloseRead \/ CloseDies
    BY <1>4, ParkedOther DEF CloseRead, CloseDies
  <1> QED
    BY <1>1, <1>2, <1>3, <1>4 DEF Closing

\* A continuation leaves the ledger as it is, or paused on its generation.
LEMMA ContinuedLedger ==
    ASSUME IInv, Continue
    PROVE  /\ budget.state # "active"
           /\ \/ budget' = budget
              \/ /\ budget'.state = "waiting" /\ budget'.pause = "continued"
                 /\ budget'.gen = budget.gen
  <1>1. /\ Exists(budget) => ~ContinueRefused(Row) /\ ~OutOfTime(budget, now)
        /\ budget' = ContinueBudget(Row, now).budget
    BY DEF Continue
  <1>2. budget.state # "active"
    BY <1>1, Facts DEF Exists, ContinueRefused
  <1>3. CASE budget.state \in {"blocked", "interrupted"}
    <2>1. ContinueBudget(Row, now) = Charge(Row, "waiting", "continued", budget.gen, now)
      BY <1>1, <1>3, Facts DEF ContinueBudget, Exists
    <2> QED
      BY <1>1, <1>2, <2>1, Facts, ChargedColumns
  <1>4. CASE budget.state \notin {"blocked", "interrupted"}
    BY <1>1, <1>2, <1>4, Facts DEF ContinueBudget
  <1> QED
    BY <1>3, <1>4

\* The human, crashes and restarts.
LEMMA ParkedHuman ==
    ASSUME IInv, Move, overtaken' = overtaken, Parked(Row), Human \/ Crash \/ Restart
    PROVE  Parked(Row)'
  <1>1. CASE Rework \/ Continue
    <2>1. stage'.status = "Waiting"
      BY <1>1, Facts DEF Rework, Continue, Stages
    <2> QED
      BY <2>1, ParkedOther DEF Parkable
  <1>2. CASE IncreaseBudget
    <2>1. PICK r : /\ r = Row \/ r = Advance(Row, budget.gen, now)
                   /\ Commit(Increase(r, Additional, now))
      BY <1>2 DEF IncreaseBudget
    <2>2. Parked(r) /\ r \in Reached /\ LedgerInv(r.budget, now)
      BY <2>1, ParkedAccepted
    <2> QED
      BY <2>1, <2>2, ParkedIncrease, ParkedCommit
  <1>3. CASE UserCancel
    <2>1. Commit(Interrupt(Row, budget.gen, now)) \/ Commit(Row)
      BY <1>3 DEF UserCancel
    <2> QED
      BY <2>1, ReachedRows, ParkedStop, ParkedCommit
  <1>4. CASE CancelDone \/ Crash
    BY <1>4, ParkedOther DEF CancelDone, Crash
  <1>5. CASE Restart
    <2>1. Commit(Recover(Row))
      BY <1>5 DEF Restart
    <2> QED
      BY <2>1, ReachedRows, ParkedStop, ParkedCommit
  <1> QED
    BY <1>1, <1>2, <1>3, <1>4, <1>5 DEF Human

\* Only a start overtakes.
LEMMA OvertakenByStart ==
    ASSUME Next, ~StartBegin
    PROVE  overtaken' = overtaken
  <1>1. CASE ClockTick \/ Starting \/ Watch \/ Closing \/ Human \/ Crash \/ Restart
    BY <1>1 DEF ClockTick, Starting, StartRead, StartCheck, StartExhausted, StartWrite, StartDies,
                Watch, PostTick, Deadline, HandleTick, Closing, CloseRead, CloseAccept,
                ClosePause, CloseWrite, CloseDies, Human, Rework, IncreaseBudget, Continue,
                UserCancel, CancelDone, Crash, Restart
  <1>2. CASE Dispatch
    BY <1>2 DEF Dispatch, EscalateStalled, Wave, DispatchWave, NextWave, RetryWave
  <1>3. ASSUME NEW e \in Exec, Agent(e) \/ Gate(e)
        PROVE  overtaken' = overtaken
    BY <1>3 DEF Agent, Finish, SetWaiting, Result, AcceptResult, RejectTimedOut, RejectStopped,
                RejectSuperseded, Gate, Orchestrate, FailWithFindings, EscalateWave, CloseEmpty,
                BlockWithReport
  <1> QED
    BY <1>1, <1>2, <1>3 DEF Next

\* Every step leaves the stage parked.
LEMMA NextParked ==
    ASSUME IInv, Parked(Row), [Next]_vars
    PROVE  Parked(Row)'
  <1>1. CASE ClockTick \/ UNCHANGED vars
    <2>1. UNCHANGED <<rows, executes, overtaken>>
      BY <1>1 DEF ClockTick, vars, rows, tui
    <2> QED
      BY <2>1 DEF Parked, Row, rows, Holds, Live
  <1>2. CASE Next /\ ~ClockTick
    <2>1. Move /\ (StartBegin \/ overtaken' = overtaken)
      BY <1>2, NextMove, OvertakenByStart
    <2> QED
      BY <1>2, <2>1, ParkedBegin, ParkedStarting, ParkedWatch, ParkedGate, ParkedAgent,
         ParkedClosing, ParkedHuman DEF Next
  <1> QED
    BY <1>1, <1>2

\* The stage and its ledger stop together through every transaction of
\* StartStage, CloseStage, the deadline, the gate, the human and the recovery,
\* except under a generation that a start set running after its stage had
\* stopped waiting, and such a generation has no holders.
THEOREM ParkedHolds == Spec => []Parked(Row)
  <1>1. Init => Parked(Row)
    BY DEF Init, Parked, Row, NewStage, Parkable
  <1>2. IInv /\ Parked(Row) /\ [Next]_vars => Parked(Row)'
    BY NextParked
  <1> QED
    BY <1>1, <1>2, Invariance, PTL DEF Spec

\* The clock of an escalated stage is stopped, whatever processes the
\* transactions of StartStage, CloseStage, the monitor and the human come from,
\* unless a start had checked the stage before it was escalated
\* (escalateBudgetStageTx, internal/store/stage_budgets.go).
THEOREM EscalationStopsClock == Spec => []EscalatedStopsClock
  <1>1. Parked(Row) => EscalatedStopsClock
    BY DEF Parked, Parkable, Stopped, Row, EscalatedStopsClock
  <1> QED
    BY <1>1, ParkedHolds, PTL

-----------------------------------------------------------------------------
(* The watch: ActiveIsWatched.  The scheduler dispatches only when nothing *)
(* is in flight, so all live executions hold one token; a step that clears *)
(* the monitor stops the ledger of that token or drops them all.           *)

\* A finished wave that waits to be judged has no live execution left, and all
\* live executions hold the token of one dispatch.
GateIsQuiet == handoff = "gate" => \A e \in Exec : ~Live(executes, e)
OneToken == \A e, f \in Exec : Live(executes, e) /\ Live(executes, f)
                               => executes[e].gen = executes[f].gen

\* A continuation gives no token back, but that of an overtaken start.
Continued(b) == b.state = "waiting" /\ b.pause = "continued"
ContinuedIsOvertaken ==
    Continued(budget)
    => \A e \in Exec : Holds(executes, e, budget.gen) => budget.gen = overtaken

WatchInv ==
    /\ GateIsQuiet
    /\ OneToken
    /\ ActiveIsWatched
    /\ ContinuedIsOvertaken

\* No transaction but a resumption starts the clock on the same generation,
\* except for the start that a continuation or an increase prepared, and none
\* but a continuation prepares it like one.
RunsOn(b, c) ==
    /\ c.state = "active" /\ c.gen = b.gen
       => b.state = "active" \/ b.pause \in {"continued", "increased"}
    /\ Continued(c) => Continued(b) /\ c.gen = b.gen

\* A stopped ledger that no continuation prepared.
Idles(b) == b.state # "active" /\ ~Continued(b)

\* The columns of an UPDATE.
LEMMA WrittenColumns ==
    ASSUME NEW b, NEW state, NEW pause, NEW consumed, NEW gen, NEW at
    PROVE  /\ Written(b, state, pause, consumed, gen, at).state = state
           /\ Written(b, state, pause, consumed, gen, at).pause = pause
           /\ Written(b, state, pause, consumed, gen, at).gen = gen
           /\ Written(b, state, pause, consumed, gen, at).consumed = consumed
           /\ Written(b, state, pause, consumed, gen, at).limit = b.limit
  BY DEF Written

\* A checkpoint or an acceptance.
LEMMA AdvanceRunsOn ==
    ASSUME NEW r \in Rows, NEW gen, NEW t
    PROVE  /\ RunsOn(r.budget, Advance(r, gen, t).budget)
           /\ Advance(r, gen, t).budget.state = "active" => Advance(r, gen, t).budget.gen = r.budget.gen
           /\ r.budget.state # "active" => Advance(r, gen, t) = r
  BY ChargedColumns DEF Advance, RunsOn, Continued

\* A start takes a new generation after a human wait.
LEMMA BeginRunsOn ==
    ASSUME NEW r \in Rows, NEW limit, NEW t, LedgerInv(r.budget, t)
    PROVE  RunsOn(r.budget, Begin(r, limit, t).budget)
  <1>1. CASE ~Exists(r.budget)
    <2>1. Begin(r, limit, t).budget.gen = 1 /\ r.budget.gen = 0
      BY <1>1 DEF Begin, Exists, LedgerInv, Rows
    <2>2. Begin(r, limit, t).budget.state = "active"
      BY <1>1 DEF Begin, Exists, Rows
    <2> QED
      BY <2>1, <2>2 DEF RunsOn, Continued
  <1>2. CASE Exists(r.budget)
    <2>1. r.budget.gen \in Nat
      BY DEF Rows, Ledger
    <2>2. r.budget.gen + 1 # r.budget.gen
      BY <2>1
    <2> QED
      BY <1>2, <2>2, ChargedColumns DEF Begin, RunsOn, Continued, KeepsGeneration
  <1> QED
    BY <1>1, <1>2

\* A pause stops the clock.
LEMMA PauseRunsOn ==
    ASSUME NEW r \in Rows, NEW gen, NEW state, NEW reason, PauseKind(state, reason), NEW t
    PROVE  /\ RunsOn(r.budget, Pause(r, gen, state, reason, t).budget)
           /\ ~PauseRefused(r, gen) => Idles(Pause(r, gen, state, reason, t).budget)
  BY ChargedColumns DEF Pause, RunsOn, Continued, PauseKind, Idles

\* Blocks, escalations, interruptions and recoveries stop it.
LEMMA StopsRunOn ==
    ASSUME NEW r \in Rows, NEW gen, NEW t
    PROVE  /\ RunsOn(r.budget, BlockByReport(r, t).budget)
           /\ RunsOn(r.budget, Escalate(r, t).budget)
           /\ RunsOn(r.budget, Interrupt(r, gen, t).budget)
           /\ RunsOn(r.budget, Recover(r).budget)
  <1>1. RunsOn(r.budget, BlockByReport(r, t).budget)
    BY ChargedColumns DEF BlockByReport, RunsOn, Continued
  <1>2. RunsOn(r.budget, Escalate(r, t).budget)
    <2>1. CASE Exists(r.budget)
      <3>1. PICK s : s = Charge(r, "blocked", "none", r.budget.gen + 1, t)
        OBVIOUS
      <3>2. s.budget.state = "blocked"
        BY <3>1, ChargedColumns
      <3>3. [s EXCEPT !.status = EscalatedFrom(@)].budget = s.budget
        BY <3>1 DEF Charge, Rows
      <3>4. Idles(Escalate(r, t).budget)
        BY <2>1, <3>1, <3>2, <3>3, ChargedColumns DEF Escalate, EscalateBudget, Idles, Continued
      <3> QED
        BY <3>4 DEF RunsOn, Idles
    <2>2. CASE ~Exists(r.budget)
      BY <2>2 DEF Escalate, Exists, RunsOn, Continued, Rows
    <2> QED
      BY <2>1, <2>2
  <1>3. RunsOn(r.budget, Interrupt(r, gen, t).budget)
    BY WrittenColumns DEF Interrupt, RunsOn, Continued
  <1>4. RunsOn(r.budget, Recover(r).budget)
    BY WrittenColumns DEF Recover, RunsOn, Continued
  <1> QED
    BY <1>1, <1>2, <1>3, <1>4

\* An increase leaves a stopped clock.
LEMMA IncreaseRunsOn ==
    ASSUME NEW r \in Rows, NEW n, NEW t
    PROVE  /\ RunsOn(r.budget, Increase(r, n, t).budget)
           /\ ~IncreaseRefused(r, t) => Idles(Increase(r, n, t).budget)
  <1>1. ASSUME IncreaseRefused(r, t)
        PROVE  RunsOn(r.budget, Increase(r, n, t).budget)
    BY <1>1 DEF Increase, RunsOn
  <1>2. ASSUME ~IncreaseRefused(r, t)
        PROVE  Idles(Increase(r, n, t).budget)
    <2>1. PICK s : s = Advance(r, r.budget.gen, t)
      OBVIOUS
    <2>2. PICK b : b = Written(s.budget, "waiting", "increased", s.budget.consumed,
                               s.budget.gen + 1, t)
      OBVIOUS
    <2>3. Increase(r, n, t) = [s EXCEPT !.budget = [b EXCEPT !.limit = @ + n]]
      BY <1>2, <2>1, <2>2 DEF Increase
    <2>4. Idles([b EXCEPT !.limit = @ + n])
      BY <2>2 DEF Written, Idles, Continued
    <2>5. [s EXCEPT !.budget = [b EXCEPT !.limit = @ + n]].budget
          = [b EXCEPT !.limit = @ + n]
      BY <2>1 DEF Advance, Expire, Charge, Rows
    <2> QED
      BY <2>3, <2>4, <2>5
  <1> QED
    BY <1>1, <1>2 DEF RunsOn, Idles

-----------------------------------------------------------------------------
\* The executions ex hold no token that was not held: some may be gone.
Fewer(ex) == \A e \in Exec : Live(ex, e) => Live(executes, e) /\ ex[e].gen = executes[e].gen

\* Quiet steps: whoever is alive held the same token before.
LEMMA FewerInv ==
    ASSUME WatchInv, Fewer(executes'), handoff' \in {handoff, "none"}
    PROVE  GateIsQuiet' /\ OneToken'
  <1>1. GateIsQuiet'
    BY DEF WatchInv, GateIsQuiet, Fewer
  <1>2. OneToken'
    BY DEF WatchInv, OneToken, Fewer
  <1> QED
    BY <1>1, <1>2

\* The holders of a generation after such a step: it is an old generation, and
\* they held it before.
LEMMA OldHolders ==
    ASSUME IInv, LedgerStep(budget, budget', now), Fewer(executes'),
           NEW e \in Exec, Holds(executes', e, budget'.gen)
    PROVE  budget'.gen = budget.gen /\ Holds(executes, e, budget.gen) /\ Holdable(budget)
  <1>1. Live(executes, e) /\ executes'[e].gen = executes[e].gen
    BY DEF Fewer, Holds
  <1>2. /\ budget.gen \in Nat /\ budget'.gen \in Nat /\ budget'.gen >= budget.gen
        /\ executes[e].gen \in Nat
    BY DEF IInv, TypeOK, Ledger, Executions, LedgerStep, LedgerInv
  <1>3. executes[e].gen <= budget.gen
    BY DEF IInv, HeldTokens
  <1>4. budget'.gen = budget.gen /\ Holds(executes, e, budget.gen)
    BY <1>1, <1>2, <1>3 DEF Holds
  <1> QED
    BY <1>4 DEF IInv, HeldTokens

\* A step that leaves the monitor alone and starts no clock on a generation
\* that an execution holds.
LEMMA KeepsWatch ==
    ASSUME IInv, WatchInv, LedgerStep(budget, budget', now), RunsOn(budget, budget'),
           overtaken' \in {overtaken, budget'.gen},
           Fewer(executes'), handoff' \in {handoff, "none"}, monitor' = monitor
    PROVE  WatchInv'
  <1>1. ActiveIsWatched'
    <2> SUFFICES ASSUME NEW e \in Exec, Holds(executes', e, budget'.gen),
                        budget'.state = "active", budget'.gen # overtaken'
                 PROVE  monitor'.gen = budget'.gen
      BY DEF ActiveIsWatched, Holds, Live
    <2>1. /\ budget'.gen = budget.gen /\ Holds(executes, e, budget.gen) /\ Holdable(budget)
          /\ budget.gen # overtaken
      BY OldHolders
    <2>2. ~Continued(budget)
      BY <2>1 DEF WatchInv, ContinuedIsOvertaken
    <2>3. budget.state = "active"
      BY <2>1, <2>2 DEF RunsOn, Continued, Holdable
    <2> QED
      BY <2>1, <2>3 DEF WatchInv, ActiveIsWatched, Holds
  <1>2. ContinuedIsOvertaken'
    <2> SUFFICES ASSUME Continued(budget'), NEW e \in Exec, Holds(executes', e, budget'.gen),
                        budget'.gen # overtaken'
                 PROVE  FALSE
      BY DEF ContinuedIsOvertaken, Holds, Live
    <2>1. /\ budget'.gen = budget.gen /\ Holds(executes, e, budget.gen)
          /\ budget.gen # overtaken
      BY OldHolders
    <2> QED
      BY <2>1 DEF WatchInv, ContinuedIsOvertaken, RunsOn
  <1> QED
    BY <1>1, <1>2, FewerInv DEF WatchInv

\* A step after which no clock runs nor is prepared to, or it is watched, or
\* nobody is alive.
LEMMA NeedsNoWatch ==
    ASSUME WatchInv, Fewer(executes'), handoff' \in {handoff, "none"},
           \/ Idles(budget')
           \/ budget'.state = "active" /\ monitor'.gen = budget'.gen
           \/ \A e \in Exec : ~Live(executes', e)
    PROVE  WatchInv'
  <1>1. ActiveIsWatched' /\ ContinuedIsOvertaken'
    BY DEF ActiveIsWatched, ContinuedIsOvertaken, Continued, Idles, Holds, Live
  <1> QED
    BY <1>1, FewerInv DEF WatchInv

\* A dispatch starts the monitor of the token it gives.
LEMMA DispatchWatched ==
    ASSUME IInv, \A e \in Exec : ~Live(executes, e), NEW b, NEW S, DispatchTo(b, S),
           b = budget' \/ b = NoBudget, handoff' # "gate"
    PROVE  WatchInv'
  <1>1. executes' = [e \in Exec |-> IF e \in S
                       THEN [state |-> "running", gen |-> Token(b), waiting |-> FALSE]
                       ELSE executes[e]]
        /\ monitor' = IF Token(b) > 0 THEN MonitorFor(b, Token(b), monitor) ELSE monitor
    BY DEF DispatchTo
  <1>2. \A e \in Exec : Live(executes', e) => executes'[e].gen = Token(b)
    BY <1>1 DEF Live
  <1>3. MonitorFor(b, Token(b), monitor).gen = Token(b)
    BY DEF MonitorFor
  <1>4. ASSUME NEW e \in Exec, Holds(executes', e, budget'.gen)
        PROVE  monitor'.gen = budget'.gen /\ budget'.state = "active"
    <2>1. Token(b) > 0 /\ Token(b) = budget'.gen
      BY <1>2, <1>4 DEF Holds
    <2>2. b = budget'
      BY <2>1 DEF Token, NoBudget
    <2> QED
      BY <1>1, <1>3, <2>1, <2>2 DEF Token
  <1>5. ActiveIsWatched' /\ ContinuedIsOvertaken'
    BY <1>4 DEF ActiveIsWatched, ContinuedIsOvertaken, Continued, Holds, Live
  <1>6. GateIsQuiet' /\ OneToken'
    BY <1>2 DEF GateIsQuiet, OneToken, Live
  <1> QED
    BY <1>5, <1>6 DEF WatchInv

\* The executions a step leaves alone.
LEMMA SameExecutes == ASSUME executes' = executes PROVE Fewer(executes')
  BY DEF Fewer, Live

-----------------------------------------------------------------------------
\* StartStage, CloseStage, the human's rework and increase, and a restart touch
\* neither the executions nor the monitor.
LEMMA RowsWatched ==
    ASSUME IInv, WatchInv, Starting \/ Closing \/ Rework \/ IncreaseBudget \/ Restart
    PROVE  WatchInv'
  <1>1. Fewer(executes') /\ handoff' = handoff /\ monitor' = monitor
    <2>1. executes' = executes /\ handoff' = handoff /\ monitor' = monitor
      BY DEF Starting, StartRead, StartCheck, StartExhausted, StartBegin, StartWrite,
             StartDies, Closing, CloseRead, CloseAccept, ClosePause, CloseWrite, CloseDies,
             Rework, IncreaseBudget, Restart, tui
    <2> QED
      BY <2>1, SameExecutes
  <1>2. LedgerStep(budget, budget', now) /\ overtaken' \in {overtaken, budget'.gen}
    BY StartingStep, ClosingStep, HumanStep, CrashStep DEF Move, Human
  <1>3. RunsOn(budget, budget') \/ Idles(budget')
    <2>1. ASSUME NEW r, Commit(r) \/ budget' = r.budget
          PROVE  budget' = r.budget
      BY <2>1 DEF Commit
    <2>2. CASE Starting
      <3>1. CASE StartExhausted
        <4>1. Commit(Escalate(Row, now))
          BY <3>1 DEF StartExhausted
        <4> QED
          BY <4>1, <2>1, Facts, StopsRunOn
      <3>2. CASE StartBegin
        <4>1. Commit(Begin(Row, Limit, now))
          BY <3>2 DEF StartBegin
        <4> QED
          BY <4>1, <2>1, Facts, BeginRunsOn
      <3>3. CASE StartRead \/ StartCheck \/ StartWrite \/ StartDies
        BY <3>3 DEF StartRead, StartCheck, StartWrite, StartDies, rows, RunsOn
      <3> QED
        BY <2>2, <3>1, <3>2, <3>3 DEF Starting
    <2>3. CASE Closing
      <3>1. CASE CloseAccept
        <4>1. Commit(Advance(Row, budget.gen, now))
          BY <3>1 DEF CloseAccept
        <4> QED
          BY <4>1, <2>1, Facts, AdvanceRunsOn
      <3>2. CASE ClosePause
        <4>1. PICK state, reason, r : /\ PauseKind(state, reason) /\ Commit(r)
                                      /\ r = Pause(Row, closing.gen, state, reason, closing.at)
          BY <3>2, PausingClose
        <4>2. RunsOn(Row.budget, r.budget)
          BY <4>1, Facts, PauseRunsOn
        <4>3. Row.budget = budget /\ budget' = r.budget
          BY <4>1, <2>1, Facts
        <4> QED
          BY <4>2, <4>3
      <3>3. CASE CloseRead \/ CloseWrite \/ CloseDies
        BY <3>3 DEF CloseRead, CloseWrite, CloseDies, rows, RunsOn
      <3> QED
        BY <2>3, <3>1, <3>2, <3>3 DEF Closing
    <2>4. CASE Rework
      BY <2>4 DEF Rework, RunsOn
    <2>5. CASE IncreaseBudget
      <3>1. PICK r : /\ r = IF stage.status = "Running" /\ Exists(budget)
                               /\ OutOfTime(budget, now)
                            THEN Advance(Row, budget.gen, now) ELSE Row
                     /\ ~IncreaseRefused(r, now)
                     /\ Commit(Increase(r, Additional, now))
        BY <2>5 DEF IncreaseBudget
      <3>2. r \in Rows
        BY <3>1, Facts, AdvanceStep
      <3> QED
        BY <2>1, <3>1, <3>2, IncreaseRunsOn
    <2>6. CASE Restart
      <3>1. Commit(Recover(Row))
        BY <2>6 DEF Restart
      <3> QED
        BY <3>1, <2>1, Facts, StopsRunOn
    <2> QED
      BY <2>2, <2>3, <2>4, <2>5, <2>6
  <1>4. RunsOn(budget, budget')
    BY <1>3 DEF RunsOn, Idles
  <1> QED
    BY <1>1, <1>2, <1>4, KeepsWatch

\* A continuation: nobody holds the generation of a parked stage.
LEMMA ContinueWatched ==
    ASSUME IInv, WatchInv, Parked(Row), Continue
    PROVE  WatchInv'
  <1>1. /\ stage.status \in Parkable
        /\ executes' = executes /\ handoff' = handoff /\ overtaken' = overtaken
    BY DEF Continue, Parkable, tui
  <1>2. budget.state # "active"
    BY ContinuedLedger
  <1>3. \/ budget' = budget
        \/ budget'.state = "waiting" /\ budget'.gen = budget.gen
    BY ContinuedLedger
  <1>4. ActiveIsWatched'
    BY <1>2, <1>3 DEF ActiveIsWatched
  <1>5. ContinuedIsOvertaken'
    <2>1. ASSUME NEW e \in Exec, Holds(executes', e, budget'.gen)
          PROVE  budget'.gen = overtaken'
      <3>1. Holds(executes, e, budget.gen)
        BY <1>1, <1>3, <2>1 DEF Holds, Live
      <3>2. budget.gen = overtaken
        BY <1>1, <3>1 DEF Parked, Row
      <3> QED
        BY <1>1, <1>3, <3>2
    <2> QED
      BY <2>1 DEF ContinuedIsOvertaken, Holds, Live
  <1>6. GateIsQuiet' /\ OneToken'
    BY <1>1, SameExecutes, FewerInv
  <1> QED
    BY <1>4, <1>5, <1>6 DEF WatchInv

\* A cancellation of the user and a crash drop every execution.
LEMMA DropsWatched ==
    ASSUME WatchInv, overtaken' = overtaken, UserCancel \/ CancelDone \/ Crash
    PROVE  WatchInv'
  <1>1. CASE UserCancel \/ Crash
    <2>1. executes' = [e \in Exec |-> Idle] /\ handoff' \in {handoff, "none"}
      BY <1>1 DEF UserCancel, Crash
    <2>2. \A e \in Exec : ~Live(executes', e)
      BY <2>1 DEF Live, Idle
    <2>3. Fewer(executes')
      BY <2>2 DEF Fewer
    <2> QED
      BY <2>1, <2>2, <2>3, NeedsNoWatch
  <1>2. CASE CancelDone
    <2>1. /\ handoff' = "none" /\ executes' = executes
          /\ budget' = budget /\ monitor' = monitor
      BY <1>2 DEF CancelDone, rows
    <2>2. GateIsQuiet' /\ OneToken'
      BY <2>1, SameExecutes, FewerInv
    <2> QED
      BY <2>1, <2>2 DEF WatchInv, ActiveIsWatched, ContinuedIsOvertaken, Holds, Live
  <1> QED
    BY <1>1, <1>2

\* The monitor's goroutine leaves its generation alone; a tick stops watching
\* only when the ledger it watches is not running.
LEMMA TicksWatched ==
    ASSUME IInv, WatchInv, overtaken' = overtaken, Watch
    PROVE  WatchInv'
  <1>1. CASE PostTick \/ Deadline
    <2>1. /\ executes' = executes /\ budget' = budget /\ handoff' = handoff
          /\ monitor'.gen = monitor.gen
      BY <1>1, Facts DEF PostTick, Deadline, rows, Monitors
    <2>2. GateIsQuiet' /\ OneToken'
      BY <2>1, SameExecutes, FewerInv
    <2> QED
      BY <2>1, <2>2 DEF WatchInv, ActiveIsWatched, ContinuedIsOvertaken, Holds, Live
  <1>2. CASE HandleTick
    <2>1. PICK r : r = Advance(Row, tick, now)
      OBVIOUS
    <2>2. \/ UNCHANGED <<rows, executes, handoff, streaming, monitor>>
          \/ Commit(r) /\ UNCHANGED <<executes, handoff, streaming, monitor>>
          \/ r.budget.state = "expired" /\ CancelGeneration(r, tick)
          \/ /\ tick = monitor.gen /\ ~Accepts(Row, tick, now)
             /\ ~(budget.gen = tick /\ r.budget.state = "expired")
             /\ monitor' = NoMonitor /\ UNCHANGED <<rows, executes, handoff, streaming>>
      BY <1>2, <2>1 DEF HandleTick
    <2>3. r \in Rows /\ RunsOn(budget, r.budget) /\ LedgerStep(budget, r.budget, now)
      BY <2>1, Facts, AdvanceRunsOn, AdvanceStep
    <2>4. CASE UNCHANGED <<rows, executes, handoff, streaming, monitor>>
      BY <2>4 DEF WatchInv, GateIsQuiet, OneToken, ActiveIsWatched, ContinuedIsOvertaken,
                  Holds, Live, rows
    <2>5. CASE Commit(r) /\ UNCHANGED <<executes, handoff, streaming, monitor>>
      <3>1. budget' = r.budget
        BY <2>5 DEF Commit
      <3> QED
        BY <2>3, <2>5, <3>1, SameExecutes, KeepsWatch
    <2>6. CASE r.budget.state = "expired" /\ CancelGeneration(r, tick)
      <3>1. Commit(Advance(r, tick, now)) /\ Advance(r, tick, now) = r
        BY <2>3, <2>6, AdvanceRunsOn DEF CancelGeneration
      <3>2. Idles(budget')
        BY <2>6, <3>1 DEF Commit, Idles, Continued
      <3>3. Fewer(executes') /\ handoff' \in {handoff, "none"}
        BY <2>1, <2>6, CancelStep DEF Fewer, Live, Idle
      <3> QED
        BY <3>2, <3>3, NeedsNoWatch
    <2>7. CASE /\ tick = monitor.gen /\ ~Accepts(Row, tick, now)
               /\ ~(budget.gen = tick /\ r.budget.state = "expired")
               /\ monitor' = NoMonitor /\ UNCHANGED <<rows, executes, handoff, streaming>>
      <3>1. ~(budget.state = "active" /\ monitor.gen = budget.gen)
        <4> SUFFICES ASSUME budget.state = "active", monitor.gen = budget.gen
                     PROVE  FALSE
          OBVIOUS
        <4>1. OutOfTime(Row.budget, now)
          BY <2>7, Facts DEF Accepts
        <4>2. r = Expire(Row, now)
          BY <2>1, <2>7, <4>1, Facts DEF Advance
        <4> QED
          BY <2>7, <4>2, Facts, ChargedColumns
      <3>2. /\ executes' = executes /\ budget' = budget /\ handoff' = handoff
        BY <2>7 DEF rows
      <3>3. GateIsQuiet' /\ OneToken'
        BY <3>2, SameExecutes, FewerInv
      <3>4. ActiveIsWatched' /\ ContinuedIsOvertaken'
        BY <3>1, <3>2 DEF WatchInv, ActiveIsWatched, ContinuedIsOvertaken, Holds, Live
      <3> QED
        BY <3>3, <3>4 DEF WatchInv
    <2> QED
      BY <2>2, <2>4, <2>5, <2>6, <2>7
  <1> QED
    BY <1>1, <1>2 DEF Watch

\* refreshStageBudgetWait on the current rows or on those an acceptance left:
\* whoever was watched stays so, and a resumption is watched.
LEMMA RefreshWatched ==
    ASSUME IInv, WatchInv, NEW r \in Rows, NEW ex, RefreshWait(r, ex),
           RunsOn(budget, r.budget), LedgerStep(budget, r.budget, now),
           LedgerStep(budget, budget', now), overtaken' = overtaken,
           Fewer(executes'), handoff' \in {handoff, "none"}
    PROVE  WatchInv'
  <1> DEFINE pausing  == AllWait(ex) /\ r.budget.state = "active"
             resuming == Runnable(ex) /\ r.budget.state = "waiting"
                         /\ r.budget.pause = "human"
  <1>1. PICK p : /\ p = IF pausing THEN Pause(r, r.budget.gen, "waiting", "human", now)
                        ELSE IF resuming THEN Resume(r, r.budget.gen, now) ELSE r
                 /\ Commit(p)
                 /\ monitor' = IF pausing THEN (IF loop' = "blocked" THEN monitor
                                                ELSE NoMonitor)
                               ELSE IF resuming /\ p.budget.state = "active"
                                    THEN MonitorFor(p.budget, p.budget.gen, monitor)
                                    ELSE monitor
    BY DEF RefreshWait
  <1> HIDE DEF pausing, resuming
  <1>2. budget' = p.budget
    BY <1>1 DEF Commit
  <1>3. CASE pausing
    <2>1. ~PauseRefused(r, r.budget.gen)
      BY <1>3 DEF pausing, PauseRefused
    <2>2. PauseKind("waiting", "human")
      BY DEF PauseKind
    <2>3. Idles(budget')
      BY <1>1, <1>2, <1>3, <2>1, <2>2, PauseRunsOn
    <2> QED
      BY <2>3, NeedsNoWatch
  <1>4. CASE ~pausing /\ resuming
    <2>1. CASE p.budget.state = "active"
      <3>1. monitor'.gen = budget'.gen
        BY <1>1, <1>2, <1>4, <2>1 DEF MonitorFor
      <3> QED
        BY <1>2, <2>1, <3>1, NeedsNoWatch
    <2>2. CASE p.budget.state # "active"
      <3>1. p = Resume(r, r.budget.gen, now) /\ ~Continued(r.budget)
        BY <1>1, <1>4 DEF resuming, Continued
      <3>2. Idles(p.budget)
        BY <2>2, <3>1, ChargedColumns DEF Resume, Idles, Continued
      <3> QED
        BY <1>2, <3>2, NeedsNoWatch
    <2> QED
      BY <2>1, <2>2
  <1>5. CASE ~pausing /\ ~resuming
    <2>1. budget' = r.budget /\ monitor' = monitor
      BY <1>1, <1>2, <1>5
    <2> QED
      BY <2>1, KeepsWatch
  <1> QED
    BY <1>3, <1>4, <1>5

\* Nobody is alive.
LEMMA NobodyWatched ==
    ASSUME \A e \in Exec : ~Live(executes', e)
    PROVE  WatchInv'
  BY DEF WatchInv, GateIsQuiet, OneToken, ActiveIsWatched, ContinuedIsOvertaken, Holds, Live

\* An agent finishes, asks or is answered.
LEMMA AgentWatched ==
    ASSUME IInv, WatchInv, overtaken' = overtaken, NEW e \in Exec,
           Finish(e) \/ \E w \in BOOLEAN : SetWaiting(e, w)
    PROVE  WatchInv'
  <1>1. /\ executes \in [Exec -> Executions] /\ executes[e].state = "running"
        /\ handoff' = handoff
    BY Facts DEF Finish, SetWaiting
  <1>2. CASE Finish(e)
    <2>1. executes' = [executes EXCEPT ![e].state = "done"] /\ budget' = budget
          /\ monitor' = monitor
      BY <1>2 DEF Finish, rows
    <2>2. Fewer(executes')
      BY <1>1, <2>1 DEF Fewer, Live, Executions
    <2>3. RunsOn(budget, budget') /\ LedgerStep(budget, budget', now)
      BY <2>1, Still DEF RunsOn
    <2> QED
      BY <1>1, <2>1, <2>2, <2>3, KeepsWatch
  <1>3. CASE \E w \in BOOLEAN : SetWaiting(e, w)
    <2>1. PICK w \in BOOLEAN : SetWaiting(e, w)
      BY <1>3
    <2>2. executes' = [executes EXCEPT ![e].waiting = w] /\ RefreshWait(Row, executes')
      BY <2>1 DEF SetWaiting
    <2>3. Fewer(executes')
      BY <1>1, <2>2 DEF Fewer, Live, Executions
    <2>4. /\ Row \in Rows /\ RunsOn(budget, Row.budget)
          /\ LedgerStep(budget, Row.budget, now)
      BY Facts, NoStep DEF RunsOn
    <2>5. LedgerStep(budget, budget', now)
      BY <2>1, AgentStep DEF Move
    <2> QED
      BY <1>1, <2>2, <2>3, <2>4, <2>5, RefreshWatched
  <1> QED
    BY <1>2, <1>3

\* The result of an execution.  A late one cancels its generation: that is the
\* token of everybody alive, so clearing the monitor leaves nobody unwatched.
LEMMA ResultWatched ==
    ASSUME IInv, WatchInv, overtaken' = overtaken, NEW e \in Exec, Result(e)
    PROVE  WatchInv'
  <1>1. /\ executes \in [Exec -> Executions] /\ executes[e].state = "done"
    BY Facts DEF Result, AcceptResult, RejectTimedOut, RejectStopped, RejectSuperseded
  <1>2. LedgerStep(budget, budget', now)
    BY ResultStep DEF Move
  <1>3. CASE AcceptResult(e)
    <2>1. PICK ex : ex = [executes EXCEPT ![e] = Idle]
      OBVIOUS
    <2>2. /\ executes' = ex /\ Accepted(e)
          /\ handoff' = IF handoff = "out" /\ \A o \in Exec : ~Live(ex, o)
                        THEN "gate" ELSE handoff
          /\ IF executes[e].gen > 0 THEN RefreshWait(AfterAccept(e), ex)
             ELSE UNCHANGED <<rows, loop, monitor>>
      BY <1>3, <2>1 DEF AcceptResult
    <2>3. Fewer(executes')
      BY <1>1, <2>1, <2>2 DEF Fewer, Live, Idle
    <2>4. CASE \A o \in Exec : ~Live(ex, o)
      BY <2>2, <2>4, NobodyWatched
    <2>5. CASE ~\A o \in Exec : ~Live(ex, o)
      <3>1. handoff' = handoff
        BY <2>2, <2>5
      <3>2. CASE executes[e].gen > 0
        <4>1. AfterAccept(e) = Advance(Row, executes[e].gen, now)
          BY <3>2 DEF AfterAccept
        <4>2. /\ AfterAccept(e) \in Rows /\ RunsOn(budget, AfterAccept(e).budget)
              /\ LedgerStep(budget, AfterAccept(e).budget, now)
          BY <4>1, Facts, AdvanceStep, AdvanceRunsOn
        <4>3. RefreshWait(AfterAccept(e), ex)
          BY <2>2, <3>2
        <4> QED
          BY <1>2, <2>3, <3>1, <4>2, <4>3, RefreshWatched
      <3>3. CASE ~(executes[e].gen > 0)
        <4>1. budget' = budget /\ monitor' = monitor
          BY <2>2, <3>3 DEF rows
        <4>2. RunsOn(budget, budget')
          BY <4>1 DEF RunsOn
        <4> QED
          BY <1>2, <2>3, <3>1, <4>1, <4>2, KeepsWatch
      <3> QED
        BY <3>2, <3>3
    <2> QED
      BY <2>4, <2>5
  <1>4. CASE RejectTimedOut(e)
    <2>1. CancelGeneration(AfterAccept(e), executes[e].gen)
      BY <1>4 DEF RejectTimedOut
    <2>2. executes' = [f \in Exec |-> IF f \in Held(executes[e].gen) THEN Idle
                                      ELSE executes[f]]
      BY <2>1 DEF CancelGeneration
    <2>3. ASSUME NEW f \in Exec
          PROVE  ~Live(executes', f)
      <3>1. Live(executes, e) /\ (Live(executes, f) => executes[f].gen = executes[e].gen)
        BY <1>1 DEF Live, WatchInv, OneToken
      <3> QED
        BY <2>2, <3>1 DEF Live, Held, Idle
    <2> QED
      BY <2>3, NobodyWatched
  <1>5. CASE RejectStopped(e) \/ RejectSuperseded(e)
    <2>1. /\ budget' = budget /\ monitor' = monitor /\ handoff' = handoff
          /\ \/ executes' = [executes EXCEPT ![e] = Idle]
             \/ executes' = [executes EXCEPT ![e].state = "lost"]
      BY <1>5 DEF RejectStopped, RejectSuperseded, rows
    <2>2. Fewer(executes')
      BY <1>1, <2>1 DEF Fewer, Live, Idle, Executions
    <2>3. RunsOn(budget, budget')
      BY <2>1 DEF RunsOn
    <2> QED
      BY <1>2, <2>1, <2>2, <2>3, KeepsWatch
  <1> QED
    BY <1>3, <1>4, <1>5 DEF Result

\* The scheduler acts on a quiet stage.
LEMMA QuietAtDispatch ==
    ASSUME WatchInv, Scheduled \/ WaveDone
    PROVE  \A e \in Exec : ~Live(executes, e)
  BY DEF WatchInv, GateIsQuiet, Scheduled, WaveDone, LiveExecutes

\* A new wave.
LEMMA WaveWatched ==
    ASSUME IInv, WatchInv, overtaken' = overtaken, Dispatch
    PROVE  WatchInv'
  <1>1. CASE EscalateStalled
    <2>1. /\ Commit(Escalate(Row, now)) /\ handoff' = "none"
          /\ executes' = executes /\ monitor' = monitor
      BY <1>1 DEF EscalateStalled
    <2>2. budget' = Escalate(Row, now).budget
      BY <2>1 DEF Commit
    <2>3. RunsOn(budget, budget')
      BY <2>2, Facts, StopsRunOn
    <2>4. LedgerStep(budget, budget', now)
      BY <2>2, Facts, EscalateStep
    <2> QED
      BY <2>1, <2>3, <2>4, SameExecutes, KeepsWatch
  <1>2. ASSUME NEW S \in SUBSET Exec, Wave(S)
        PROVE  WatchInv'
    <2>1. PICK b : DispatchTo(b, S) /\ b = budget' /\ handoff' # "gate"
                   /\ (Scheduled \/ WaveDone)
      BY <1>2 DEF Wave, DispatchWave, NextWave, RetryWave, Commit, rows
    <2> QED
      BY <2>1, QuietAtDispatch, DispatchWatched
  <1> QED
    BY <1>1, <1>2 DEF Dispatch

\* The turn that follows a judged wave.
LEMMA GateWatched ==
    ASSUME IInv, WatchInv, NEW e \in Exec, Gate(e)
    PROVE  WatchInv'
  <1>1. \A o \in Exec : ~Live(executes, o)
    <2>1. Scheduled \/ WaveDone
      BY DEF Gate, Orchestrate, FailWithFindings, EscalateWave, CloseEmpty, Preparing,
             BlockWithReport
    <2> QED
      BY <2>1, QuietAtDispatch
  <1>2. CASE Orchestrate(e)
    <2>1. PICK b \in {budget, NoBudget} : DispatchTo(b, {e})
      BY <1>2 DEF Orchestrate
    <2>2. budget' = budget /\ handoff' = "none"
      BY <1>2 DEF Orchestrate, rows
    <2> QED
      BY <1>1, <2>1, <2>2, DispatchWatched
  <1>3. CASE FailWithFindings(e)
    <2>1. DispatchTo(NoBudget, {e}) /\ handoff' = "none"
      BY <1>3 DEF FailWithFindings
    <2> QED
      BY <1>1, <2>1, DispatchWatched
  <1>4. CASE EscalateWave(e)
    <2>1. PICK r : Commit(r) /\ DispatchTo(r.budget, {e}) /\ handoff' = "none"
      BY <1>4 DEF EscalateWave
    <2> QED
      BY <1>1, <2>1, DispatchWatched DEF Commit
  <1>5. CASE CloseEmpty(e)
    <2>1. PICK b \in {budget, NoBudget} : DispatchTo(b, {e})
      BY <1>5 DEF CloseEmpty
    <2>2. budget' = budget /\ handoff' = "none"
      BY <1>5 DEF CloseEmpty
    <2> QED
      BY <1>1, <2>1, <2>2, DispatchWatched
  <1>6. ASSUME NEW p \in BOOLEAN, BlockWithReport(p, e)
        PROVE  WatchInv'
    <2>1. PICK r : /\ handoff' = "none"
                   /\ \/ Commit(r) /\ DispatchTo(r.budget, {e})
                      \/ executes' = executes
      BY <1>6 DEF BlockWithReport
    <2>2. CASE Commit(r) /\ DispatchTo(r.budget, {e})
      BY <1>1, <2>1, <2>2, DispatchWatched DEF Commit
    <2>3. CASE executes' = executes
      BY <1>1, <2>3, NobodyWatched DEF Live
    <2> QED
      BY <2>1, <2>2, <2>3
  <1> QED
    BY <1>2, <1>3, <1>4, <1>5, <1>6 DEF Gate

\* Every step keeps the watch.
LEMMA NextWatchInv ==
    ASSUME IInv, Parked(Row), WatchInv, [Next]_vars
    PROVE  WatchInv'
  <1>1. CASE ClockTick
    BY <1>1 DEF ClockTick, WatchInv, GateIsQuiet, OneToken, ActiveIsWatched,
                ContinuedIsOvertaken, Holds, Live, rows, tui
  <1>2. CASE UNCHANGED vars
    BY <1>2 DEF vars, WatchInv, GateIsQuiet, OneToken, ActiveIsWatched, ContinuedIsOvertaken,
                Holds, Live, rows, tui
  <1>3. CASE Next /\ ~ClockTick
    <2>1. CASE StartBegin
      BY <2>1, RowsWatched DEF Starting
    <2>2. CASE ~StartBegin
      <3>1. overtaken' = overtaken
        BY <1>3, <2>2, OvertakenByStart
      <3> QED
        BY <1>3, <3>1, RowsWatched, ContinueWatched, TicksWatched, WaveWatched, AgentWatched,
           ResultWatched, GateWatched, DropsWatched DEF Next, Agent, Human
    <2> QED
      BY <2>1, <2>2
  <1> QED
    BY <1>1, <1>2, <1>3

\* A running clock with executions has its monitor, and a continuation leaves
\* executions behind only under an overtaken generation, through every
\* dispatch, pause, resumption, result, stale tick and restart of the TUI.
THEOREM WatchInvHolds == Spec => []WatchInv
  <1>1. Init => WatchInv
    <2> SUFFICES ASSUME Init PROVE WatchInv
      OBVIOUS
    <2>1. \A e \in Exec : ~Live(executes, e)
      BY DEF Init, Idle, Live
    <2> QED
      BY <2>1 DEF WatchInv, GateIsQuiet, OneToken, ActiveIsWatched, ContinuedIsOvertaken, Holds
  <1>2. IInv /\ Parked(Row) /\ WatchInv /\ [Next]_vars => WatchInv'
    BY NextWatchInv
  <1> QED
    BY <1>1, <1>2, Invariance, ParkedHolds, PTL DEF Spec

\* While the clock of a live execution runs, its monitor is registered: no
\* pause, resumption, close, late result or stale tick loses it, but perhaps
\* that of an overtaken start (internal/tui/stage_budget.go).
THEOREM WatchHolds == Spec => []ActiveIsWatched
  <1>1. WatchInv => ActiveIsWatched
    BY DEF WatchInv
  <1> QED
    BY <1>1, WatchInvHolds, PTL

\* Once a ledger is expired, interrupted, blocked by a report or an escalation,
\* or increased, no execution dispatched before can be accepted, nor after a
\* continuation; a failed close leaves its token on a ledger that is not running
\* (acceptStageExecution, PauseStageBudget).
THEOREM RevocationHolds == Spec => []RevokedTokensAreStale
  <1>1. IInv /\ WatchInv => RevokedTokensAreStale
    BY DEF IInv, HeldTokens, Holdable, WatchInv, ContinuedIsOvertaken, Continued, Holds,
           RevokedTokensAreStale
  <1> QED
    BY <1>1, Invariance, WatchInvHolds, PTL
=============================================================================

----------------------------- MODULE StageLedger -----------------------------
(***************************************************************************)
(* The active-time ledger of one cycle stage (table stage_budgets, file    *)
(* internal/store/stage_budgets.go), as the functions its transactions     *)
(* compute.                                                                *)
(*                                                                         *)
(* Every store function reads the ledger row and the stage row inside one  *)
(* transaction and writes both, so each is an operator from a pair of rows *)
(*      r = [budget |-> ledger, status |-> the stage's status]             *)
(* to the pair it commits.  A call that returns an error commits nothing   *)
(* and is the identity; where callers distinguish the error there is a     *)
(* predicate beside the operator.                                          *)
(*                                                                         *)
(* The wall clock counts units of 1/UnitsPerMs millisecond.  limit and     *)
(* consumed are stored in whole milliseconds (durationMillis truncates),   *)
(* checkpoint_at is stored with the full precision of the clock.           *)
(***************************************************************************)
EXTENDS Integers

CONSTANT UnitsPerMs      \* clock units in one stored millisecond

ASSUME UnitsPerMsAssumption == UnitsPerMs \in Nat \ {0}

BudgetStates == {"active", "waiting", "blocked", "expired", "interrupted"}

\* pause_reason: "human" stands for human_permission, human_question and
\* human_wait; "closed" for stage_closed, "failed" for stage_failed; "none" for
\* the empty reason.
PauseReasons == {"none", "human", "closed", "failed", "continued", "increased"}

StageStatuses == {"Waiting", "Running", "PendingApproval", "Completed",
                  "Failed", "Escalated", "Skipped", "Blocked"}

\* The absent row of a stage that never started or has no timeout.
NoBudget == [limit |-> 0, consumed |-> 0, state |-> "none", pause |-> "none",
             gen |-> 0, at |-> 0]

Ledger == [limit : Nat, consumed : Nat, state : BudgetStates \cup {"none"},
           pause : PauseReasons, gen : Nat, at : Nat]

Rows == [budget : Ledger, status : StageStatuses]

Exists(b) == b.state # "none"

-----------------------------------------------------------------------------
\* elapsedSince(checkpoint_at, now) of an active ledger, 0 of any other.
Elapsed(b, now) == IF b.state = "active" /\ now > b.at THEN now - b.at ELSE 0

\* durationMillis(consumed + elapsed).
Charged(b, now) == b.consumed + (Elapsed(b, now) \div UnitsPerMs)

\* RemainingAt(now) <= 0: truncation never matters for this comparison, the
\* limit being a whole number of milliseconds.
OutOfTime(b, now) == Charged(b, now) >= b.limit

\* The deadline timer a monitor sets from RemainingAt(now), in clock units.
Remaining(b, now) ==
    IF OutOfTime(b, now) THEN 0
    ELSE (b.limit - b.consumed) * UnitsPerMs - Elapsed(b, now)

EscalatedFrom(status) ==
    IF status \in {"Waiting", "Running"} THEN "Escalated" ELSE status

-----------------------------------------------------------------------------
\* The columns an UPDATE of stage_budgets writes; limit_ms has its own.
Written(b, state, pause, consumed, gen, at) ==
    [limit |-> b.limit, consumed |-> consumed, state |-> state, pause |-> pause,
     gen |-> gen, at |-> at]

\* Faulty variant: the expiry does not revoke the generation.
ExpireKeepsGeneration(r, now) ==
    [budget |-> Written(r.budget, "expired", "none", r.budget.limit, r.budget.gen, now),
     status |-> EscalatedFrom(r.status)]

\* expireBudgetTx: what is left is spent, the generation revoked, the stage
\* escalated.
Expire(r, now) ==
    [budget |-> Written(r.budget, "expired", "none", r.budget.limit, r.budget.gen + 1, now),
     status |-> EscalatedFrom(r.status)]

\* Charge through now and enter state, on generation gen.
Charge(r, state, pause, gen, now) ==
    [r EXCEPT !.budget = Written(@, state, pause, Charged(@, now), gen, now)]

\* advanceStageBudget: CheckpointStageBudget, ExpireStageBudget and
\* AcceptStageBudget commit this, for the generation the caller holds.
Advance(r, gen, now) ==
    IF r.budget.gen # gen \/ r.budget.state # "active" THEN r
    ELSE IF OutOfTime(r.budget, now) THEN Expire(r, now)
    ELSE Charge(r, "active", r.budget.pause, gen, now)

\* AcceptStageBudget's answer: the generation is current, active, and keeps
\* time after the charge.
Accepts(r, gen, now) ==
    /\ r.budget.gen = gen
    /\ r.budget.state = "active"
    /\ ~OutOfTime(r.budget, now)

-----------------------------------------------------------------------------
BeginRefused(r) == r.budget.state \in {"expired", "interrupted"}

\* A budget that a human continued or increased keeps the generation that
\* operation left; any other pause starts a new one.
KeepsGeneration(b) == b.pause \in {"continued", "increased"}

\* BeginStageBudget: the first start creates the row; a later one resumes it.
Begin(r, limit, now) ==
    IF ~Exists(r.budget)
    THEN [r EXCEPT !.budget = [limit |-> limit, consumed |-> 0, state |-> "active",
                               pause |-> "none", gen |-> 1, at |-> now]]
    ELSE IF r.budget.state \notin {"waiting", "blocked"} THEN r
    ELSE IF OutOfTime(r.budget, now) THEN Expire(r, now)
    ELSE Charge(r, "active", "none",
                IF KeepsGeneration(r.budget) THEN r.budget.gen ELSE r.budget.gen + 1,
                now)

\* The ledger BeginStageBudget commits lets the stage start.
Begun(r, limit, now) ==
    ~BeginRefused(r) /\ Begin(r, limit, now).budget.state = "active"

-----------------------------------------------------------------------------
\* PauseStageBudget: any ledger of this generation that is not expired.
PauseRefused(r, gen) == r.budget.gen # gen \/ r.budget.state = "expired"

Pause(r, gen, state, reason, now) ==
    IF PauseRefused(r, gen) THEN r
    ELSE IF OutOfTime(r.budget, now) THEN Expire(r, now)
    ELSE Charge(r, state, reason, gen, now)

\* PauseStageBudgetBlockedTx: only an active ledger can be blocked by a report.
BlockRefused(r) == r.budget.state \in {"waiting", "blocked", "interrupted"}

BlockByReport(r, now) ==
    IF r.budget.state # "active" THEN r
    ELSE IF OutOfTime(r.budget, now) THEN Expire(r, now)
    ELSE Charge(r, "blocked", "none", r.budget.gen + 1, now)

\* Faulty variant: the resumed ledger still has the checkpoint of the pause.
ResumeKeepsCheckpoint(r, gen, now) ==
    IF r.budget.gen # gen \/ r.budget.state \in {"expired", "active"} THEN r
    ELSE IF OutOfTime(r.budget, now) THEN Expire(r, now)
    ELSE [r EXCEPT !.budget.state = "active", !.budget.pause = "none"]

\* ResumeStageBudget(rotateGeneration = FALSE), the only form the code calls.
Resume(r, gen, now) ==
    IF r.budget.gen # gen \/ r.budget.state \in {"expired", "active"} THEN r
    ELSE IF OutOfTime(r.budget, now) THEN Expire(r, now)
    ELSE Charge(r, "active", "none", gen, now)

-----------------------------------------------------------------------------
\* InterruptStageBudget charges through now and revokes the generation,
\* whatever the state.
Interrupt(r, gen, now) ==
    IF r.budget.gen # gen THEN r
    ELSE [budget |-> Written(r.budget, "interrupted", "none",
                             IF OutOfTime(r.budget, now) THEN r.budget.limit
                             ELSE Charged(r.budget, now), gen + 1, now),
          status |-> EscalatedFrom(r.status)]

\* EscalateStageBudget, called with the generation just read.  An expired
\* ledger is returned as it is: the stage row is then not touched either.
EscalateBudget(r, now) ==
    IF r.budget.state = "expired" THEN r
    ELSE IF OutOfTime(r.budget, now) THEN Expire(r, now)
    ELSE [Charge(r, "blocked", "none", r.budget.gen + 1, now)
            EXCEPT !.status = EscalatedFrom(@)]

\* Faulty variant: the stage row alone.
EscalateRowOnly(r, now) == [r EXCEPT !.status = "Escalated"]

\* Engine.escalateStage: through the ledger when there is one, else the row.
Escalate(r, now) ==
    IF Exists(r.budget) THEN EscalateBudget(r, now)
    ELSE [r EXCEPT !.status = "Escalated"]

\* Faulty variant: the interrupted generation stays valid.
RecoverKeepsGeneration(r) ==
    IF r.budget.state # "active" THEN r
    ELSE [budget |-> [r.budget EXCEPT !.state = "interrupted", !.pause = "none"],
          status |-> EscalatedFrom(r.status)]

\* RecoverActiveStageBudgets for one row: the time since the last checkpoint
\* is not charged and checkpoint_at is left alone.
Recover(r) ==
    IF r.budget.state # "active" THEN r
    ELSE [budget |-> Written(r.budget, "interrupted", "none", r.budget.consumed,
                             r.budget.gen + 1, r.budget.at),
          status |-> EscalatedFrom(r.status)]

-----------------------------------------------------------------------------
\* Engine.IncreaseStageBudget: an active ledger past its limit is expired
\* first, so the increase finds a stopped ledger with nothing left.
IncreaseRefused(r, now) == ~Exists(r.budget) \/ ~OutOfTime(r.budget, now)

Increase(r, additional, now) ==
    IF IncreaseRefused(r, now) THEN r
    ELSE LET s == Advance(r, r.budget.gen, now)
             b == Written(s.budget, "waiting", "increased", s.budget.consumed,
                          s.budget.gen + 1, now)
         IN [s EXCEPT !.budget = [b EXCEPT !.limit = @ + additional]]

\* ContinueBlockedStageBudgetTx (ContinueStageBudget is the same in its own
\* transaction): refused in states expired and active.
ContinueRefused(r) == r.budget.state \in {"expired", "active"}

ContinueBudget(r, now) ==
    IF r.budget.state \notin {"blocked", "interrupted"} THEN r
    ELSE IF OutOfTime(r.budget, now) THEN Expire(r, now)
    ELSE Charge(r, "waiting", "continued", r.budget.gen, now)
=============================================================================

------------------------- MODULE StageLedger_proofs -------------------------
(***************************************************************************)
(* What every transaction on a stage's ledger preserves, proved operator   *)
(* by operator.  StageExecution_proofs builds its invariant on these.      *)
(***************************************************************************)
EXTENDS StageLedger, TLAPS

\* A ledger at time now: the absent row is the one without a generation, and
\* the last checkpoint is not in the future.
LedgerInv(b, now) ==
    /\ b \in Ledger
    /\ b.state = "none" <=> b.gen = 0
    /\ b.at <= now

\* What the stage has been charged or will be, in clock units.
Cost(b, now) == b.consumed * UnitsPerMs + Elapsed(b, now)

\* States in which an execution may hold the current generation.  No
\* transaction leaves them on that generation: a failed close blocks the ledger
\* and a continuation sets a blocked ledger waiting without a new one.
Holdable(b) == \/ b.state = "active"
               \/ b.state = "waiting" /\ b.pause \in {"human", "closed", "continued"}
               \/ b.state = "blocked" /\ b.pause = "failed"

\* One transaction takes ledger b to c.
LedgerStep(b, c, now) ==
    /\ LedgerInv(c, now)
    /\ c.gen >= b.gen
    /\ Cost(c, now) <= Cost(b, now)
    /\ Holdable(b) /\ c.gen = b.gen => Holdable(c)
    /\ b.state = "active" /\ c.state \in {"expired", "interrupted", "blocked"}
       => c.gen > b.gen \/ c.pause = "failed"
    /\ b.state # "active" /\ c.state = "active" /\ c.gen = b.gen
       => b.pause \in {"human", "continued", "increased"}
    /\ b.state = "expired" /\ c.state # "expired" => c.limit > b.limit

-----------------------------------------------------------------------------
\* Truncation to whole milliseconds: durationMillis rounds down and loses less
\* than one millisecond.
LEMMA Truncation ==
    ASSUME NEW t \in Nat
    PROVE  /\ t \div UnitsPerMs \in Nat
           /\ (t \div UnitsPerMs) * UnitsPerMs <= t
           /\ t < (t \div UnitsPerMs + 1) * UnitsPerMs
  BY UnitsPerMsAssumption, SMTT(30)

\* A checkpoint never charges more than the time since the last one, and what
\* the stage has left is a natural number of units.
LEMMA Charging ==
    ASSUME NEW b \in Ledger, NEW t \in Nat
    PROVE  /\ Elapsed(b, t) \in Nat
           /\ Charged(b, t) \in Nat
           /\ Charged(b, t) * UnitsPerMs <= b.consumed * UnitsPerMs + Elapsed(b, t)
           /\ OutOfTime(b, t) => b.limit * UnitsPerMs
                                 <= b.consumed * UnitsPerMs + Elapsed(b, t)
           /\ Remaining(b, t) \in Nat
  <1> DEFINE el == Elapsed(b, t)
             ms == el \div UnitsPerMs
  <1>1. b.at \in Nat /\ b.consumed \in Nat /\ b.limit \in Nat
    BY DEF Ledger
  <1>2. el \in Nat
    BY <1>1 DEF Elapsed
  <1>3. ms \in Nat /\ ms * UnitsPerMs <= el /\ el < (ms + 1) * UnitsPerMs
    BY <1>2, Truncation
  <1>4. Charged(b, t) = b.consumed + ms
    BY DEF Charged
  <1> HIDE DEF el, ms
  <1>5. (b.consumed + ms) * UnitsPerMs <= b.consumed * UnitsPerMs + el
    BY <1>1, <1>2, <1>3, UnitsPerMsAssumption
  <1>6. ASSUME b.consumed + ms >= b.limit
        PROVE  b.limit * UnitsPerMs <= b.consumed * UnitsPerMs + el
    BY <1>1, <1>2, <1>3, <1>5, <1>6, UnitsPerMsAssumption
  <1>7. ASSUME ~(b.consumed + ms >= b.limit)
        PROVE  (b.limit - b.consumed) * UnitsPerMs - el \in Nat
    BY <1>1, <1>2, <1>3, <1>7, UnitsPerMsAssumption
  <1> QED
    BY <1>1, <1>2, <1>3, <1>4, <1>5, <1>6, <1>7 DEF OutOfTime, Remaining, el

\* The stage status an escalation writes is a status.
LEMMA EscalatedFromType ==
    ASSUME NEW status \in StageStatuses
    PROVE  EscalatedFrom(status) \in StageStatuses
  BY DEF EscalatedFrom, StageStatuses

-----------------------------------------------------------------------------
\* A ledger that is stopped, or was checkpointed just now, costs what it has
\* consumed.
LEMMA StoppedCost ==
    ASSUME NEW b \in Ledger, NEW t \in Nat, b.state # "active" \/ b.at = t
    PROVE  Cost(b, t) = b.consumed * UnitsPerMs
  BY UnitsPerMsAssumption DEF Cost, Elapsed, Ledger

\* The cost of a ledger is a number.
LEMMA CostType ==
    ASSUME NEW b \in Ledger, NEW t \in Nat
    PROVE  Cost(b, t) \in Nat
  <1>1. b.consumed * UnitsPerMs \in Nat
    BY UnitsPerMsAssumption DEF Ledger
  <1>2. Elapsed(b, t) \in Nat
    BY Charging
  <1> QED
    BY <1>1, <1>2 DEF Cost

\* The columns of an UPDATE: WrittenType says that what is written is a ledger.
LEMMA WrittenType ==
    ASSUME NEW b \in Ledger, NEW state \in BudgetStates, NEW pause \in PauseReasons,
           NEW consumed \in Nat, NEW gen \in Nat, NEW at \in Nat
    PROVE  /\ Written(b, state, pause, consumed, gen, at) \in Ledger
           /\ Written(b, state, pause, consumed, gen, at).limit = b.limit
           /\ Written(b, state, pause, consumed, gen, at).consumed = consumed
           /\ Written(b, state, pause, consumed, gen, at).state = state
           /\ Written(b, state, pause, consumed, gen, at).pause = pause
           /\ Written(b, state, pause, consumed, gen, at).gen = gen
           /\ Written(b, state, pause, consumed, gen, at).at = at
  <1>1. b.limit \in Nat
    BY DEF Ledger
  <1>2. state \in BudgetStates \cup {"none"}
    OBVIOUS
  <1> QED
    BY <1>1, <1>2 DEF Written, Ledger

\* Time does not run backwards: what an active ledger owes grows.
LEMMA ElapsedMonotone ==
    ASSUME NEW b \in Ledger, NEW t \in Nat, NEW now \in Nat, t <= now
    PROVE  Elapsed(b, t) <= Elapsed(b, now)
  BY DEF Elapsed, Ledger

\* Rows are pairs of a ledger and a status.
LEMMA RowsType ==
    ASSUME NEW r \in Rows
    PROVE  r.budget \in Ledger /\ r.status \in StageStatuses
  BY DEF Rows

-----------------------------------------------------------------------------
\* What expiry writes at a time t that is not in the future of now: CloseStage
\* passes the time it read before.
LEMMA ExpiredLedger ==
    ASSUME NEW b \in Ledger, NEW now \in Nat, NEW t \in Nat, t <= now,
           OutOfTime(b, t),
           NEW c, c = Written(b, "expired", "none", b.limit, b.gen + 1, t)
    PROVE  LedgerStep(b, c, now) /\ c.state = "expired" /\ c.limit = b.limit
  <1>1. b.limit \in Nat /\ b.gen \in Nat /\ b.gen + 1 \in Nat
        /\ b.consumed * UnitsPerMs \in Nat /\ b.limit * UnitsPerMs \in Nat
    BY UnitsPerMsAssumption DEF Ledger
  <1>2. c \in Ledger /\ c.consumed = b.limit /\ c.state = "expired"
        /\ c.gen = b.gen + 1 /\ c.at = t /\ c.limit = b.limit
    <2>1. "expired" \in BudgetStates /\ "none" \in PauseReasons
      BY DEF BudgetStates, PauseReasons
    <2>2. b.limit \in Nat /\ b.gen + 1 \in Nat
      BY <1>1
    <2>3. c \in Ledger /\ c.consumed = b.limit /\ c.state = "expired"
      BY <2>1, <2>2, WrittenType
    <2>4. c.gen = b.gen + 1 /\ c.at = t /\ c.limit = b.limit
      BY DEF Written
    <2> QED
      BY <2>3, <2>4
  <1>3. Cost(c, now) = b.limit * UnitsPerMs
    BY <1>2, StoppedCost
  <1>4. Cost(c, now) <= Cost(b, now)
    <2>1. b.limit * UnitsPerMs <= b.consumed * UnitsPerMs + Elapsed(b, t)
      BY Charging
    <2>2. Elapsed(b, t) <= Elapsed(b, now)
      BY ElapsedMonotone
    <2>3. Elapsed(b, t) \in Nat /\ Elapsed(b, now) \in Nat
      BY Charging
    <2> QED
      BY <1>1, <1>3, <2>1, <2>2, <2>3 DEF Cost
  <1>5. LedgerInv(c, now)
    BY <1>1, <1>2 DEF LedgerInv
  <1> QED
    BY <1>1, <1>2, <1>4, <1>5 DEF LedgerStep, Holdable

\* Expiry as a step of both rows.
LEMMA ExpireStep ==
    ASSUME NEW r \in Rows, NEW now \in Nat, NEW t \in Nat, t <= now,
           OutOfTime(r.budget, t)
    PROVE  /\ LedgerStep(r.budget, Expire(r, t).budget, now)
           /\ Expire(r, t) \in Rows
           /\ Expire(r, t).budget.state = "expired"
           /\ Expire(r, t).budget.limit = r.budget.limit
  <1>1. r.budget \in Ledger /\ r.status \in StageStatuses
    BY RowsType
  <1>2. /\ Expire(r, t).budget
           = Written(r.budget, "expired", "none", r.budget.limit, r.budget.gen + 1, t)
        /\ Expire(r, t).status = EscalatedFrom(r.status)
    BY DEF Expire
  <1>3. LedgerStep(r.budget, Expire(r, t).budget, now)
        /\ Expire(r, t).budget.state = "expired"
        /\ Expire(r, t).budget.limit = r.budget.limit
    BY <1>1, <1>2, ExpiredLedger
  <1>4. Expire(r, t).budget \in Ledger
    BY <1>3 DEF LedgerStep, LedgerInv
  <1> QED
    BY <1>1, <1>2, <1>3, <1>4, EscalatedFromType DEF Rows, Expire

\* Charging through t and writing a state, a reason and a generation.
LEMMA ChargeWrites ==
    ASSUME NEW r \in Rows, NEW now \in Nat, NEW t \in Nat, t <= now,
           NEW state \in BudgetStates, NEW pause \in PauseReasons, NEW gen \in Nat,
           gen > 0, state # "active" \/ t = now
    PROVE  /\ LedgerInv(Charge(r, state, pause, gen, t).budget, now)
           /\ Charge(r, state, pause, gen, t).budget.state = state
           /\ Charge(r, state, pause, gen, t).budget.pause = pause
           /\ Charge(r, state, pause, gen, t).budget.gen = gen
           /\ Charge(r, state, pause, gen, t).status = r.status
           /\ Cost(Charge(r, state, pause, gen, t).budget, now) <= Cost(r.budget, now)
           /\ Charge(r, state, pause, gen, t) \in Rows
  <1> DEFINE c == Charge(r, state, pause, gen, t).budget
  <1>1. r.budget \in Ledger /\ r.status \in StageStatuses
    BY RowsType
  <1>2. Charge(r, state, pause, gen, t)
        = [r EXCEPT !.budget = Written(r.budget, state, pause, Charged(r.budget, t), gen, t)]
    BY DEF Charge
  <1>3. c = Written(r.budget, state, pause, Charged(r.budget, t), gen, t)
        /\ Charge(r, state, pause, gen, t).status = r.status
    BY <1>2 DEF Rows
  <1>4. Charged(r.budget, t) \in Nat
    BY <1>1, Charging
  <1>5. c \in Ledger /\ c.consumed = Charged(r.budget, t) /\ c.state = state
        /\ c.pause = pause /\ c.gen = gen /\ c.at = t
    BY <1>1, <1>3, <1>4, WrittenType
  <1>6. Charge(r, state, pause, gen, t) \in Rows
    BY <1>2, <1>3, <1>5 DEF Rows
  <1> HIDE DEF c
  <1>7. Cost(c, now) = c.consumed * UnitsPerMs
    BY <1>5, StoppedCost
  <1>8. c.consumed * UnitsPerMs <= r.budget.consumed * UnitsPerMs + Elapsed(r.budget, t)
    BY <1>1, <1>5, Charging
  <1>9. Elapsed(r.budget, t) <= Elapsed(r.budget, now)
    BY <1>1, ElapsedMonotone
  <1>10. Elapsed(r.budget, t) \in Nat /\ Elapsed(r.budget, now) \in Nat
         /\ c.consumed * UnitsPerMs \in Nat /\ r.budget.consumed * UnitsPerMs \in Nat
    <2>1. Elapsed(r.budget, t) \in Nat /\ Elapsed(r.budget, now) \in Nat
      BY <1>1, Charging
    <2>2. c.consumed \in Nat /\ r.budget.consumed \in Nat /\ UnitsPerMs \in Nat
      BY <1>1, <1>5, UnitsPerMsAssumption DEF Ledger
    <2> QED
      BY <2>1, <2>2
  <1>11. Cost(c, now) <= Cost(r.budget, now)
    BY <1>7, <1>8, <1>9, <1>10 DEF Cost
  <1>12. LedgerInv(c, now)
    BY <1>5 DEF LedgerInv, BudgetStates
  <1> QED
    BY <1>3, <1>5, <1>6, <1>11, <1>12 DEF c

\* A transaction that commits nothing.
LEMMA NoStep ==
    ASSUME NEW b, NEW now \in Nat, LedgerInv(b, now)
    PROVE  LedgerStep(b, b, now)
  <1>1. Cost(b, now) \in Int
    BY Charging, UnitsPerMsAssumption DEF LedgerInv, Cost, Ledger
  <1>2. b.gen \in Nat /\ Cost(b, now) <= Cost(b, now)
    BY <1>1 DEF LedgerInv, Ledger
  <1> QED
    BY <1>2 DEF LedgerStep

\* Charging and taking a new generation.
LEMMA RotateStep ==
    ASSUME NEW r \in Rows, NEW now \in Nat, NEW state \in {"active", "waiting", "blocked"},
           NEW pause \in PauseReasons, NEW gen \in Nat, gen > r.budget.gen,
           r.budget.gen \in Nat, r.budget.state # "expired"
    PROVE  /\ LedgerStep(r.budget, Charge(r, state, pause, gen, now).budget, now)
           /\ Charge(r, state, pause, gen, now) \in Rows
           /\ Charge(r, state, pause, gen, now).status = r.status
  <1>1. PICK b \in Ledger : b = r.budget
    BY RowsType
  <1>2. PICK c : c = Charge(r, state, pause, gen, now).budget
    OBVIOUS
  <1>3. state \in BudgetStates /\ b.gen \in Nat /\ gen > 0 /\ now <= now
    BY <1>1 DEF Ledger, BudgetStates, PauseReasons
  <1>4. /\ LedgerInv(c, now) /\ Cost(c, now) <= Cost(b, now)
        /\ c.state = state /\ c.pause = pause /\ c.gen = gen
        /\ Charge(r, state, pause, gen, now) \in Rows
        /\ Charge(r, state, pause, gen, now).status = r.status
    BY <1>1, <1>2, <1>3, ChargeWrites
  <1>5. LedgerStep(b, c, now)
    BY <1>1, <1>3, <1>4 DEF LedgerStep, Holdable
  <1> QED
    BY <1>1, <1>2, <1>4, <1>5

\* The pauses: for a human, by a close, by a failed close.
PauseKind(state, reason) == \/ state = "waiting" /\ reason \in {"human", "closed"}
                            \/ state = "blocked" /\ reason = "failed"

\* Charging and pausing on the same generation.
LEMMA HoldStep ==
    ASSUME NEW r \in Rows, NEW now \in Nat, NEW t \in Nat, t <= now,
           NEW state, NEW reason, PauseKind(state, reason), NEW gen \in Nat, gen > 0,
           gen = r.budget.gen, r.budget.state # "expired"
    PROVE  /\ LedgerStep(r.budget, Charge(r, state, reason, gen, t).budget, now)
           /\ Charge(r, state, reason, gen, t) \in Rows
  <1>1. PICK b \in Ledger : b = r.budget
    BY RowsType
  <1>2. PICK c : c = Charge(r, state, reason, gen, t).budget
    OBVIOUS
  <1>3. state \in BudgetStates /\ state # "active" /\ reason \in PauseReasons /\ b.gen \in Nat
    BY <1>1 DEF Ledger, BudgetStates, PauseReasons, PauseKind
  <1>4. /\ LedgerInv(c, now) /\ Cost(c, now) <= Cost(b, now)
        /\ c.state = state /\ c.pause = reason /\ c.gen = gen
        /\ Charge(r, state, reason, gen, t) \in Rows
        /\ Charge(r, state, reason, gen, t).status = r.status
    BY <1>1, <1>2, <1>3, ChargeWrites
  <1>5. LedgerStep(b, c, now)
    BY <1>1, <1>3, <1>4 DEF LedgerStep, Holdable, PauseKind
  <1> QED
    BY <1>1, <1>2, <1>4, <1>5

\* Charging and running on, or again, on the same generation.
LEMMA RunStep ==
    ASSUME NEW r \in Rows, NEW now \in Nat, NEW pause \in PauseReasons,
           NEW gen \in Nat, gen > 0, gen = r.budget.gen, r.budget.state # "expired",
           r.budget.state = "active"
           \/ r.budget.pause \in {"human", "continued", "increased"}
    PROVE  /\ LedgerStep(r.budget, Charge(r, "active", pause, gen, now).budget, now)
           /\ Charge(r, "active", pause, gen, now) \in Rows
  <1>1. PICK b \in Ledger : b = r.budget
    BY RowsType
  <1>2. PICK c : c = Charge(r, "active", pause, gen, now).budget
    OBVIOUS
  <1>3. "active" \in BudgetStates /\ b.gen \in Nat /\ now <= now
    BY <1>1 DEF Ledger, BudgetStates, PauseReasons
  <1>4. /\ LedgerInv(c, now) /\ Cost(c, now) <= Cost(b, now)
        /\ c.state = "active" /\ c.pause = pause /\ c.gen = gen
        /\ Charge(r, "active", pause, gen, now) \in Rows
        /\ Charge(r, "active", pause, gen, now).status = r.status
    BY <1>1, <1>2, <1>3, ChargeWrites
  <1>5. LedgerStep(b, c, now)
    BY <1>1, <1>3, <1>4 DEF LedgerStep, Holdable
  <1> QED
    BY <1>1, <1>2, <1>4, <1>5

-----------------------------------------------------------------------------
(* The transactions.                                                       *)

\* Facts about the ledger of a pair of rows, in the form the steps need.
LEMMA LedgerFacts ==
    ASSUME NEW r \in Rows, NEW now, LedgerInv(r.budget, now)
    PROVE  /\ r.budget \in Ledger /\ r.budget.gen \in Nat
           /\ r.budget.state # "none" => r.budget.gen > 0
           /\ r.budget.pause \in PauseReasons
  BY DEF LedgerInv, Ledger, Rows

\* A checkpoint, an expiry check or an acceptance; none of them gives time.
LEMMA AdvanceStep ==
    ASSUME NEW r \in Rows, NEW now \in Nat, NEW gen, LedgerInv(r.budget, now)
    PROVE  /\ LedgerStep(r.budget, Advance(r, gen, now).budget, now)
           /\ Advance(r, gen, now) \in Rows
           /\ Advance(r, gen, now).budget.limit = r.budget.limit
  <1>1. CASE r.budget.gen # gen \/ r.budget.state # "active"
    BY <1>1, NoStep DEF Advance
  <1>2. CASE ~(r.budget.gen # gen \/ r.budget.state # "active") /\ OutOfTime(r.budget, now)
    BY <1>2, ExpireStep DEF Advance
  <1>3. CASE /\ r.budget.gen = gen /\ r.budget.state = "active"
             /\ ~OutOfTime(r.budget, now)
    <2>1. Advance(r, gen, now) = Charge(r, "active", r.budget.pause, r.budget.gen, now)
      BY <1>3 DEF Advance
    <2>2. r.budget.gen \in Nat /\ r.budget.gen > 0 /\ r.budget.gen >= r.budget.gen
          /\ r.budget.pause \in PauseReasons
      BY <1>3, LedgerFacts
    <2>3. Charge(r, "active", r.budget.pause, r.budget.gen, now).budget.limit = r.budget.limit
      BY DEF Charge, Written, Rows
    <2> QED
      BY <1>3, <2>1, <2>2, <2>3, RunStep
  <1> QED
    BY <1>1, <1>2, <1>3

\* A start leaves an active or stopped ledger alone, except that it expires
\* one that has nothing left.
LEMMA BeginStep ==
    ASSUME NEW r \in Rows, NEW now \in Nat, NEW limit \in Nat, LedgerInv(r.budget, now)
    PROVE  /\ LedgerStep(r.budget, Begin(r, limit, now).budget, now)
           /\ Begin(r, limit, now) \in Rows
  <1> DEFINE fresh == [limit |-> limit, consumed |-> 0, state |-> "active",
                       pause |-> "none", gen |-> 1, at |-> now]
  <1>1. CASE ~Exists(r.budget)
    <2>1. PICK b \in Ledger : b = r.budget
      BY RowsType
    <2>2. PICK c : c = fresh
      OBVIOUS
    <2>3. c.gen = 1 /\ c.state = "active" /\ c.at = now /\ c.consumed = 0
      BY <2>2
    <2>4. c \in Ledger
      <3>1. "active" \in BudgetStates \cup {"none"} /\ "none" \in PauseReasons
        BY DEF BudgetStates, PauseReasons
      <3> QED
        BY <2>2, <3>1 DEF Ledger
    <2>5. b.gen = 0
      BY <1>1, <2>1 DEF Exists, LedgerInv
    <2>6. Cost(c, now) <= Cost(b, now)
      <3>1. Cost(c, now) = 0
        BY <2>3, <2>4, StoppedCost, UnitsPerMsAssumption
      <3>2. b.consumed * UnitsPerMs \in Nat /\ Elapsed(b, now) \in Nat
        BY Charging, UnitsPerMsAssumption DEF Ledger
      <3> QED
        BY <3>1, <3>2 DEF Cost
    <2>7. LedgerStep(b, c, now)
      BY <1>1, <2>1, <2>3, <2>4, <2>5, <2>6 DEF LedgerStep, LedgerInv, Holdable, Exists
    <2>8. Begin(r, limit, now) = [r EXCEPT !.budget = c]
      BY <1>1, <2>2 DEF Begin
    <2> QED
      BY <2>1, <2>4, <2>7, <2>8 DEF Rows
  <1>2. CASE Exists(r.budget) /\ r.budget.state \notin {"waiting", "blocked"}
    BY <1>2, NoStep DEF Begin
  <1>3. CASE Exists(r.budget) /\ r.budget.state \in {"waiting", "blocked"}
             /\ OutOfTime(r.budget, now)
    BY <1>3, ExpireStep DEF Begin
  <1>4. CASE Exists(r.budget) /\ r.budget.state \in {"waiting", "blocked"}
             /\ ~OutOfTime(r.budget, now)
    <2>1. PICK gen : gen = IF KeepsGeneration(r.budget) THEN r.budget.gen
                           ELSE r.budget.gen + 1
      OBVIOUS
    <2>2. Begin(r, limit, now) = Charge(r, "active", "none", gen, now)
      BY <1>4, <2>1 DEF Begin
    <2>3. gen \in Nat /\ gen > 0 /\ gen >= r.budget.gen
          /\ (gen > r.budget.gen \/ r.budget.pause \in {"human", "continued", "increased"})
      BY <1>4, <2>1, LedgerFacts DEF KeepsGeneration
    <2>4. "none" \in PauseReasons
      BY DEF PauseReasons
    <2>5. LedgerStep(r.budget, Charge(r, "active", "none", gen, now).budget, now)
          /\ Charge(r, "active", "none", gen, now) \in Rows
      <3>1. CASE gen > r.budget.gen
        <4>1. r.budget.gen \in Nat /\ r.budget.state # "expired"
          BY <1>4, LedgerFacts
        <4>2. PICK state : state = "active"
          OBVIOUS
        <4>3. state \in {"active", "waiting", "blocked"}
          BY <4>2
        <4> QED
          BY <2>3, <2>4, <3>1, <4>1, <4>2, <4>3, RotateStep
      <3>2. CASE gen = r.budget.gen
        BY <1>4, <2>3, <2>4, <3>2, RunStep, LedgerFacts
      <3> QED
        BY <2>3, <3>1, <3>2, LedgerFacts
    <2> QED
      BY <2>2, <2>5
  <1> QED
    BY <1>1, <1>2, <1>3, <1>4

\* A pause for a human or by a close, at a time the caller read before.
LEMMA PauseStep ==
    ASSUME NEW r \in Rows, NEW now \in Nat, NEW t \in Nat, t <= now,
           NEW gen, gen # 0, NEW state, NEW reason, PauseKind(state, reason),
           LedgerInv(r.budget, now)
    PROVE  /\ LedgerStep(r.budget, Pause(r, gen, state, reason, t).budget, now)
           /\ Pause(r, gen, state, reason, t) \in Rows
  <1>1. CASE PauseRefused(r, gen)
    BY <1>1, NoStep DEF Pause
  <1>2. CASE ~PauseRefused(r, gen) /\ OutOfTime(r.budget, t)
    BY <1>2, ExpireStep DEF Pause
  <1>3. CASE ~PauseRefused(r, gen) /\ ~OutOfTime(r.budget, t)
    <2>1. r.budget.gen = gen /\ r.budget.state # "expired"
      BY <1>3 DEF PauseRefused
    <2>2. Pause(r, gen, state, reason, t) = Charge(r, state, reason, gen, t)
      BY <1>3 DEF Pause
    <2>3. gen \in Nat /\ gen > 0 /\ gen >= r.budget.gen
      BY <2>1, LedgerFacts
    <2>4. LedgerStep(r.budget, Charge(r, state, reason, gen, t).budget, now)
          /\ Charge(r, state, reason, gen, t) \in Rows
      BY <2>1, <2>3, HoldStep
    <2> QED
      BY <2>2, <2>4
  <1> QED
    BY <1>1, <1>2, <1>3

\* A blocked report.
LEMMA BlockStep ==
    ASSUME NEW r \in Rows, NEW now \in Nat, LedgerInv(r.budget, now)
    PROVE  /\ LedgerStep(r.budget, BlockByReport(r, now).budget, now)
           /\ BlockByReport(r, now) \in Rows
  <1>1. CASE r.budget.state # "active"
    BY <1>1, NoStep DEF BlockByReport
  <1>2. CASE r.budget.state = "active" /\ OutOfTime(r.budget, now)
    BY <1>2, ExpireStep DEF BlockByReport
  <1>3. CASE r.budget.state = "active" /\ ~OutOfTime(r.budget, now)
    <2>1. PICK gen : gen = r.budget.gen + 1
      OBVIOUS
    <2>2. BlockByReport(r, now) = Charge(r, "blocked", "none", gen, now)
      BY <1>3, <2>1 DEF BlockByReport
    <2>3. gen \in Nat /\ gen > 0 /\ gen >= r.budget.gen /\ gen > r.budget.gen
      BY <2>1, LedgerFacts
    <2>4. "none" \in PauseReasons
      BY DEF PauseReasons
    <2>5. LedgerStep(r.budget, Charge(r, "blocked", "none", gen, now).budget, now)
          /\ Charge(r, "blocked", "none", gen, now) \in Rows
      BY <1>3, <2>3, <2>4, RotateStep, LedgerFacts
    <2> QED
      BY <2>2, <2>5
  <1> QED
    BY <1>1, <1>2, <1>3

\* The human answered.
LEMMA ResumeStep ==
    ASSUME NEW r \in Rows, NEW now \in Nat, NEW gen, LedgerInv(r.budget, now),
           r.budget.state = "waiting", r.budget.pause = "human"
    PROVE  /\ LedgerStep(r.budget, Resume(r, gen, now).budget, now)
           /\ Resume(r, gen, now) \in Rows
  <1>1. CASE r.budget.gen # gen
    BY <1>1, NoStep DEF Resume
  <1>2. CASE r.budget.gen = gen /\ OutOfTime(r.budget, now)
    BY <1>2, ExpireStep DEF Resume
  <1>3. CASE r.budget.gen = gen /\ ~OutOfTime(r.budget, now)
    <2>1. Resume(r, gen, now) = Charge(r, "active", "none", gen, now)
      BY <1>3 DEF Resume
    <2>2. gen \in Nat /\ gen > 0 /\ gen = r.budget.gen
      BY <1>3, LedgerFacts
    <2>3. "none" \in PauseReasons
      BY DEF PauseReasons
    <2> QED
      BY <2>1, <2>2, <2>3, RunStep
  <1> QED
    BY <1>1, <1>2, <1>3

\* The columns of an interruption.
LEMMA InterruptedType ==
    ASSUME NEW b \in Ledger, NEW consumed \in Nat, NEW at \in Nat
    PROVE  Written(b, "interrupted", "none", consumed, b.gen + 1, at) \in Ledger
  <1>1. b.gen + 1 \in Nat
    BY DEF Ledger
  <1>2. "interrupted" \in BudgetStates /\ "none" \in PauseReasons
    BY DEF BudgetStates, PauseReasons
  <1> QED
    BY <1>1, <1>2, WrittenType

\* What revoking writes when it keeps the ledger's limit: used for the
\* interruption, which spends the rest when nothing is left.
LEMMA InterruptedLedger ==
    ASSUME NEW b \in Ledger, NEW now \in Nat, NEW at \in Nat, at <= now,
           b.state # "expired", NEW consumed \in Nat,
           consumed * UnitsPerMs <= b.consumed * UnitsPerMs + Elapsed(b, now),
           NEW c, c = Written(b, "interrupted", "none", consumed, b.gen + 1, at)
    PROVE  LedgerStep(b, c, now)
  <1>1. b.gen \in Nat /\ b.gen + 1 \in Nat
    BY DEF Ledger
  <1>2. c \in Ledger
    BY InterruptedType
  <1>3. c.consumed = consumed /\ c.state = "interrupted" /\ c.gen = b.gen + 1 /\ c.at = at
    BY DEF Written
  <1>4. Cost(c, now) = c.consumed * UnitsPerMs
    BY <1>2, <1>3, StoppedCost
  <1>5. Cost(c, now) <= Cost(b, now)
    BY <1>3, <1>4 DEF Cost
  <1> QED
    BY <1>1, <1>2, <1>3, <1>5 DEF LedgerStep, LedgerInv, Holdable

\* A cancellation: only the generation it holds, of a ledger that is not
\* expired.
LEMMA InterruptStep ==
    ASSUME NEW r \in Rows, NEW now \in Nat, NEW gen, LedgerInv(r.budget, now),
           r.budget.state # "expired"
    PROVE  /\ LedgerStep(r.budget, Interrupt(r, gen, now).budget, now)
           /\ Interrupt(r, gen, now) \in Rows
  <1>1. CASE r.budget.gen # gen
    BY <1>1, NoStep DEF Interrupt
  <1>2. CASE r.budget.gen = gen
    <2>1. PICK b \in Ledger : b = r.budget
      BY RowsType
    <2>2. PICK consumed : consumed = IF OutOfTime(b, now) THEN b.limit ELSE Charged(b, now)
      OBVIOUS
    <2>3. consumed \in Nat
          /\ consumed * UnitsPerMs <= b.consumed * UnitsPerMs + Elapsed(b, now)
      <3>1. b.limit \in Nat
        BY DEF Ledger
      <3> QED
        BY <2>2, <3>1, Charging
    <2>4. PICK c : c = Written(b, "interrupted", "none", consumed, b.gen + 1, now)
      OBVIOUS
    <2>5. Interrupt(r, gen, now) = [budget |-> c, status |-> EscalatedFrom(r.status)]
      BY <1>2, <2>1, <2>2, <2>4 DEF Interrupt
    <2>6. LedgerStep(b, c, now)
      <3>1. now <= now
        OBVIOUS
      <3> QED
        BY <2>1, <2>3, <2>4, <3>1, InterruptedLedger
    <2>7. c \in Ledger /\ EscalatedFrom(r.status) \in StageStatuses
      BY <2>6, RowsType, EscalatedFromType DEF LedgerStep, LedgerInv
    <2> QED
      BY <2>1, <2>5, <2>6, <2>7 DEF Rows
  <1> QED
    BY <1>1, <1>2

\* Recovery at startup.
LEMMA RecoverStep ==
    ASSUME NEW r \in Rows, NEW now \in Nat, LedgerInv(r.budget, now)
    PROVE  /\ LedgerStep(r.budget, Recover(r).budget, now)
           /\ Recover(r) \in Rows
  <1>1. CASE r.budget.state # "active"
    BY <1>1, NoStep DEF Recover
  <1>2. CASE r.budget.state = "active"
    <2>1. PICK b \in Ledger : b = r.budget
      BY RowsType
    <2>2. PICK c : c = Written(b, "interrupted", "none", b.consumed, b.gen + 1, b.at)
      OBVIOUS
    <2>3. Recover(r) = [budget |-> c, status |-> EscalatedFrom(r.status)]
      BY <1>2, <2>1, <2>2 DEF Recover
    <2>4. b.consumed \in Nat /\ b.at \in Nat /\ b.at <= now /\ b.state # "expired"
      BY <1>2, <2>1 DEF LedgerInv, Ledger
    <2>5. b.consumed * UnitsPerMs <= b.consumed * UnitsPerMs + Elapsed(b, now)
      <3>1. b.consumed * UnitsPerMs \in Nat /\ Elapsed(b, now) \in Nat
        BY <2>4, Charging, UnitsPerMsAssumption
      <3> QED
        BY <3>1
    <2>6. LedgerStep(b, c, now)
      BY <2>2, <2>4, <2>5, InterruptedLedger
    <2>7. c \in Ledger /\ EscalatedFrom(r.status) \in StageStatuses
      BY <2>6, RowsType, EscalatedFromType DEF LedgerStep, LedgerInv
    <2> QED
      BY <2>1, <2>3, <2>6, <2>7 DEF Rows
  <1> QED
    BY <1>1, <1>2

\* Escalation, with or without a ledger.
LEMMA EscalateStep ==
    ASSUME NEW r \in Rows, NEW now \in Nat, LedgerInv(r.budget, now)
    PROVE  /\ LedgerStep(r.budget, Escalate(r, now).budget, now)
           /\ Escalate(r, now) \in Rows
  <1>1. CASE ~Exists(r.budget)
    <2>1. Escalate(r, now) = [r EXCEPT !.status = "Escalated"]
      BY <1>1 DEF Escalate
    <2>2. Escalate(r, now).budget = r.budget /\ Escalate(r, now) \in Rows
      BY <2>1 DEF Rows, StageStatuses
    <2> QED
      BY <2>2, NoStep
  <1>2. CASE Exists(r.budget) /\ r.budget.state = "expired"
    BY <1>2, NoStep DEF Escalate, EscalateBudget
  <1>3. CASE Exists(r.budget) /\ r.budget.state # "expired" /\ OutOfTime(r.budget, now)
    BY <1>3, ExpireStep DEF Escalate, EscalateBudget
  <1>4. CASE Exists(r.budget) /\ r.budget.state # "expired" /\ ~OutOfTime(r.budget, now)
    <2>1. PICK gen : gen = r.budget.gen + 1
      OBVIOUS
    <2>2. PICK s : s = Charge(r, "blocked", "none", gen, now)
      OBVIOUS
    <2>3. Escalate(r, now) = [s EXCEPT !.status = EscalatedFrom(@)]
      BY <1>4, <2>1, <2>2 DEF Escalate, EscalateBudget
    <2>4. gen \in Nat /\ gen > r.budget.gen
      BY <2>1, LedgerFacts
    <2>5. "none" \in PauseReasons
      BY DEF PauseReasons
    <2>6. LedgerStep(r.budget, s.budget, now) /\ s \in Rows
      BY <1>4, <2>2, <2>4, <2>5, RotateStep, LedgerFacts
    <2>7. EscalatedFrom(s.status) \in StageStatuses
      BY <2>6, RowsType, EscalatedFromType
    <2> QED
      BY <2>3, <2>6, <2>7 DEF Rows
  <1> QED
    BY <1>1, <1>2, <1>3, <1>4

\* The human continues a blocked or interrupted stage.
LEMMA ContinueStep ==
    ASSUME NEW r \in Rows, NEW now \in Nat, LedgerInv(r.budget, now)
    PROVE  /\ LedgerStep(r.budget, ContinueBudget(r, now).budget, now)
           /\ ContinueBudget(r, now) \in Rows
  <1>1. CASE r.budget.state \notin {"blocked", "interrupted"}
    BY <1>1, NoStep DEF ContinueBudget
  <1>2. CASE r.budget.state \in {"blocked", "interrupted"} /\ OutOfTime(r.budget, now)
    BY <1>2, ExpireStep DEF ContinueBudget
  <1>3. CASE r.budget.state \in {"blocked", "interrupted"} /\ ~OutOfTime(r.budget, now)
    <2>1. PICK b \in Ledger : b = r.budget
      BY RowsType
    <2>2. PICK c : c = Charge(r, "waiting", "continued", b.gen, now).budget
      OBVIOUS
    <2>3. ContinueBudget(r, now) = Charge(r, "waiting", "continued", b.gen, now)
      BY <1>3, <2>1 DEF ContinueBudget
    <2>4. b.gen \in Nat /\ b.gen > 0 /\ now <= now
      BY <1>3, <2>1, LedgerFacts
    <2>5. "waiting" \in BudgetStates /\ "continued" \in PauseReasons
      BY DEF BudgetStates, PauseReasons
    <2>6. /\ LedgerInv(c, now) /\ Cost(c, now) <= Cost(b, now)
          /\ c.state = "waiting" /\ c.pause = "continued" /\ c.gen = b.gen
          /\ Charge(r, "waiting", "continued", b.gen, now) \in Rows
      BY <2>1, <2>2, <2>4, <2>5, ChargeWrites
    <2>7. LedgerStep(b, c, now)
      BY <1>3, <2>1, <2>4, <2>6 DEF LedgerStep, Holdable
    <2> QED
      BY <2>1, <2>2, <2>3, <2>6, <2>7
  <1> QED
    BY <1>1, <1>2, <1>3

\* An increase: the only way out of an expired ledger, and it adds time.
LEMMA IncreaseStep ==
    ASSUME NEW r \in Rows, NEW now \in Nat, NEW additional \in Nat \ {0},
           LedgerInv(r.budget, now)
    PROVE  /\ LedgerStep(r.budget, Increase(r, additional, now).budget, now)
           /\ Increase(r, additional, now) \in Rows
  <1>1. CASE IncreaseRefused(r, now)
    BY <1>1, NoStep DEF Increase
  <1>2. CASE ~IncreaseRefused(r, now)
    <2>1. PICK s : s = Advance(r, r.budget.gen, now)
      OBVIOUS
    <2>2. s \in Rows /\ LedgerStep(r.budget, s.budget, now)
          /\ s.budget.limit = r.budget.limit
      BY <2>1, AdvanceStep
    <2>3. PICK b \in Ledger : b = r.budget
      BY RowsType
    <2>4. PICK d \in Ledger : d = s.budget
      BY <2>2, RowsType
    <2>5. d.state # "active"
      <3>1. CASE r.budget.state = "active"
        <4>1. s = Expire(r, now)
          BY <1>2, <2>1, <3>1 DEF Advance, IncreaseRefused
        <4>2. OutOfTime(r.budget, now) /\ now <= now
          BY <1>2 DEF IncreaseRefused
        <4> QED
          BY <2>4, <4>1, <4>2, ExpireStep
      <3>2. CASE r.budget.state # "active"
        BY <2>1, <2>4, <3>2 DEF Advance
      <3> QED
        BY <3>1, <3>2
    <2>6. PICK g \in Nat : g = d.gen + 1
      BY DEF Ledger
    <2>7. PICK w : w = Written(d, "waiting", "increased", d.consumed, g, now)
      OBVIOUS
    <2>8. w \in Ledger /\ w.limit = d.limit /\ w.consumed = d.consumed
          /\ w.state = "waiting" /\ w.gen = g /\ w.at = now
      <3>1. d.consumed \in Nat
        BY DEF Ledger
      <3>2. "waiting" \in BudgetStates /\ "increased" \in PauseReasons
        BY DEF BudgetStates, PauseReasons
      <3> QED
        BY <2>7, <3>1, <3>2, WrittenType
    <2>9. PICK c : c = [w EXCEPT !.limit = w.limit + additional]
      OBVIOUS
    <2>10. c \in Ledger /\ c.limit = d.limit + additional
      <3>1. w.limit + additional \in Nat
        BY <2>8 DEF Ledger
      <3> QED
        BY <2>8, <2>9, <3>1 DEF Ledger
    <2>11. c.consumed = d.consumed /\ c.state = "waiting" /\ c.gen = g /\ c.at = now
      BY <2>8, <2>9 DEF Ledger
    <2>12. Increase(r, additional, now) = [s EXCEPT !.budget = c]
      BY <1>2, <2>1, <2>4, <2>6, <2>7, <2>9 DEF Increase
    <2>13. Cost(c, now) <= Cost(d, now)
      <3>1. Cost(c, now) = c.consumed * UnitsPerMs
        BY <2>10, <2>11, StoppedCost
      <3>2. Cost(d, now) = d.consumed * UnitsPerMs
        BY <2>5, StoppedCost
      <3>3. d.consumed * UnitsPerMs \in Nat
        BY UnitsPerMsAssumption DEF Ledger
      <3> QED
        BY <2>11, <3>1, <3>2, <3>3
    <2>14. Cost(c, now) \in Int /\ Cost(d, now) \in Int /\ Cost(b, now) \in Int
      BY <2>10, CostType
    <2>15. Cost(c, now) <= Cost(b, now)
      BY <2>2, <2>3, <2>4, <2>13, <2>14 DEF LedgerStep
    <2>16. g > d.gen /\ d.gen >= b.gen /\ b.gen \in Nat /\ d.gen \in Nat
      BY <2>2, <2>3, <2>4, <2>6 DEF LedgerStep, Ledger
    <2>17. c.limit > b.limit
      BY <2>2, <2>3, <2>4, <2>10 DEF Ledger
    <2>18. LedgerStep(b, c, now)
      BY <2>10, <2>11, <2>15, <2>16, <2>17 DEF LedgerStep, LedgerInv, Holdable
    <2> QED
      BY <2>2, <2>3, <2>10, <2>12, <2>18 DEF Rows
  <1> QED
    BY <1>1, <1>2
=============================================================================

-------------------------- MODULE CycleEngine_proofs --------------------------
(***************************************************************************)
(* What the stages of a cycle keep, for every number of stages, every      *)
(* configuration and every interleaving of the ledgers with one call.      *)
(*                                                                         *)
(* The types hold for any number of callers.  The rest is about cycles     *)
(* whose engine is called by one process at a time (OneCaller): two calls  *)
(* that overlap write over each other.                                     *)
(*                                                                         *)
(* What a call will write counts as if it were written: the invariants     *)
(* speak of the rows and of those a call still holds.                      *)
(***************************************************************************)
EXTENDS CycleEngine, FiniteSetTheorems, WellFoundedInduction, TLAPS

OneCaller == \A p, q \in Callers : p = q

Done == {"Completed", "Failed", "Skipped"}

\* The row of s is still to be written by the call of p.
Writing(p, s) == calls[p].pc \in {"pause", "write"} /\ s \in calls[p].todo

\* The stages that run or will when a call has written its rows.
Starting(s) == \E p \in Callers : Writing(p, s) /\ calls[p].rows[s].status = "Running"
Runs(s) == stages[s].status = "Running" \/ Starting(s)

\* A call knows what it writes.
CallInv ==
    \A p \in Callers :
        /\ calls[p].pc = "write" => calls[p].todo # {}
        /\ calls[p].pc \in {"pause", "handoff", "reset"} => calls[p].todo = {calls[p].stage}

\* Only validations are ever Skipped.
NeverSkipped ==
    \A s \in Stage \ Validations :
        /\ stages[s].status # "Skipped"
        /\ \A p \in Callers : calls[p].rows[s].status # "Skipped"

TypeInv == TypeOK /\ CallInv /\ NeverSkipped

OneRuns == \A s, t \in Stage : Runs(s) /\ Runs(t) => s = t

\* A handoff is of the stage that ran; a reset too, once its source has been
\* escalated, unless its ledger had expired.
SourceInv ==
    \A p \in Callers :
        LET c == calls[p] IN
        /\ c.pc \in {"handoff", "reset"} => With("Running") \subseteq {c.stage}
        /\ c.pc = "reset" => \/ c.rows[c.stage].status = "Running"
                             \/ stages[c.stage].status = "Running" => clock[c.stage] = "expired"

\* Everything before a stage that runs is done and stays so.
InOrder ==
    \A s \in Stage :
        Starting(s) \/ (stages[s].status = "Running" /\ clock[s] # "expired")
        => \A o \in 1..(s - 1) :
              /\ stages[o].status \in Done
              /\ \A p \in Callers : Writing(p, o) => calls[p].rows[o].status \in Done

\* A validation that will count.
Counts(status) == status \in {"Running", "PendingApproval", "Completed"}

\* A validation counts beside the Implementation it started after, beside a
\* Failed one the scheduler passed by, or until a reset has written its row.
CurrentInv ==
    /\ \A v \in Validations :
         Counts(stages[v].status) =>
           \/ stages[Implementation].status = "Completed" /\ v \in fresh
           \/ stages[Implementation].status = "Failed"
           \/ /\ stages[Implementation].status # "Completed"
              /\ \E p \in Callers : /\ calls[p].pc = "write" /\ v \in calls[p].todo
                                    /\ calls[p].rows[v].status = "Waiting"
    /\ \A p \in Callers, v \in Validations :
         Writing(p, v) /\ Counts(calls[p].rows[v].status) =>
           /\ ~Writing(p, Implementation)
           /\ \/ stages[Implementation].status = "Completed"
                 /\ (v \in fresh \/ calls[p].rows[v].status = "Running")
              \/ stages[Implementation].status = "Failed"
    /\ \A p \in Callers :
         Writing(p, Implementation) =>
           LET status == calls[p].rows[Implementation].status IN
           /\ status = "Completed" =>
                /\ calls[p].todo = {Implementation}
                /\ stages[Implementation].status \notin {"Completed", "Failed"}
           /\ status = "Failed" => calls[p].todo = {Implementation}
           /\ status \notin {"Completed", "Failed"} =>
                \A v \in Validations : Counts(stages[v].status) =>
                   /\ calls[p].pc = "write" /\ v \in calls[p].todo
                   /\ calls[p].rows[v].status = "Waiting"
    /\ \A p \in Callers :
         /\ calls[p].pc = "reset" /\ calls[p].stage = Implementation
         /\ calls[p].rows[Implementation].status = "Running"
         => stages[Implementation].status \notin {"Completed", "Failed"}

\* The inductive invariant.
IInv ==
    /\ TypeInv
    /\ OneRuns
    /\ SourceInv
    /\ config.commands \cap {"retry", "sync"} = {} => InOrder
    /\ ~torn /\ ~retried /\ cycle = "active" => CurrentInv
-----------------------------------------------------------------------------
\* The stages before and after Implementation.
LEMMA Stages ==
    /\ Last \in Nat /\ Planning \in Stage /\ Implementation \in Stage /\ Judge \in Stage
    /\ Implementation \notin Validations /\ Planning \notin Validations
    /\ Validations \subseteq Stage /\ Stage \subseteq Nat /\ 1 \in Stage
    /\ Planning < Implementation
    /\ \A s \in Stage : s \notin Validations => s <= Implementation
    /\ \A v \in Validations : v > Implementation
    /\ \A s \in Stage : 1..(s - 1) \subseteq Stage
  BY CycleEngineAssumption DEF CycleEngineAssumption, Stage, Validations

\* The first of some stages is one of them.
LEMMA FirstIn ==
    ASSUME NEW S \in SUBSET Stage, S # {}
    PROVE  First(S) \in S /\ \A o \in S : First(S) <= o
  <1> DEFINE R == {ss \in Nat \X Nat : ss[1] < ss[2]}
  <1>1. S \subseteq Nat
    BY Stages
  <1>2. IsWellFoundedOn(R, Nat)
    BY NatLessThanWellFounded DEF OpToRel
  <1>3. PICK s \in S : \A o \in S : ~(<<o, s>> \in R)
    <2> HIDE DEF R
    <2> QED
      BY <1>1, <1>2, WFMin
  <1>4. \A o \in S : s <= o
    <2> SUFFICES ASSUME NEW o \in S, o < s
                 PROVE  FALSE
      BY <1>1
    <2>1. <<o, s>> \in R
      BY <1>1
    <2> QED
      BY <1>3, <2>1
  <1> QED
    BY <1>4 DEF First
-----------------------------------------------------------------------------
(* Tables of rows.                                                         *)

Rows == [Stage -> StageRows]

\* A table in which some rows got another status.
LEMMA RowStatus ==
    ASSUME NEW rows \in Rows, NEW s \in Stage, NEW status \in StageStatuses
    PROVE  /\ [rows EXCEPT ![s].status = status] \in Rows
           /\ \A t \in Stage : [rows EXCEPT ![s].status = status][t].status
                              = IF t = s THEN status ELSE rows[t].status
  BY DEF Rows, StageRows

LEMMA ResetRows ==
    ASSUME NEW rows \in Rows, NEW S
    PROVE  /\ Reset(rows, S) \in Rows
           /\ \A t \in Stage : Reset(rows, S)[t].status
                              = IF t \in S THEN "Waiting" ELSE rows[t].status
  BY DEF Reset, Rows, StageRows, StageStatuses

LEMMA LoopedBackRows ==
    ASSUME NEW rows \in Rows, NEW from
    PROVE  /\ LoopedBack(rows, from) \in Rows
           /\ \A t \in Stage : LoopedBack(rows, from)[t].status
                = IF stages[Implementation].status # "Waiting" /\ t \in Enabled(Implementation)
                  THEN "Waiting" ELSE rows[t].status
  BY ResetRows DEF LoopedBack

\* What a ledger that stops makes of a status.
LEMMA EscalatedStatus ==
    ASSUME NEW status \in StageStatuses
    PROVE  EscalatedFrom(status) \in StageStatuses
  BY DEF EscalatedFrom, StageStatuses

LEMMA StoreFresh ==
    ASSUME TypeOK, NEW rows \in Rows, Store(rows)
    PROVE  stages' \in Rows /\ stages' = rows /\ fresh' \subseteq Validations
  BY DEF TypeOK, Store

\* A row written in full.
LEMMA RowWritten ==
    ASSUME NEW rows \in Rows, NEW s \in Stage, NEW row \in StageRows
    PROVE  /\ [rows EXCEPT ![s] = row] \in Rows
           /\ \A t \in Stage : [rows EXCEPT ![s] = row][t] = IF t = s THEN row ELSE rows[t]
  BY DEF Rows

-----------------------------------------------------------------------------
(* Types.                                                                  *)

LEMMA ReturnedType == NewRows \in Rows /\ Returned \in Calls
  BY Stages DEF Returned, Calls, NewRows, Rows, StageRows, StageStatuses

LEMMA TypeInit == Init => TypeInv
  <1> SUFFICES ASSUME Init PROVE TypeInv
    OBVIOUS
  <1>1. TypeOK
    BY ReturnedType DEF Init, TypeOK, Rows, Clocks
  <1>2. CallInv /\ NeverSkipped
    BY DEF Init, CallInv, NeverSkipped, Returned, NewRows
  <1> QED
    BY <1>1, <1>2 DEF TypeInv

\* The table as a call would write it.
LEMMA SetRows ==
    ASSUME TypeInv, NEW s \in Stage, NEW status \in StageStatuses
    PROVE  /\ Set(s, status) \in Rows
           /\ \A o \in Stage : Set(s, status)[o].status = IF o = s THEN status ELSE stages[o].status
           /\ status # "Skipped" =>
                \A o \in Stage \ Validations : Set(s, status)[o].status # "Skipped"
  <1>1. stages \in Rows /\ \A o \in Stage \ Validations : stages[o].status # "Skipped"
    BY DEF TypeInv, TypeOK, NeverSkipped, Rows
  <1>2. /\ Set(s, status) \in Rows
        /\ \A o \in Stage : Set(s, status)[o].status = IF o = s THEN status ELSE stages[o].status
    BY <1>1, RowStatus DEF Set
  <1> QED
    BY <1>1, <1>2

LEMMA StartedRows ==
    ASSUME TypeInv, NEW s \in Stage
    PROVE  LET rows == [stages EXCEPT ![s].status = "Running", ![s].iteration = @ + 1]
           IN  /\ rows \in Rows
               /\ \A o \in Stage : rows[o].status = IF o = s THEN "Running" ELSE stages[o].status
               /\ \A o \in Stage \ Validations : rows[o].status # "Skipped"
  <1>1. PICK n \in Nat : n = stages[s].iteration + 1
    BY DEF TypeInv, TypeOK, StageRows
  <1>2. [stages EXCEPT ![s].status = "Running", ![s].iteration = @ + 1]
        = [stages EXCEPT ![s].status = "Running", ![s].iteration = n]
    BY <1>1 DEF TypeInv, TypeOK, StageRows
  <1>3. LET rows == [stages EXCEPT ![s].status = "Running", ![s].iteration = n]
        IN  /\ rows \in Rows
            /\ \A o \in Stage : rows[o].status = IF o = s THEN "Running" ELSE stages[o].status
            /\ \A o \in Stage \ Validations : rows[o].status # "Skipped"
    BY DEF TypeInv, TypeOK, NeverSkipped, Rows, StageRows, StageStatuses
  <1> QED
    BY <1>2, <1>3

LEMMA ContinuedRows ==
    ASSUME TypeInv, NEW s \in Stage
    PROVE  LET rows == [stages EXCEPT ![s].status = "Waiting", ![s].extra = @ + 1]
           IN  /\ rows \in Rows
               /\ \A o \in Stage : rows[o].status = IF o = s THEN "Waiting" ELSE stages[o].status
               /\ \A o \in Stage \ Validations : rows[o].status # "Skipped"
  <1>1. PICK n \in Nat : n = stages[s].extra + 1
    BY DEF TypeInv, TypeOK, StageRows
  <1>2. [stages EXCEPT ![s].status = "Waiting", ![s].extra = @ + 1]
        = [stages EXCEPT ![s].status = "Waiting", ![s].extra = n]
    BY <1>1 DEF TypeInv, TypeOK, StageRows
  <1>3. LET rows == [stages EXCEPT ![s].status = "Waiting", ![s].extra = n]
        IN  /\ rows \in Rows
            /\ \A o \in Stage : rows[o].status = IF o = s THEN "Waiting" ELSE stages[o].status
            /\ \A o \in Stage \ Validations : rows[o].status # "Skipped"
    BY DEF TypeInv, TypeOK, NeverSkipped, Rows, StageRows, StageStatuses
  <1> QED
    BY <1>2, <1>3

LEMMA RetriedRows ==
    ASSUME TypeInv, NEW s \in Stage
    PROVE  LET rows == [stages EXCEPT ![s].status = "Waiting", ![s].iteration = 0]
           IN  /\ rows \in Rows
               /\ \A o \in Stage : rows[o].status = IF o = s THEN "Waiting" ELSE stages[o].status
               /\ \A o \in Stage \ Validations : rows[o].status # "Skipped"
  BY DEF TypeInv, TypeOK, NeverSkipped, Rows, StageRows, StageStatuses

LEMMA BlockedRows ==
    ASSUME TypeInv, NEW s \in Stage, NEW preparation \in BOOLEAN
    PROVE  LET rows == [stages EXCEPT ![s].status = "Blocked",
                          ![s].iteration = IF preparation /\ @ > 0 THEN @ - 1 ELSE @]
           IN  /\ rows \in Rows
               /\ \A o \in Stage : rows[o].status = IF o = s THEN "Blocked" ELSE stages[o].status
               /\ \A o \in Stage \ Validations : rows[o].status # "Skipped"
  <1>1. PICK n \in Nat : n = IF preparation /\ stages[s].iteration > 0
                                 THEN stages[s].iteration - 1 ELSE stages[s].iteration
    BY DEF TypeInv, TypeOK, StageRows
  <1>2. [stages EXCEPT ![s].status = "Blocked",
                     ![s].iteration = IF preparation /\ @ > 0 THEN @ - 1 ELSE @]
        = [stages EXCEPT ![s].status = "Blocked", ![s].iteration = n]
    BY <1>1 DEF TypeInv, TypeOK, StageRows
  <1>3. LET rows == [stages EXCEPT ![s].status = "Blocked", ![s].iteration = n]
        IN  /\ rows \in Rows
            /\ \A o \in Stage : rows[o].status = IF o = s THEN "Blocked" ELSE stages[o].status
            /\ \A o \in Stage \ Validations : rows[o].status # "Skipped"
    BY DEF TypeInv, TypeOK, NeverSkipped, Rows, StageRows, StageStatuses
  <1> QED
    BY <1>2, <1>3

\* Only validations may be disabled.
LEMMA OptionalStages == TypeOK => config.optional \subseteq Validations
  BY CycleEngineAssumption DEF CycleEngineAssumption, TypeOK, Snapshot

\* A step of one call.
LEMMA CallStep ==
    ASSUME TypeInv, NEW p \in Callers, NEW c \in Calls, calls' = [calls EXCEPT ![p] = c],
           c.pc = "write" => c.todo # {},
           c.pc \in {"pause", "handoff", "reset"} => c.todo = {c.stage},
           \A s \in Stage \ Validations : stages'[s].status # "Skipped"
                                          /\ c.rows[s].status # "Skipped"
    PROVE  calls' \in [Callers -> Calls] /\ CallInv' /\ NeverSkipped'
  <1>1. /\ calls \in [Callers -> Calls] /\ CallInv /\ NeverSkipped
        /\ calls' \in [Callers -> Calls]
        /\ \A q \in Callers : calls'[q] = IF q = p THEN c ELSE calls[q]
    BY DEF TypeInv, TypeOK
  <1>2. CallInv'
    BY <1>1 DEF CallInv
  <1>3. NeverSkipped'
    BY <1>1 DEF NeverSkipped
  <1> QED
    BY <1>1, <1>2, <1>3

LEMMA ReturnsType ==
    ASSUME TypeInv, NEW p \in Callers, Returns(p),
           \A s \in Stage \ Validations : stages'[s].status # "Skipped"
    PROVE  calls' \in [Callers -> Calls] /\ CallInv' /\ NeverSkipped'
  <1>1. Returned \in Calls /\ Returned.pc = "idle"
    BY ReturnedType DEF Returned
  <1>2. \A s \in Stage : Returned.rows[s].status # "Skipped"
    BY DEF Returned, NewRows
  <1> QED
    BY <1>1, <1>2, CallStep DEF Returns

LEMMA WritesType ==
    ASSUME TypeInv, NEW p \in Callers, NEW todo \in SUBSET Stage, todo # {}, NEW rows \in Rows,
           NEW then \in {"idle", "complete"}, Writes(p, todo, rows, then), stages' = stages,
           \A s \in Stage \ Validations : rows[s].status # "Skipped"
    PROVE  calls' \in [Callers -> Calls] /\ CallInv' /\ NeverSkipped'
  <1> DEFINE c == [pc |-> "write", stage |-> 1, todo |-> todo, rows |-> rows, then |-> then]
  <1>1. c \in Calls
    BY Stages DEF Calls, Rows
  <1>2. c.pc = "write" /\ c.todo = todo /\ c.rows = rows
    OBVIOUS
  <1>3. calls' = [calls EXCEPT ![p] = c]
    BY DEF Writes
  <1>4. \A s \in Stage \ Validations : stages'[s].status # "Skipped"
    BY DEF TypeInv, NeverSkipped
  <1> HIDE DEF c
  <1> QED
    BY <1>1, <1>2, <1>3, <1>4, CallStep

LEMMA LaterType ==
    ASSUME TypeInv, NEW p \in Callers, NEW pc \in {"write", "pause", "handoff", "reset"},
           NEW s \in Stage, NEW rows \in Rows, Later(p, pc, s, rows), stages' = stages,
           \A o \in Stage \ Validations : rows[o].status # "Skipped"
    PROVE  calls' \in [Callers -> Calls] /\ CallInv' /\ NeverSkipped'
  <1> DEFINE c == [pc |-> pc, stage |-> s, todo |-> {s}, rows |-> rows, then |-> "idle"]
  <1>1. c \in Calls
    BY DEF Calls, Rows
  <1>2. c.pc = pc /\ c.todo = {s} /\ c.stage = s /\ c.rows = rows
    OBVIOUS
  <1>3. calls' = [calls EXCEPT ![p] = c]
    BY DEF Later
  <1>4. \A o \in Stage \ Validations : stages'[o].status # "Skipped"
    BY DEF TypeInv, NeverSkipped
  <1> HIDE DEF c
  <1> QED
    BY <1>1, <1>2, <1>3, <1>4, CallStep

LEMMA CallsKept ==
    ASSUME TypeInv, UNCHANGED calls, \A s \in Stage \ Validations : stages'[s].status # "Skipped"
    PROVE  calls' \in [Callers -> Calls] /\ CallInv' /\ NeverSkipped'
  BY DEF TypeInv, TypeOK, CallInv, NeverSkipped

\* A ledger that stops.
LEMMA StopType ==
    ASSUME TypeInv, NEW s \in Stage, NEW state \in Clocks, Stop(s, state)
    PROVE  /\ stages' \in Rows /\ clock' \in [Stage -> Clocks] /\ fresh' \subseteq Validations
           /\ \A o \in Stage : stages'[o].status # stages[o].status
                             => stages'[o].status = "Escalated"
  <1>1. stages[s].status \in StageStatuses /\ stages \in Rows /\ clock \in [Stage -> Clocks]
    BY DEF TypeInv, TypeOK, Rows, StageRows
  <1>2. EscalatedFrom(stages[s].status) \in StageStatuses
    BY <1>1, EscalatedStatus
  <1>3. Set(s, EscalatedFrom(stages[s].status)) \in Rows
    BY <1>1, <1>2, RowStatus DEF Set
  <1>4. \A o \in Stage : stages'[o].status
                       = IF o = s THEN EscalatedFrom(stages[s].status) ELSE stages[o].status
    BY <1>1, <1>2, RowStatus DEF Set, Stop, Store
  <1> QED
    BY <1>1, <1>3, <1>4, StoreFresh DEF Stop, TypeInv, EscalatedFrom

\* What of the types a step changes: enough for those that leave a part alone.
LEMMA TypeKept ==
    ASSUME TypeInv, UNCHANGED config,
           stages' \in Rows, clock' \in [Stage -> Clocks], calls' \in [Callers -> Calls],
           cycle' \in {"active", "completed", "cancelled"}, fresh' \subseteq Validations,
           torn' \in BOOLEAN, retried' \in BOOLEAN, CallInv', NeverSkipped'
    PROVE  TypeInv'
  BY DEF TypeInv, TypeOK, Rows

LEMMA TypeNext == TypeInv /\ Next => TypeInv'
  <1> SUFFICES ASSUME TypeInv, Next
               PROVE  TypeInv'
    OBVIOUS
  <1>0. /\ stages \in Rows /\ clock \in [Stage -> Clocks] /\ calls \in [Callers -> Calls]
        /\ cycle \in {"active", "completed", "cancelled"} /\ fresh \subseteq Validations
        /\ torn \in BOOLEAN /\ retried \in BOOLEAN /\ CallInv /\ NeverSkipped
        /\ config' = config
        /\ \A o \in Stage \ Validations : stages[o].status # "Skipped"
    BY DEF TypeInv, TypeOK, Rows, Next, NeverSkipped
  <1> DEFINE Kept == /\ stages' \in Rows /\ clock' \in [Stage -> Clocks] /\ calls' \in [Callers -> Calls]
                     /\ cycle' \in {"active", "completed", "cancelled"} /\ fresh' \subseteq Validations
                     /\ torn' \in BOOLEAN /\ retried' \in BOOLEAN /\ CallInv' /\ NeverSkipped'
  <1>1. ASSUME Ledger PROVE Kept
    <2>1. ASSUME NEW s \in Stage, NEW state \in {"expired", "interrupted"}, Stop(s, state),
                 UNCHANGED <<cycle, calls, torn, retried>>
          PROVE  Kept
      BY <1>0, <2>1, StopType, CallsKept DEF Clocks
    <2>2. ASSUME Recover, UNCHANGED <<cycle, calls, torn, retried>>
          PROVE  Kept
      <3> DEFINE rows == [s \in Stage |-> IF clock[s] = "active"
                                         THEN [stages[s] EXCEPT !.status = EscalatedFrom(@)]
                                         ELSE stages[s]]
      <3>1. rows \in Rows /\ \A s \in Stage : rows[s].status # stages[s].status
                                           => rows[s].status = "Escalated"
        BY <1>0 DEF Rows, StageRows, StageStatuses, EscalatedFrom
      <3>2. stages' = rows /\ fresh' \subseteq Validations
        BY <2>2, <3>1, StoreFresh DEF Recover, TypeInv
      <3>3. clock' \in [Stage -> Clocks]
        BY <1>0, <2>2 DEF Recover, Clocks
      <3> QED
        BY <1>0, <2>2, <3>1, <3>2, <3>3, CallsKept
    <2> QED
      BY <1>1, <2>1, <2>2 DEF Ledger, Expire, Interrupt
  <1>2. ASSUME IncreasesBudget PROVE Kept
    BY <1>0, <1>2 DEF IncreasesBudget, CallInv, NeverSkipped, Clocks
  <1>3. ASSUME NEW p \in Callers, Write(p) PROVE Kept
    <2> DEFINE c == calls[p]
               s == First(c.todo)
               d == IF c.todo \ {s} # {} THEN [c EXCEPT !.todo = c.todo \ {s}]
                    ELSE IF c.then = "complete" THEN [Returned EXCEPT !.pc = "complete"]
                    ELSE Returned
    <2>1. c \in Calls /\ c.pc = "write" /\ c.todo # {} /\ s \in c.todo /\ s \in Stage
      BY <1>0, <1>3, FirstIn DEF Write, CallInv, Calls
    <2>2. [stages EXCEPT ![s] = c.rows[s]] \in Rows
      BY <1>0, <2>1 DEF Calls, Rows
    <2>3. stages' \in Rows /\ stages' = [stages EXCEPT ![s] = c.rows[s]] /\ fresh' \subseteq Validations
      BY <1>3, <2>2, StoreFresh DEF Write, TypeInv
    <2>4. \A o \in Stage \ Validations : stages'[o].status # "Skipped"
      BY <1>0, <2>3 DEF NeverSkipped, Rows
    <2>5. /\ d \in Calls
          /\ d.pc = "write" => d.todo # {}
          /\ d.pc \notin {"pause", "handoff", "reset"}
          /\ \A o \in Stage \ Validations : d.rows[o].status # "Skipped"
      <3> HIDE DEF s
      <3>1. CASE c.todo \ {s} # {}
        BY <1>0, <2>1, <3>1 DEF Calls, NeverSkipped
      <3>2. CASE c.todo \ {s} = {}
        BY <3>2, ReturnedType DEF Returned, Calls, NewRows
      <3> QED
        BY <3>1, <3>2
    <2>6. calls' = [calls EXCEPT ![p] = d]
      BY <1>3 DEF Write
    <2>7. calls' \in [Callers -> Calls] /\ CallInv' /\ NeverSkipped'
      <3> HIDE DEF d
      <3> QED
        BY <2>4, <2>5, <2>6, CallStep
    <2> QED
      BY <1>0, <1>3, <2>3, <2>7 DEF Write
  <1>4. ASSUME NEW p \in Callers, Complete(p) \/ Die(p) PROVE Kept
    BY <1>0, <1>4, ReturnsType DEF Complete, Die
  <1>5. ASSUME NEW p \in Callers, Pauses(p) PROVE Kept
    <2>1. calls' \in [Callers -> Calls] /\ CallInv' /\ NeverSkipped'
      <3>1. CASE clock[calls[p].stage] = "active"
        <4> DEFINE c == [calls[p] EXCEPT !.pc = "write"]
        <4>1. calls' = [calls EXCEPT ![p] = c] /\ calls[p].pc = "pause" /\ stages' = stages
          BY <1>5, <3>1 DEF Pauses
        <4>2. c \in Calls /\ c.pc = "write" /\ c.todo = calls[p].todo /\ c.rows = calls[p].rows
          BY <1>0 DEF Calls
        <4>3. calls[p].todo # {}
          BY <1>0, <4>1 DEF CallInv
        <4>4. \A o \in Stage \ Validations : calls[p].rows[o].status # "Skipped"
          BY <1>0 DEF NeverSkipped
        <4> HIDE DEF c
        <4> QED
          BY <1>0, <4>1, <4>2, <4>3, <4>4, CallStep
      <3>2. CASE clock[calls[p].stage] # "active"
        BY <1>0, <1>5, <3>2, ReturnsType DEF Pauses
      <3> QED
        BY <3>1, <3>2
    <2>2. clock' \in [Stage -> Clocks]
      BY <1>0, <1>5 DEF Pauses, Clocks
    <2> QED
      BY <1>0, <1>5, <2>1, <2>2 DEF Pauses
  <1>6. ASSUME NEW p \in Callers, HandsOff(p) PROVE Kept
    <2> DEFINE s == calls[p].stage
               rows == LoopedBack(Set(s, "Failed"), s)
    <2>1. s \in Stage
      BY <1>0 DEF Calls
    <2>2. /\ Set(s, "Failed") \in Rows
          /\ \A o \in Stage : Set(s, "Failed")[o].status = IF o = s THEN "Failed" ELSE stages[o].status
      BY <2>1, SetRows DEF StageStatuses
    <2>3. rows \in Rows /\ \A o \in Stage : rows[o].status \in {"Waiting", "Failed", stages[o].status}
      BY <2>2, LoopedBackRows
    <2>4. CASE CanLoopBack
      <3>1. stages' \in Rows /\ stages' = rows /\ fresh' \subseteq Validations
        BY <1>6, <2>3, <2>4, StoreFresh DEF HandsOff, TypeInv
      <3>2. \A o \in Stage \ Validations : stages'[o].status # "Skipped"
        BY <1>0, <2>3, <3>1
      <3>3. calls' \in [Callers -> Calls] /\ CallInv' /\ NeverSkipped'
        BY <1>0, <1>6, <3>2, ReturnsType DEF HandsOff
      <3> QED
        BY <1>0, <1>6, <3>1, <3>3 DEF HandsOff
    <2>5. CASE ~CanLoopBack
      BY <1>0, <1>6, <2>5, ReturnsType DEF HandsOff
    <2> QED
      BY <2>4, <2>5
  <1>7. ASSUME NEW p \in Callers, EscalatesSource(p) PROVE Kept
    <2> DEFINE s == calls[p].stage
    <2>1. s \in Stage /\ calls[p].rows \in Rows
      BY <1>0 DEF Calls, Rows
    <2> DEFINE Escalating == /\ stages' \in Rows /\ clock' \in [Stage -> Clocks]
                             /\ fresh' \subseteq Validations
                             /\ \A o \in Stage : stages'[o].status # stages[o].status
                                                 => stages'[o].status = "Escalated"
               row == [calls[p].rows[s] EXCEPT !.status = "Escalated"]
               c == [calls[p] EXCEPT !.rows[s].status = "Escalated"]
    <2>2. row \in StageRows /\ row.status = "Escalated"
      BY <2>1 DEF Rows, StageRows, StageStatuses
    <2>3. Escalating
      <3>1. ASSUME NEW state \in {"blocked", "expired"}, Stop(s, state) PROVE Escalating
        BY <2>1, <3>1, StopType DEF Clocks
      <3>2. ASSUME UNCHANGED <<clock, stages, fresh>> PROVE Escalating
        BY <1>0, <3>2
      <3>3. ASSUME Store([stages EXCEPT ![s] = row]), UNCHANGED clock PROVE Escalating
        <4> HIDE DEF row
        <4>1. [stages EXCEPT ![s] = row] \in Rows
          BY <1>0, <2>1, <2>2, RowWritten
        <4> QED
          BY <1>0, <2>1, <2>2, <3>3, <4>1, RowWritten, StoreFresh DEF TypeInv
      <3> HIDE DEF Escalating
      <3> QED
        BY <1>7, <3>1, <3>2, <3>3 DEF EscalatesSource
    <2>4. calls' \in [Callers -> Calls] /\ CallInv' /\ NeverSkipped'
      <3>1. calls' = [calls EXCEPT ![p] = c]
        BY <1>0, <1>7 DEF EscalatesSource, Calls
      <3>2. c.rows = [calls[p].rows EXCEPT ![s] = row]
        BY <1>0 DEF Calls
      <3>3. c.pc = calls[p].pc /\ c.todo = calls[p].todo /\ c.stage = calls[p].stage
        BY <1>0 DEF Calls
      <3>4. c \in Calls
        <4>1. [calls[p].rows EXCEPT ![s] = row] \in Rows
          BY <2>1, <2>2, RowWritten
        <4>2. c = [calls[p] EXCEPT !.rows = [calls[p].rows EXCEPT ![s] = row]]
          BY <1>0 DEF Calls
        <4> QED
          BY <1>0, <4>1, <4>2 DEF Calls, Rows
      <3>5. \A o \in Stage \ Validations : stages'[o].status # "Skipped"
        BY <1>0, <2>3
      <3>6. \A o \in Stage \ Validations : c.rows[o].status # "Skipped"
        <4> HIDE DEF row
        <4> QED
          BY <1>0, <2>1, <2>2, <3>2, RowWritten DEF NeverSkipped
      <3> HIDE DEF c
      <3> QED
        BY <1>0, <3>1, <3>3, <3>4, <3>5, <3>6, CallStep DEF CallInv
    <2> QED
      BY <1>0, <1>7, <2>3, <2>4 DEF EscalatesSource
  <1>8. ASSUME NEW p \in Callers, ReadsAgain(p) PROVE Kept
    <2>1. Reset(stages, Stage) \in Rows /\ \A o \in Stage : Reset(stages, Stage)[o].status = "Waiting"
      BY <1>0, ResetRows
    <2>2. Planning \in Enabled(Planning) /\ Enabled(Planning) \subseteq Stage
      BY <1>0, Stages DEF Enabled, Stage
    <2>3. calls' \in [Callers -> Calls] /\ CallInv' /\ NeverSkipped'
      BY <1>8, <2>1, <2>2, WritesType DEF ReadsAgain
    <2> QED
      BY <1>0, <1>8, <2>3 DEF ReadsAgain
  <1>9. ASSUME NEW p \in Callers, NEW s \in Stage, Starts(p, s) PROVE Kept
    <2> DEFINE rows == [stages EXCEPT ![s].status = "Running", ![s].iteration = @ + 1]
    <2>1. rows \in Rows /\ \A o \in Stage \ Validations : rows[o].status # "Skipped"
      BY <1>0, StartedRows
    <2>2. Writes(p, {s}, rows, "idle") /\ stages' = stages
      BY <1>9 DEF Starts
    <2>3. calls' \in [Callers -> Calls] /\ CallInv' /\ NeverSkipped'
      <3> HIDE DEF rows
      <3> QED
        BY <2>1, <2>2, WritesType
    <2>4. clock' \in [Stage -> Clocks]
      BY <1>0, <1>9 DEF Starts, Clocks
    <2> QED
      BY <1>0, <1>9, <2>3, <2>4 DEF Starts
  <1>10. ASSUME NEW p \in Callers, NEW s \in Stage, EscalateStage(p, s),
                UNCHANGED <<cycle, torn, retried>>
         PROVE Kept
    <2>1. ASSUME NEW state \in {"blocked", "expired"}, Stop(s, state), UNCHANGED calls PROVE Kept
      BY <1>0, <1>10, <2>1, StopType, CallsKept DEF Clocks
    <2>2. ASSUME Writes(p, {s}, Set(s, "Escalated"), "idle"), UNCHANGED <<stages, clock, fresh>>
          PROVE  Kept
      <3>1. /\ Set(s, "Escalated") \in Rows
            /\ \A o \in Stage \ Validations : Set(s, "Escalated")[o].status # "Skipped"
        BY SetRows DEF StageStatuses
      <3>2. calls' \in [Callers -> Calls] /\ CallInv' /\ NeverSkipped'
        BY <2>2, <3>1, WritesType
      <3> QED
        BY <1>0, <1>10, <2>2, <3>2
    <2> QED
      BY <1>10, <2>1, <2>2 DEF EscalateStage
  <1>11. ASSUME NEW p \in Callers, NEW s \in Stage, Closes(p, s) PROVE Kept
    <2>1. PICK status \in {"PendingApproval", "Completed", "Failed"} :
             Later(p, IF clock[s] = "none" THEN "write" ELSE "pause", s, Set(s, status))
      BY <1>11 DEF Closes
    <2>2. /\ Set(s, status) \in Rows
          /\ \A o \in Stage \ Validations : Set(s, status)[o].status # "Skipped"
      BY Stages, SetRows DEF StageStatuses
    <2>3. calls' \in [Callers -> Calls] /\ CallInv' /\ NeverSkipped'
      BY <1>11, <2>1, <2>2, LaterType DEF Closes
    <2> QED
      BY <1>0, <1>11, <2>3 DEF Closes
  <1>12. ASSUME NEW p \in Callers, ClosesEmpty(p) PROVE Kept
    <2>1. /\ Set(Implementation, "Completed") \in Rows
          /\ \A o \in Stage \ Validations : Set(Implementation, "Completed")[o].status # "Skipped"
      BY Stages, SetRows DEF StageStatuses
    <2>2. calls' \in [Callers -> Calls] /\ CallInv' /\ NeverSkipped'
      BY <1>12, <2>1, Stages, WritesType DEF ClosesEmpty
    <2> QED
      BY <1>0, <1>12, <2>2 DEF ClosesEmpty
  <1>13. ASSUME NEW p \in Callers, NEW s \in Stage, FailsWithFindings(p, s) PROVE Kept
    <2>1. calls' \in [Callers -> Calls] /\ CallInv' /\ NeverSkipped'
      BY <1>0, <1>13, LaterType DEF FailsWithFindings
    <2> QED
      BY <1>0, <1>13, <2>1 DEF FailsWithFindings
  <1>14. ASSUME NEW p \in Callers, NEW s \in Stage, LoopsBack(p, s) PROVE Kept
    <2>1. Reset(stages, Stage) \in Rows /\ \A o \in Stage : Reset(stages, Stage)[o].status = "Waiting"
      BY <1>0, ResetRows
    <2>2. Implementation \in Enabled(Implementation) /\ Enabled(Implementation) \subseteq Stage
      BY <1>0, Stages DEF Enabled, Stage
    <2>3. calls' \in [Callers -> Calls] /\ CallInv' /\ NeverSkipped'
      BY <1>0, <1>14, <2>1, <2>2, WritesType DEF LoopsBack
    <2> QED
      BY <1>0, <1>14, <2>3 DEF LoopsBack
  <1>15. ASSUME NEW p \in Callers, NEW s \in Stage, ReopensPlanning(p, s) PROVE Kept
    <2>1. calls' \in [Callers -> Calls] /\ CallInv' /\ NeverSkipped'
      BY <1>0, <1>15, LaterType DEF ReopensPlanning
    <2> QED
      BY <1>0, <1>15, <2>1 DEF ReopensPlanning
  <1>16. ASSUME NEW p \in Callers, NEW s \in Stage, Blocks(p, s) PROVE Kept
    <2>1. PICK preparation \in BOOLEAN :
             Store([stages EXCEPT ![s].status = "Blocked",
                      ![s].iteration = IF preparation /\ @ > 0 THEN @ - 1 ELSE @])
      BY <1>16 DEF Blocks
    <2> DEFINE rows == [stages EXCEPT ![s].status = "Blocked",
                          ![s].iteration = IF preparation /\ @ > 0 THEN @ - 1 ELSE @]
    <2>2. rows \in Rows /\ \A o \in Stage \ Validations : rows[o].status # "Skipped"
      BY <1>0, BlockedRows
    <2>3. stages' = rows /\ fresh' \subseteq Validations
      <3> HIDE DEF rows
      <3> QED
        BY <2>1, <2>2, StoreFresh DEF TypeInv, rows
    <2>4. calls' \in [Callers -> Calls] /\ CallInv' /\ NeverSkipped'
      <3> HIDE DEF rows
      <3> QED
        BY <1>16, <2>2, <2>3, CallsKept DEF Blocks
    <2>5. clock' \in [Stage -> Clocks]
      BY <1>0, <1>16 DEF Blocks, Clocks
    <2> QED
      BY <1>0, <1>16, <2>2, <2>3, <2>4, <2>5 DEF Blocks
  <1>17. ASSUME NEW p \in Callers, ContinuesBlocked(p) PROVE Kept
    <2> DEFINE s == First(With("Blocked"))
               rows == [stages EXCEPT ![s].status = "Waiting", ![s].extra = @ + 1]
    <2>1. s \in Stage
      BY <1>17, FirstIn DEF ContinuesBlocked, With
    <2>2. rows \in Rows /\ \A o \in Stage \ Validations : rows[o].status # "Skipped"
      <3> HIDE DEF s
      <3> QED
        BY <2>1, ContinuedRows
    <2>3. /\ Store(rows) \/ Store(LoopedBack(rows, s))
          /\ clock' = [clock EXCEPT ![s] = Continued(@)]
          /\ UNCHANGED <<cycle, calls, torn, retried>>
      BY <1>17 DEF ContinuesBlocked
    <2> HIDE DEF rows, s
    <2>4. /\ LoopedBack(rows, s) \in Rows
          /\ \A o \in Stage \ Validations : LoopedBack(rows, s)[o].status # "Skipped"
      BY <2>2, LoopedBackRows
    <2>5. /\ stages' \in Rows /\ fresh' \subseteq Validations
          /\ \A o \in Stage \ Validations : stages'[o].status # "Skipped"
      BY <2>2, <2>3, <2>4, StoreFresh DEF TypeInv
    <2>6. clock' \in [Stage -> Clocks]
      BY <1>0, <2>1, <2>3 DEF Continued, Clocks
    <2> QED
      BY <1>0, <2>3, <2>5, <2>6, CallsKept
  <1>18. ASSUME NEW p \in Callers, ContinuesEscalated(p) PROVE Kept
    <2> DEFINE s == First(With("Escalated"))
               rows == [stages EXCEPT ![s].status = "Waiting", ![s].extra = @ + 1]
    <2>1. s \in Stage
      BY <1>18, FirstIn DEF ContinuesEscalated, With
    <2>2. rows \in Rows /\ \A o \in Stage \ Validations : rows[o].status # "Skipped"
      <3> HIDE DEF s
      <3> QED
        BY <2>1, ContinuedRows
    <2>3. /\ Writes(p, {s}, rows, "idle")
          /\ clock' = [clock EXCEPT ![s] = Continued(@)]
          /\ UNCHANGED <<cycle, stages, fresh, torn, retried>>
      BY <1>18 DEF ContinuesEscalated
    <2> HIDE DEF rows, s
    <2>4. clock' \in [Stage -> Clocks]
      BY <1>0, <2>1, <2>3 DEF Continued, Clocks
    <2>5. calls' \in [Callers -> Calls] /\ CallInv' /\ NeverSkipped'
      BY <2>1, <2>2, <2>3, WritesType
    <2> QED
      BY <1>0, <2>3, <2>4, <2>5
  <1>19. ASSUME NEW p \in Callers, Approves(p) PROVE Kept
    <2> DEFINE s == First(With("PendingApproval"))
    <2>1. s \in Stage
      BY <1>19, FirstIn DEF Approves, With
    <2>2. PICK status \in {"Completed", "Waiting"} : Writes(p, {s}, Set(s, status), "idle")
      BY <1>19 DEF Approves
    <2> HIDE DEF s
    <2>3. Set(s, status) \in Rows /\ \A o \in Stage \ Validations : Set(s, status)[o].status # "Skipped"
      BY <2>1, SetRows DEF StageStatuses
    <2>4. calls' \in [Callers -> Calls] /\ CallInv' /\ NeverSkipped'
      BY <1>19, <2>1, <2>2, <2>3, WritesType DEF Approves
    <2> QED
      BY <1>0, <1>19, <2>4 DEF Approves
  <1>20. ASSUME NEW p \in Callers, Finishes(p) PROVE Kept
    <2>1. calls' \in [Callers -> Calls] /\ CallInv' /\ NeverSkipped'
      <3>1. CASE With("PendingApproval") = {}
        <4> DEFINE c == [Returned EXCEPT !.pc = "complete"]
        <4>1. calls' = [calls EXCEPT ![p] = c] /\ stages' = stages
          BY <1>20, <3>1 DEF Finishes
        <4>2. c \in Calls /\ c.pc = "complete" /\ \A o \in Stage : c.rows[o].status = "Waiting"
          BY ReturnedType DEF Returned, Calls, NewRows
        <4> HIDE DEF c
        <4> QED
          BY <1>0, <4>1, <4>2, CallStep
      <3>2. CASE With("PendingApproval") # {}
        <4> DEFINE s == First(With("PendingApproval"))
        <4>1. s \in Stage
          BY <3>2, FirstIn DEF With
        <4>2. Writes(p, {s}, Set(s, "Completed"), "complete") /\ stages' = stages
          BY <1>20, <3>2 DEF Finishes
        <4> HIDE DEF s
        <4>3. /\ Set(s, "Completed") \in Rows
              /\ \A o \in Stage \ Validations : Set(s, "Completed")[o].status # "Skipped"
          BY <4>1, SetRows DEF StageStatuses
        <4> QED
          BY <4>1, <4>2, <4>3, WritesType
      <3> QED
        BY <3>1, <3>2
    <2> QED
      BY <1>0, <1>20, <2>1 DEF Finishes
  <1>21. ASSUME NEW p \in Callers, Cancels(p) PROVE Kept
    BY <1>0, <1>21 DEF Cancels, CallInv, NeverSkipped
  <1>22. ASSUME NEW p \in Callers, DefersAll(p) PROVE Kept
    <2> DEFINE rows == [s \in Stage |->
                IF s < Implementation \/ stages[s].status \in {"Completed", "Skipped", "Failed"}
                THEN stages[s]
                ELSE [stages[s] EXCEPT !.status = IF s = Implementation THEN "Completed"
                                                  ELSE "Skipped"]]
    <2>1. rows \in Rows
      BY <1>0 DEF Rows, StageRows, StageStatuses
    <2>2. \A s \in Stage \ Validations : rows[s].status # "Skipped"
      BY <1>0, Stages DEF Rows, StageRows
    <2>3. Store(rows) /\ UNCHANGED calls
      BY <1>22 DEF DefersAll
    <2> HIDE DEF rows
    <2>4. stages' \in Rows /\ stages' = rows /\ fresh' \subseteq Validations
      BY <2>1, <2>3, StoreFresh DEF TypeInv
    <2>5. calls' \in [Callers -> Calls] /\ CallInv' /\ NeverSkipped'
      BY <2>2, <2>3, <2>4, CallsKept
    <2> QED
      BY <1>0, <1>22, <2>4, <2>5 DEF DefersAll
  <1>23. ASSUME NEW p \in Callers, NEW s \in Stage, Retries(p, s) PROVE Kept
    <2> DEFINE rows == [stages EXCEPT ![s].status = "Waiting", ![s].iteration = 0]
    <2>1. rows \in Rows /\ \A o \in Stage \ Validations : rows[o].status # "Skipped"
      BY RetriedRows
    <2>2. Writes(p, {s}, rows, "idle") /\ stages' = stages
      BY <1>23 DEF Retries
    <2>3. calls' \in [Callers -> Calls] /\ CallInv' /\ NeverSkipped'
      <3> HIDE DEF rows
      <3> QED
        BY <2>1, <2>2, WritesType
    <2> QED
      BY <1>0, <1>23, <2>3 DEF Retries
  <1>24. ASSUME NEW p \in Callers, Syncs(p) PROVE Kept
    <2> DEFINE open == {s \in Stage : stages[s].status \notin {"Completed", "Failed"}}
    <2>1. PICK disabled \in SUBSET config.optional :
            Writes(p, open,
                 [s \in Stage |-> IF stages[s].status \notin {"Waiting", "Skipped"} THEN stages[s]
                                  ELSE [stages[s] EXCEPT !.status = IF s \in disabled
                                                          THEN "Skipped" ELSE "Waiting"]],
                 "idle")
      BY <1>24 DEF Syncs
    <2> DEFINE rows == [s \in Stage |-> IF stages[s].status \notin {"Waiting", "Skipped"} THEN stages[s]
                                  ELSE [stages[s] EXCEPT !.status = IF s \in disabled
                                                          THEN "Skipped" ELSE "Waiting"]]
    <2>2. disabled \subseteq Validations
      BY OptionalStages DEF TypeInv, TypeOK
    <2>3. rows \in Rows
      BY <1>0 DEF Rows, StageRows, StageStatuses
    <2>4. \A s \in Stage \ Validations : rows[s].status # "Skipped"
      BY <1>0, <2>2 DEF Rows, StageRows
    <2>5. Writes(p, open, rows, "idle") /\ stages' = stages /\ open # {} /\ open \subseteq Stage
      BY <1>24, <2>1 DEF Syncs
    <2> HIDE DEF rows, open
    <2>6. calls' \in [Callers -> Calls] /\ CallInv' /\ NeverSkipped'
      BY <2>3, <2>4, <2>5, WritesType
    <2> QED
      BY <1>0, <1>24, <2>6 DEF Syncs
  <1> QED
    <2>1. Kept
      BY <1>1, <1>2, <1>3, <1>4, <1>5, <1>6, <1>7, <1>8, <1>9, <1>10, <1>11, <1>12, <1>13, <1>14,
         <1>15, <1>16, <1>17, <1>18, <1>19, <1>20, <1>21, <1>22, <1>23, <1>24
         DEF Next, Step, Start, Report, Command, StartExhausted, Escalates
    <2> QED
      BY <1>0, <2>1, TypeKept
\* Every variable keeps its type, whatever the number of callers.
THEOREM TypeCorrect == Spec => []TypeOK
  <1>1. TypeInv /\ UNCHANGED vars => TypeInv'
    BY DEF TypeInv, TypeOK, CallInv, NeverSkipped, vars
  <1>2. TypeInv => TypeOK
    BY DEF TypeInv
  <1> QED
    BY TypeInit, TypeNext, <1>1, <1>2, PTL DEF Spec

-----------------------------------------------------------------------------
(* The inductive invariant, one action after the other.                    *)

\* The only call is that of p.
LEMMA Only ==
    ASSUME OneCaller, NEW p \in Callers
    PROVE  /\ \A s : Starting(s) <=> Writing(p, s) /\ calls[p].rows[s].status = "Running"
           /\ \A s : Starting(s)' <=> Writing(p, s)' /\ calls'[p].rows[s].status = "Running"
  BY DEF OneCaller, Starting

\* Ledgers that stop: no row but a Waiting or Running one changes, to
\* Escalated, and a Running stage whose ledger expired keeps it so.
Calm ==
    /\ \A s \in Stage : \/ stages'[s].status = stages[s].status
                        \/ /\ stages[s].status \in {"Waiting", "Running"}
                           /\ stages'[s].status = "Escalated"
    /\ \A s \in Stage : stages[s].status = "Running" /\ clock[s] = "expired" => clock'[s] = "expired"
    /\ fresh' = fresh

LEMMA CalmStep ==
    ASSUME IInv, TypeInv', Calm, UNCHANGED <<config, calls, cycle, torn, retried>>
    PROVE  IInv'
  <1>1. \A p \in Callers, s \in Stage : Writing(p, s)' = Writing(p, s)
    BY DEF Writing
  <1>2. \A s \in Stage : /\ Starting(s)' = Starting(s)
                         /\ stages'[s].status = "Running" => stages[s].status = "Running"
                         /\ stages[s].status \in Done <=> stages'[s].status \in Done
    BY <1>1 DEF Calm, Starting, Done
  <1>3. OneRuns'
    BY <1>2 DEF IInv, OneRuns, Runs
  <1>4. SourceInv'
    BY <1>2 DEF IInv, TypeInv, TypeOK, Calls, SourceInv, With, Calm
  <1>5. InOrder => InOrder'
    <2> SUFFICES ASSUME InOrder, NEW s \in Stage,
                        Starting(s)' \/ (stages'[s].status = "Running" /\ clock'[s] # "expired"),
                        NEW o \in 1..(s - 1)
                 PROVE  /\ stages'[o].status \in Done
                        /\ \A p \in Callers : Writing(p, o)' => calls'[p].rows[o].status \in Done
      BY DEF InOrder
    <2>1. o \in Stage
      BY Stages
    <2> QED
      BY <1>1, <1>2, <2>1 DEF InOrder, Calm
  <1>6. CurrentInv => CurrentInv'
    <2>1. \A s \in Stage : /\ stages'[s].status = "Completed" <=> stages[s].status = "Completed"
                           /\ stages'[s].status = "Failed" <=> stages[s].status = "Failed"
                           /\ Counts(stages'[s].status) => Counts(stages[s].status)
      BY DEF Calm, Counts
    <2> QED
      BY <1>1, <2>1, Stages DEF CurrentInv, Calm
  <1> QED
    BY <1>3, <1>4, <1>5, <1>6 DEF IInv
\* Committing a table starts no validation but those it makes Running.
LEMMA FreshKept ==
    ASSUME TypeOK, NEW rows \in Rows, Store(rows),
           rows[Implementation].status = "Completed" => stages[Implementation].status = "Completed"
    PROVE  fresh' = fresh \cup {v \in Validations : rows[v].status = "Running"
                                                    /\ stages[v].status # "Running"}
  BY DEF Store

LEMMA StopCalm ==
    ASSUME TypeInv, NEW s \in Stage, NEW state \in Clocks, Stop(s, state),
           clock[s] = "expired" => stages[s].status # "Running"
    PROVE  Calm
  <1>1. stages[s].status \in StageStatuses /\ clock \in [Stage -> Clocks] /\ TypeOK
    BY DEF TypeInv, TypeOK, StageRows
  <1> DEFINE status == EscalatedFrom(stages[s].status)
             rows == Set(s, status)
  <1>2. /\ status \in StageStatuses
        /\ status = stages[s].status \/ (stages[s].status \in {"Waiting", "Running"}
                                         /\ status = "Escalated")
    BY <1>1, EscalatedStatus DEF EscalatedFrom
  <1> HIDE DEF status
  <1>3. rows \in Rows /\ \A o \in Stage : rows[o].status = IF o = s THEN status ELSE stages[o].status
    BY <1>2, SetRows
  <1>4. Store(rows) /\ stages' = rows
    BY DEF Stop, Store, status
  <1> HIDE DEF rows
  <1>5. fresh' = fresh
    <2>1. \A o \in Stage : rows[o].status \in {"Running", "Completed"}
                             => rows[o].status = stages[o].status
      BY <1>2, <1>3
    <2>2. /\ Implementation \in Stage /\ Validations \subseteq Stage
      BY Stages
    <2>3. fresh' = fresh \cup {v \in Validations : rows[v].status = "Running"
                                                    /\ stages[v].status # "Running"}
      BY <1>1, <1>3, <1>4, <2>1, <2>2, FreshKept
    <2>4. {v \in Validations : rows[v].status = "Running" /\ stages[v].status # "Running"} = {}
      BY <2>1, <2>2
    <2> QED
      BY <2>3, <2>4
  <1>6. \A o \in Stage : clock'[o] = IF o = s THEN state ELSE clock[o]
    BY <1>1 DEF Stop
  <1> QED
    BY <1>2, <1>3, <1>4, <1>5, <1>6 DEF Calm

LEMMA LedgerStep ==
    ASSUME TypeInv, Ledger
    PROVE  Calm /\ UNCHANGED <<calls, cycle, torn, retried>>
  <1>1. ASSUME NEW s \in Stage, Expire(s) PROVE Calm
    BY <1>1, StopCalm DEF Expire, Clocks
  <1>2. ASSUME NEW s \in Stage, Interrupt(s) PROVE Calm
    BY <1>2, StopCalm DEF Interrupt, Clocks
  <1>3. ASSUME Recover PROVE Calm
    <2> DEFINE rows == [s \in Stage |-> IF clock[s] = "active"
                                        THEN [stages[s] EXCEPT !.status = EscalatedFrom(@)]
                                        ELSE stages[s]]
    <2>1. TypeOK /\ stages \in Rows
      BY DEF TypeInv, TypeOK, Rows
    <2>2. rows \in Rows /\ \A s \in Stage : \/ rows[s].status = stages[s].status
                                            \/ /\ stages[s].status \in {"Waiting", "Running"}
                                               /\ rows[s].status = "Escalated"
      BY <2>1 DEF Rows, StageRows, StageStatuses, EscalatedFrom
    <2>3. Store(rows) /\ stages' = rows
      BY <1>3 DEF Recover, Store
    <2>4. \A s \in Stage : clock[s] = "expired" => clock'[s] = "expired"
      BY <1>3 DEF Recover
    <2> HIDE DEF rows
    <2>5. fresh' = fresh
      BY <2>1, <2>2, <2>3, FreshKept, Stages
    <2> QED
      BY <2>2, <2>3, <2>4, <2>5 DEF Calm
  <1> QED
    BY <1>1, <1>2, <1>3 DEF Ledger

LEMMA IncreaseStep ==
    ASSUME TypeInv, IncreasesBudget
    PROVE  Calm /\ UNCHANGED <<calls, cycle, torn, retried>>
  <1> DEFINE s == First(With("Escalated"))
  <1>1. s \in With("Escalated")
    BY FirstIn DEF IncreasesBudget, With
  <1>2. clock' = [clock EXCEPT ![s] = "waiting"] /\ UNCHANGED <<stages, fresh, calls, cycle, torn, retried>>
    BY DEF IncreasesBudget
  <1> HIDE DEF s
  <1> QED
    BY <1>1, <1>2 DEF Calm, With, TypeInv, TypeOK

\* The end of a call that leaves the rows alone.
LEMMA EndStep ==
    ASSUME OneCaller, IInv, TypeInv', NEW p \in Callers, calls'[p].pc \in {"idle", "complete"},
           UNCHANGED <<config, stages, clock, fresh>>, retried => retried',
           cycle' = "active" => cycle = "active",
           torn' = (torn \/ \E v \in calls[p].todo \cap Validations :
                              calls[p].pc = "write" /\ calls[p].rows[v].status = "Waiting")
    PROVE  IInv'
  <1>1. \A s : ~Writing(p, s)' /\ ~Starting(s)'
    BY Only DEF Writing
  <1>2. \A q \in Callers : q = p
    BY DEF OneCaller
  <1>3. OneRuns'
    BY <1>1 DEF IInv, OneRuns, Runs
  <1>4. SourceInv'
    BY <1>2 DEF SourceInv
  <1>5. InOrder => InOrder'
    BY <1>1, <1>2 DEF InOrder
  <1>6. ~torn' /\ CurrentInv => CurrentInv'
    <2> SUFFICES ASSUME ~torn', CurrentInv PROVE CurrentInv'
      OBVIOUS
    <2>1. ASSUME NEW v \in Validations, Counts(stages'[v].status)
          PROVE  \/ stages'[Implementation].status = "Completed" /\ v \in fresh'
                 \/ stages'[Implementation].status = "Failed"
      BY <1>2, <2>1 DEF CurrentInv
    <2> QED
      BY <1>1, <1>2, <2>1 DEF CurrentInv
  <1> QED
    BY <1>3, <1>4, <1>5, <1>6 DEF IInv
\* A call that has read the table and will write rows.
LEMMA Begins ==
    ASSUME OneCaller, IInv, TypeInv', NEW p \in Callers, NEW todo \in SUBSET Stage, NEW rows,
           calls[p].pc \in {"idle", "reset"}, calls'[p].pc \in {"pause", "write"},
           calls'[p].todo = todo, calls'[p].rows = rows,
           UNCHANGED <<config, cycle, stages, fresh, torn>>, retried => retried',
           \A s \in Stage : stages[s].status = "Running" /\ clock[s] = "expired"
                            => clock'[s] = "expired",
           \A s \in todo : rows[s].status = "Running" =>
             \A t \in Stage : stages[t].status = "Running"
                              \/ (t \in todo /\ rows[t].status = "Running") => t = s,
           config.commands \cap {"retry", "sync"} = {} /\ InOrder =>
             \A s \in Stage : \A o \in 1..(s - 1) :
               /\ s \in todo /\ rows[s].status = "Running" =>
                    stages[o].status \in Done /\ (o \in todo => rows[o].status \in Done)
               /\ stages[s].status = "Running" /\ clock[s] # "expired" /\ o \in todo =>
                    rows[o].status \in Done,
           ~retried' /\ CurrentInv =>
             \A v \in todo \cap Validations : Counts(rows[v].status) =>
               /\ Implementation \notin todo
               /\ \/ stages[Implementation].status = "Completed"
                     /\ (v \in fresh \/ rows[v].status = "Running")
                  \/ stages[Implementation].status = "Failed",
           ~retried' /\ CurrentInv /\ Implementation \in todo =>
             LET status == rows[Implementation].status IN
             /\ status = "Completed" =>
                  /\ todo = {Implementation}
                  /\ stages[Implementation].status \notin {"Completed", "Failed"}
             /\ status = "Failed" => todo = {Implementation}
             /\ status \notin {"Completed", "Failed"} =>
                  \A v \in Validations : Counts(stages[v].status) =>
                     calls'[p].pc = "write" /\ v \in todo /\ rows[v].status = "Waiting"
    PROVE  IInv'
  <1>1. \A q \in Callers : q = p
    BY DEF OneCaller
  <1>2. /\ \A s : ~Writing(p, s) /\ ~Starting(s)
        /\ \A s : Writing(p, s)' <=> s \in todo
        /\ \A s : Starting(s)' <=> s \in todo /\ rows[s].status = "Running"
    BY Only DEF Writing
  <1>3. OneRuns'
    BY <1>2 DEF IInv, OneRuns, Runs
  <1>4. SourceInv'
    BY <1>1 DEF SourceInv
  <1>5. config.commands \cap {"retry", "sync"} = {} /\ InOrder => InOrder'
    <2> SUFFICES ASSUME config.commands \cap {"retry", "sync"} = {}, InOrder, NEW s \in Stage,
                        Starting(s)' \/ (stages'[s].status = "Running" /\ clock'[s] # "expired"),
                        NEW o \in 1..(s - 1)
                 PROVE  /\ stages'[o].status \in Done
                        /\ Writing(p, o)' => calls'[p].rows[o].status \in Done
      BY <1>1 DEF InOrder
    <2> QED
      BY <1>2 DEF InOrder
  <1>6. ~retried' /\ CurrentInv => CurrentInv'
    <2> SUFFICES ASSUME ~retried', CurrentInv PROVE CurrentInv'
      OBVIOUS
    <2>1. \A v \in Validations : Counts(stages'[v].status) =>
             \/ stages'[Implementation].status = "Completed" /\ v \in fresh'
             \/ stages'[Implementation].status = "Failed"
      BY <1>1 DEF CurrentInv
    <2>2. \A v \in Validations : Writing(p, v)' /\ Counts(calls'[p].rows[v].status) =>
             /\ ~Writing(p, Implementation)'
             /\ \/ stages'[Implementation].status = "Completed"
                   /\ (v \in fresh' \/ calls'[p].rows[v].status = "Running")
                \/ stages'[Implementation].status = "Failed"
      BY <1>2
    <2> QED
      BY <1>1, <1>2, <2>1, <2>2 DEF CurrentInv
  <1> QED
    BY <1>3, <1>4, <1>5, <1>6 DEF IInv

\* A call that will write one row, of a stage that was not done.
LEMMA BeginsOne ==
    ASSUME OneCaller, IInv, TypeInv', NEW p \in Callers, NEW s \in Stage, NEW rows,
           calls[p].pc = "idle", calls'[p].pc \in {"pause", "write"},
           calls'[p].todo = {s}, calls'[p].rows = rows,
           UNCHANGED <<config, cycle, stages, fresh, torn, retried>>,
           \A t \in Stage : stages[t].status = "Running" /\ clock[t] = "expired"
                            => clock'[t] = "expired",
           stages[s].status \notin Done, rows[s].status # "Running",
           Counts(rows[s].status) => Counts(stages[s].status)
    PROVE  IInv'
  <1>1. \A q \in Callers : q = p
    BY DEF OneCaller
  <1>2. InOrder => \A t \in Stage : \A o \in 1..(t - 1) :
                     stages[t].status = "Running" /\ clock[t] # "expired" => o # s
    BY DEF InOrder
  <1>3. CurrentInv => \A v \in Validations : Counts(stages[v].status) =>
                        \/ stages[Implementation].status = "Completed" /\ v \in fresh
                        \/ stages[Implementation].status = "Failed"
    BY <1>1 DEF CurrentInv
  <1>4. Implementation \notin Validations
    BY Stages
  <1> QED
    BY <1>2, <1>3, <1>4, Begins DEF Done
\* What calls' says of a call that begins.
LEMMA Planned ==
    ASSUME TypeInv, NEW p \in Callers, NEW todo, NEW rows, NEW then, Writes(p, todo, rows, then)
    PROVE  calls'[p].pc = "write" /\ calls'[p].todo = todo /\ calls'[p].rows = rows
  BY DEF Writes, TypeInv, TypeOK

LEMMA Deferred ==
    ASSUME TypeInv, NEW p \in Callers, NEW pc, NEW s, NEW rows, Later(p, pc, s, rows)
    PROVE  /\ calls'[p].pc = pc /\ calls'[p].todo = {s} /\ calls'[p].rows = rows
           /\ calls'[p].stage = s
  BY DEF Later, TypeInv, TypeOK

LEMMA StartsStep ==
    ASSUME OneCaller, IInv, TypeInv', UNCHANGED config, NEW p \in Callers, NEW s \in Stage,
           Starts(p, s)
    PROVE  IInv'
  <1> DEFINE rows == [stages EXCEPT ![s].status = "Running", ![s].iteration = @ + 1]
  <1>1. TypeInv /\ stages \in [Stage -> StageRows] /\ clock \in [Stage -> Clocks]
    BY DEF IInv, TypeInv, TypeOK
  <1>2. \A o \in Stage : rows[o].status = IF o = s THEN "Running" ELSE stages[o].status
    BY <1>1, StartedRows
  <1>3. calls[p].pc = "idle" /\ UNCHANGED <<cycle, stages, fresh, torn, retried>>
        /\ \A t \in Stage : t # s => clock'[t] = clock[t]
    BY <1>1 DEF Starts, Reads
  <1>4. calls'[p].pc = "write" /\ calls'[p].todo = {s} /\ calls'[p].rows = rows
    BY <1>1, Planned DEF Starts
  <1> HIDE DEF rows
  <1>5. \A o \in Stage : stages[o].status # "Running"
    BY DEF Starts, Picked, With
  <1>6. \A o \in 1..(s - 1) : stages[o].status \in Done /\ o # s
    <2> SUFFICES ASSUME NEW o \in 1..(s - 1) PROVE stages[o].status \in Done /\ o # s
      OBVIOUS
    <2>1. o \in Stage /\ s \in Nat /\ ~(s <= o)
      BY Stages
    <2>2. stages[o].status \notin {"Blocked", "Running", "Escalated", "PendingApproval", "Waiting"}
      BY <2>1 DEF Starts, Picked, With
    <2>3. stages[o].status \in StageStatuses
      BY <1>1, <2>1 DEF StageRows
    <2> QED
      BY <2>1, <2>2, <2>3 DEF StageStatuses, Done
  <1>7. s \in Validations => stages[Implementation].status \in {"Completed", "Failed"}
    <2> SUFFICES ASSUME s \in Validations PROVE stages[Implementation].status \in {"Completed", "Failed"}
      OBVIOUS
    <2>1. Implementation \in 1..(s - 1)
      BY Stages, CycleEngineAssumption DEF Validations, Stage
    <2>2. stages[Implementation].status # "Skipped"
      BY <1>1, Stages DEF TypeInv, NeverSkipped
    <2> QED
      BY <1>6, <2>1, <2>2 DEF Done
  <1>8. CurrentInv /\ s = Implementation => \A v \in Validations : ~Counts(stages[v].status)
    <2>1. stages[s].status = "Waiting"
      BY DEF Starts, Picked, With
    <2> QED
      BY <1>3, <2>1 DEF CurrentInv, OneCaller
  <1>9. Implementation \notin Validations
    BY Stages
  <1>10. calls[p].pc \in {"idle", "reset"} /\ calls'[p].pc \in {"pause", "write"} /\ {s} \in SUBSET Stage
    BY <1>3, <1>4
  <1>11. ASSUME NEW t \in Stage, NEW o \in 1..(t - 1)
         PROVE  /\ t \in {s} /\ rows[t].status = "Running" =>
                     stages[o].status \in Done /\ (o \in {s} => rows[o].status \in Done)
                /\ stages[t].status = "Running" /\ clock[t] # "expired" /\ o \in {s} =>
                    rows[o].status \in Done
    BY <1>5, <1>6, <1>11
  <1> QED
    BY <1>2, <1>3, <1>4, <1>5, <1>7, <1>8, <1>9, <1>10, <1>11, Begins

LEMMA EscalateStageStep ==
    ASSUME OneCaller, IInv, TypeInv', UNCHANGED <<config, cycle, torn, retried>>,
           NEW p \in Callers, NEW s \in Stage, calls[p].pc = "idle",
           stages[s].status \in {"Waiting", "Running"}, EscalateStage(p, s)
    PROVE  IInv'
  <1>1. TypeInv
    BY DEF IInv
  <1>2. ASSUME NEW state \in {"blocked", "expired"}, clock[s] # "expired", Stop(s, state),
               UNCHANGED calls
        PROVE  IInv'
    BY <1>1, <1>2, StopCalm, CalmStep DEF Clocks
  <1>3. ASSUME Writes(p, {s}, Set(s, "Escalated"), "idle"), UNCHANGED <<stages, clock, fresh>>
        PROVE  IInv'
    <2>1. Set(s, "Escalated")[s].status = "Escalated"
      BY <1>1, SetRows DEF StageStatuses
    <2>2. /\ calls'[p].pc = "write" /\ calls'[p].todo = {s}
          /\ calls'[p].rows = Set(s, "Escalated")
      BY <1>1, <1>3, Planned
    <2> QED
      BY <1>3, <2>1, <2>2, BeginsOne DEF Done, Counts
  <1> QED
    BY <1>2, <1>3 DEF EscalateStage

LEMMA ClosesStep ==
    ASSUME OneCaller, IInv, TypeInv', UNCHANGED config, NEW p \in Callers, NEW s \in Stage,
           Closes(p, s)
    PROVE  IInv'
  <1>1. TypeInv
    BY DEF IInv
  <1>2. PICK status \in {"PendingApproval", "Completed", "Failed"} :
           Later(p, IF clock[s] = "none" THEN "write" ELSE "pause", s, Set(s, status))
    BY DEF Closes
  <1>3. Set(s, status)[s].status = status
    BY <1>1, SetRows DEF StageStatuses
  <1>4. /\ calls'[p].pc \in {"write", "pause"} /\ calls'[p].todo = {s}
        /\ calls'[p].rows = Set(s, status)
    BY <1>1, <1>2, Deferred
  <1> QED
    BY <1>3, <1>4, BeginsOne DEF Closes, Reads, Done, Counts

LEMMA ClosesEmptyStep ==
    ASSUME OneCaller, IInv, TypeInv', UNCHANGED config, NEW p \in Callers, ClosesEmpty(p)
    PROVE  IInv'
  <1> DEFINE rows == Set(Implementation, "Completed")
  <1>1. TypeInv /\ Implementation \in Stage
    BY Stages DEF IInv
  <1>2. rows[Implementation].status = "Completed"
    BY <1>1, SetRows DEF StageStatuses
  <1>3. calls'[p].pc = "write" /\ calls'[p].todo = {Implementation} /\ calls'[p].rows = rows
    BY <1>1, Planned DEF ClosesEmpty
  <1> HIDE DEF rows
  <1> QED
    BY <1>1, <1>2, <1>3, BeginsOne DEF ClosesEmpty, Reads, Done, Counts

LEMMA ContinuesEscalatedStep ==
    ASSUME OneCaller, IInv, TypeInv', UNCHANGED config, NEW p \in Callers, ContinuesEscalated(p)
    PROVE  IInv'
  <1> DEFINE s == First(With("Escalated"))
             rows == [stages EXCEPT ![s].status = "Waiting", ![s].extra = @ + 1]
  <1>1. TypeInv /\ clock \in [Stage -> Clocks]
    BY DEF IInv, TypeInv, TypeOK
  <1>2. s \in Stage /\ stages[s].status = "Escalated"
    BY FirstIn DEF ContinuesEscalated, With
  <1>3. rows[s].status = "Waiting"
    <2> HIDE DEF s
    <2> QED
      BY <1>1, <1>2, ContinuedRows
  <1>4. calls'[p].pc = "write" /\ calls'[p].todo = {s} /\ calls'[p].rows = rows
    BY <1>1, Planned DEF ContinuesEscalated
  <1>5. clock' = [clock EXCEPT ![s] = Continued(@)]
    BY DEF ContinuesEscalated
  <1> HIDE DEF s, rows
  <1>6. \A t \in Stage : stages[t].status = "Running" /\ clock[t] = "expired" => clock'[t] = "expired"
    BY <1>1, <1>2, <1>5
  <1> QED
    BY <1>2, <1>3, <1>4, <1>6, BeginsOne DEF ContinuesEscalated, Reads, Done, Counts

LEMMA ApprovesStep ==
    ASSUME OneCaller, IInv, TypeInv', UNCHANGED config, NEW p \in Callers,
           NEW status \in {"Completed", "Waiting"}, NEW then, Reads(p),
           With("PendingApproval") # {},
           Writes(p, {First(With("PendingApproval"))}, Set(First(With("PendingApproval")), status), then),
           UNCHANGED <<cycle, stages, clock, fresh, torn, retried>>
    PROVE  IInv'
  <1> DEFINE s == First(With("PendingApproval"))
  <1>1. TypeInv
    BY DEF IInv
  <1>2. s \in Stage /\ stages[s].status = "PendingApproval"
    BY FirstIn DEF With
  <1>3. Writes(p, {s}, Set(s, status), then)
    OBVIOUS
  <1> HIDE DEF s
  <1>4. Set(s, status)[s].status = status
    BY <1>1, <1>2, SetRows DEF StageStatuses
  <1>5. calls'[p].pc = "write" /\ calls'[p].todo = {s} /\ calls'[p].rows = Set(s, status)
    BY <1>1, <1>3, Planned
  <1> QED
    BY <1>2, <1>4, <1>5, BeginsOne DEF Reads, Done, Counts
LEMMA RetriesStep ==
    ASSUME OneCaller, IInv, TypeInv', UNCHANGED config, NEW p \in Callers, NEW s \in Stage,
           Retries(p, s)
    PROVE  IInv'
  <1> DEFINE rows == [stages EXCEPT ![s].status = "Waiting", ![s].iteration = 0]
  <1>1. TypeInv /\ retried \in BOOLEAN
    BY DEF IInv, TypeInv, TypeOK
  <1>2. rows[s].status = "Waiting"
    BY <1>1, RetriedRows
  <1>3. calls'[p].pc = "write" /\ calls'[p].todo = {s} /\ calls'[p].rows = rows
    BY <1>1, Planned DEF Retries
  <1> HIDE DEF rows
  <1>4. config.commands \cap {"retry", "sync"} # {}
    BY DEF Retries
  <1>5. calls[p].pc = "idle" /\ UNCHANGED <<cycle, stages, clock, fresh, torn>>
    BY DEF Retries, Reads
  <1>6. (retried => retried') /\ (s = Implementation => retried')
    BY DEF Retries
  <1>7. {s} \in SUBSET Stage /\ \A t \in {s} : rows[t].status = "Waiting"
    BY <1>2
  <1> QED
    BY <1>3, <1>4, <1>5, <1>6, <1>7, Begins DEF Counts

LEMMA SyncsStep ==
    ASSUME OneCaller, IInv, TypeInv', UNCHANGED config, NEW p \in Callers, Syncs(p)
    PROVE  IInv'
  <1> DEFINE open == {s \in Stage : stages[s].status \notin {"Completed", "Failed"}}
  <1>1. PICK disabled \in SUBSET config.optional :
           Writes(p, open,
                 [s \in Stage |-> IF stages[s].status \notin {"Waiting", "Skipped"} THEN stages[s]
                                  ELSE [stages[s] EXCEPT !.status = IF s \in disabled
                                                          THEN "Skipped" ELSE "Waiting"]],
                 "idle")
    BY DEF Syncs
  <1> DEFINE rows == [s \in Stage |->
                        IF stages[s].status \notin {"Waiting", "Skipped"} THEN stages[s]
                        ELSE [stages[s] EXCEPT !.status = IF s \in disabled
                                                          THEN "Skipped" ELSE "Waiting"]]
  <1>2. TypeInv /\ stages \in [Stage -> StageRows]
    BY DEF IInv, TypeInv, TypeOK
  <1>3. calls'[p].pc = "write" /\ calls'[p].todo = open /\ calls'[p].rows = rows
    BY <1>1, <1>2, Planned
  <1>4. \A s \in Stage : \/ rows[s].status = stages[s].status
                         \/ /\ stages[s].status \in {"Waiting", "Skipped"}
                            /\ rows[s].status \in {"Waiting", "Skipped"}
    BY <1>2 DEF StageRows
  <1> HIDE DEF rows
  <1>5. config.commands \cap {"retry", "sync"} # {}
    BY DEF Syncs
  <1>6. calls[p].pc = "idle" /\ UNCHANGED <<cycle, stages, clock, fresh, torn, retried>>
    BY DEF Syncs, Reads
  <1>7. CurrentInv => \A v \in Validations : Counts(stages[v].status) =>
                        \/ stages[Implementation].status = "Completed" /\ v \in fresh
                        \/ stages[Implementation].status = "Failed"
    BY <1>6 DEF CurrentInv, OneCaller
  <1>8. \A s \in open : rows[s].status = "Running" => stages[s].status = "Running"
    BY <1>4
  <1>9. \A s, t \in Stage : stages[s].status = "Running" /\ stages[t].status = "Running" => s = t
    BY DEF IInv, OneRuns, Runs
  <1>10. ~retried' /\ CurrentInv =>
             \A v \in open \cap Validations : Counts(rows[v].status) =>
               /\ Implementation \notin open
               /\ \/ stages[Implementation].status = "Completed"
                     /\ (v \in fresh \/ rows[v].status = "Running")
                  \/ stages[Implementation].status = "Failed"
    BY <1>4, <1>7 DEF Counts
  <1>11. ~retried' /\ CurrentInv /\ Implementation \in open =>
           /\ rows[Implementation].status \notin {"Completed", "Failed"}
           /\ \A v \in Validations : ~Counts(stages[v].status)
    BY <1>4, <1>7
  <1>12. open \in SUBSET Stage
    OBVIOUS
  <1> HIDE DEF open
  <1> QED
    BY <1>3, <1>5, <1>6, <1>8, <1>9, <1>10, <1>11, <1>12, Begins

\* A reset of the stages after first, with nothing running but, at most, a
\* stage whose ledger has expired.
LEMMA ResetStep ==
    ASSUME OneCaller, IInv, TypeInv', NEW p \in Callers, NEW first \in Stage,
           first <= Implementation, calls[p].pc \in {"idle", "reset"},
           UNCHANGED <<config, cycle, stages, clock, fresh, torn, retried>>,
           \A s \in Stage : stages[s].status = "Running" => clock[s] = "expired",
           Writes(p, Enabled(first), Reset(stages, Stage), "idle")
    PROVE  IInv'
  <1>1. TypeInv /\ stages \in Rows
    BY DEF IInv, TypeInv, TypeOK, Rows
  <1> DEFINE rows == Reset(stages, Stage)
             todo == Enabled(first)
  <1>2. \A s \in Stage : rows[s].status = "Waiting"
    BY <1>1, ResetRows
  <1>3. calls'[p].pc = "write" /\ calls'[p].todo = todo /\ calls'[p].rows = rows
    BY <1>1, Planned
  <1>4. /\ todo \in SUBSET Stage /\ Implementation \in Stage
        /\ \A v \in Validations : Counts(stages[v].status) => v \in todo
    BY Stages DEF Enabled, Stage, Counts, Validations
  <1> HIDE DEF rows, todo
  <1>5. \A s \in todo : rows[s].status = "Waiting" /\ rows[s].status # "Running"
                        /\ ~Counts(rows[s].status)
    BY <1>2, <1>4 DEF Counts
  <1>6. \A v \in Validations : Counts(stages[v].status) =>
           calls'[p].pc = "write" /\ v \in todo /\ rows[v].status = "Waiting"
    BY <1>3, <1>4, <1>5
  <1>7. rows[Implementation].status = "Waiting"
    BY <1>2, <1>4
  <1> QED
    BY <1>3, <1>4, <1>5, <1>6, <1>7, Begins

LEMMA LoopsBackStep ==
    ASSUME OneCaller, IInv, TypeInv', UNCHANGED config, NEW p \in Callers, NEW s \in Stage,
           LoopsBack(p, s)
    PROVE  IInv'
  <1>1. TypeInv /\ Implementation \in Stage /\ Implementation <= Implementation
    BY Stages DEF IInv
  <1>2. /\ calls[p].pc = "idle" /\ UNCHANGED <<cycle, stages, clock, fresh, torn, retried>>
        /\ \A t \in Stage : stages[t].status # "Running"
    BY DEF LoopsBack, Reads, With
  <1>3. CASE stages[Implementation].status = "Waiting"
    <2>1. Writes(p, {Implementation}, stages, "idle")
      BY <1>3 DEF LoopsBack
    <2>2. calls'[p].pc = "write" /\ calls'[p].todo = {Implementation} /\ calls'[p].rows = stages
      BY <1>1, <2>1, Planned
    <2> QED
      BY <1>1, <1>2, <1>3, <2>2, BeginsOne DEF Done, Counts
  <1>4. CASE stages[Implementation].status # "Waiting"
    <2>1. Writes(p, Enabled(Implementation), Reset(stages, Stage), "idle")
      BY <1>4 DEF LoopsBack
    <2> QED
      BY <1>1, <1>2, <2>1, ResetStep
  <1> QED
    BY <1>3, <1>4

LEMMA ReadsAgainStep ==
    ASSUME OneCaller, IInv, TypeInv', UNCHANGED config, NEW p \in Callers, ReadsAgain(p)
    PROVE  IInv'
  <1>1. Planning \in Stage /\ Planning <= Implementation
    BY Stages
  <1>2. \A s \in Stage : stages[s].status = "Running" => clock[s] = "expired"
    BY DEF IInv, SourceInv, ReadsAgain, With
  <1> QED
    BY <1>1, <1>2, ResetStep DEF ReadsAgain

\* A call whose source is decided: a handoff, or a reset of Planning.
LEMMA LaterStep ==
    ASSUME OneCaller, IInv, TypeInv', NEW p \in Callers, NEW s \in Stage,
           NEW pc \in {"handoff", "reset"}, Reads(p), Later(p, pc, s, stages),
           With("Running") \subseteq {s},
           UNCHANGED <<config, cycle, stages, clock, fresh, torn, retried>>
    PROVE  IInv'
  <1>1. \A q \in Callers : q = p
    BY DEF OneCaller
  <1>2. /\ calls[p].pc = "idle"
        /\ calls'[p].pc = pc /\ calls'[p].rows = stages /\ calls'[p].stage = s
    BY Deferred DEF Reads, IInv
  <1>3. \A o : ~Writing(p, o) /\ ~Starting(o) /\ ~Writing(p, o)' /\ ~Starting(o)'
    BY <1>2, Only DEF Writing
  <1>4. OneRuns'
    BY <1>3 DEF IInv, OneRuns, Runs
  <1>5. SourceInv'
    BY <1>1, <1>2 DEF SourceInv, With
  <1>6. InOrder => InOrder'
    BY <1>1, <1>3 DEF InOrder
  <1>7. CurrentInv => CurrentInv'
    <2>1. CurrentInv => \A v \in Validations : Counts(stages[v].status) =>
                        \/ stages[Implementation].status = "Completed" /\ v \in fresh
                        \/ stages[Implementation].status = "Failed"
      BY <1>1, <1>2 DEF CurrentInv
    <2> QED
      BY <1>1, <1>2, <1>3, <2>1 DEF CurrentInv
  <1> QED
    BY <1>4, <1>5, <1>6, <1>7 DEF IInv
LEMMA FinishesStep ==
    ASSUME OneCaller, IInv, TypeInv', UNCHANGED config, NEW p \in Callers, Finishes(p)
    PROVE  IInv'
  <1>1. CASE With("PendingApproval") = {}
    <2>1. calls' = [calls EXCEPT ![p] = [Returned EXCEPT !.pc = "complete"]]
      BY <1>1 DEF Finishes
    <2>2. calls'[p].pc = "complete" /\ calls[p].pc = "idle"
      BY <2>1 DEF Finishes, Reads, Returned, IInv, TypeInv, TypeOK
    <2> QED
      BY <2>2, EndStep DEF Finishes, IInv, TypeInv, TypeOK
  <1>2. CASE With("PendingApproval") # {}
    BY <1>2, ApprovesStep DEF Finishes
  <1> QED
    BY <1>1, <1>2

\* The pause of a close that is refused, or accepted.
LEMMA PausesStep ==
    ASSUME OneCaller, IInv, TypeInv', UNCHANGED config, NEW p \in Callers, Pauses(p)
    PROVE  IInv'
  <1>1. /\ calls[p] \in Calls /\ calls[p].pc = "pause" /\ torn \in BOOLEAN
        /\ clock \in [Stage -> Clocks]
        /\ UNCHANGED <<cycle, stages, fresh, torn, retried>>
    BY DEF Pauses, IInv, TypeInv, TypeOK
  <1>2. \A q \in Callers : q = p
    BY DEF OneCaller
  <1>3. CASE clock[calls[p].stage] = "active"
    <2>1. /\ calls'[p].pc = "write" /\ calls'[p].todo = calls[p].todo
          /\ calls'[p].rows = calls[p].rows
      BY <1>1, <1>3 DEF Pauses, IInv, TypeInv, TypeOK, Calls
    <2>2. /\ \A s : Writing(p, s)' <=> Writing(p, s)
          /\ \A s : Starting(s)' <=> Starting(s)
      BY <1>1, <2>1, Only DEF Writing
    <2>3. \A s \in Stage : clock[s] = "expired" => clock'[s] = "expired"
      BY <1>1, <1>3 DEF Pauses
    <2>4. OneRuns'
      BY <1>1, <2>2 DEF IInv, OneRuns, Runs
    <2>5. SourceInv'
      BY <1>2, <2>1 DEF SourceInv
    <2>6. InOrder => InOrder'
      <3> SUFFICES ASSUME InOrder, NEW s \in Stage,
                          Starting(s)' \/ (stages'[s].status = "Running" /\ clock'[s] # "expired"),
                          NEW o \in 1..(s - 1)
                   PROVE  /\ stages'[o].status \in Done
                          /\ Writing(p, o)' => calls'[p].rows[o].status \in Done
        BY <1>2 DEF InOrder
      <3> QED
        BY <1>1, <2>1, <2>2, <2>3 DEF InOrder
    <2>7. CurrentInv => CurrentInv'
      BY <1>1, <1>2, <2>1, <2>2 DEF CurrentInv
    <2> QED
      BY <1>1, <2>4, <2>5, <2>6, <2>7 DEF IInv
  <1>4. CASE clock[calls[p].stage] # "active"
    <2>1. calls'[p].pc = "idle" /\ clock' = clock
      BY <1>4 DEF Pauses, Returns, Returned, IInv, TypeInv, TypeOK
    <2> QED
      BY <1>1, <2>1, EndStep
  <1> QED
    BY <1>3, <1>4

\* The end of a cycle that leaves the rows of running stages alone, and its
\* cancellation.
LEMMA CancelsStep ==
    ASSUME OneCaller, IInv, TypeInv', UNCHANGED config, NEW p \in Callers, Cancels(p)
    PROVE  IInv'
  <1>1. /\ cycle' # "active" /\ UNCHANGED <<stages, clock, calls>>
    BY DEF Cancels
  <1>2. \A s : Starting(s)' = Starting(s) /\ \A q : Writing(q, s)' = Writing(q, s)
    BY <1>1 DEF Starting, Writing
  <1> QED
    BY <1>1, <1>2 DEF IInv, OneRuns, Runs, SourceInv, With, InOrder

LEMMA DefersAllStep ==
    ASSUME OneCaller, IInv, TypeInv', UNCHANGED config, NEW p \in Callers, DefersAll(p)
    PROVE  IInv'
  <1>1. /\ cycle' # "active" /\ UNCHANGED <<clock, calls>> /\ calls[p].pc = "idle"
    BY DEF DefersAll, Reads
  <1>2. \A s \in Stage : \/ stages'[s] = stages[s]
                         \/ /\ stages'[s].status \in Done
                            /\ stages'[s].status # "Running"
    <2>1. stages \in [Stage -> StageRows]
      BY DEF IInv, TypeInv, TypeOK
    <2> QED
      BY <2>1 DEF DefersAll, Store, Done, StageRows
  <1>3. \A q \in Callers : q = p
    BY DEF OneCaller
  <1>4. \A s : ~Starting(s) /\ ~Starting(s)' /\ ~Writing(p, s) /\ ~Writing(p, s)'
    BY <1>1, Only DEF Writing
  <1>5. OneRuns'
    BY <1>2, <1>4 DEF IInv, OneRuns, Runs
  <1>6. SourceInv'
    BY <1>1, <1>3 DEF SourceInv
  <1>7. InOrder => InOrder'
    <2> SUFFICES ASSUME InOrder, NEW s \in Stage,
                        stages'[s].status = "Running", clock'[s] # "expired",
                        NEW o \in 1..(s - 1)
                 PROVE  stages'[o].status \in Done
      BY <1>3, <1>4 DEF InOrder
    <2>1. o \in Stage
      BY Stages
    <2>2. stages[o].status \in Done
      BY <1>1, <1>2 DEF InOrder
    <2> QED
      BY <1>2, <2>1, <2>2
  <1> QED
    BY <1>1, <1>5, <1>6, <1>7 DEF IInv
LEMMA WriteStep ==
    ASSUME OneCaller, IInv, TypeInv', UNCHANGED config, NEW p \in Callers, Write(p)
    PROVE  IInv'
  <1> DEFINE c == calls[p]
             s == First(c.todo)
  <1>1. /\ c \in Calls /\ c.pc = "write" /\ s \in c.todo /\ s \in Stage /\ c.todo \subseteq Stage
        /\ stages \in Rows /\ c.rows \in Rows /\ TypeOK
    <2>1. c \in Calls /\ c.pc = "write" /\ c.todo # {} /\ stages \in Rows /\ TypeOK
      BY DEF Write, IInv, TypeInv, TypeOK, CallInv, Rows
    <2> QED
      BY <2>1, FirstIn DEF Calls, Rows
  <1>2. /\ UNCHANGED <<cycle, clock, torn, retried>>
        /\ Store([stages EXCEPT ![s] = c.rows[s]])
    BY DEF Write
  <1>3. \A o \in Stage : stages'[o] = IF o = s THEN c.rows[s] ELSE stages[o]
    BY <1>1, <1>2 DEF Store, Rows
  <1>4. /\ calls'[p].pc \in {"write", "idle", "complete"}
        /\ calls'[p].pc = "write" <=> c.todo \ {s} # {}
        /\ calls'[p].pc = "write" => calls'[p].todo = c.todo \ {s} /\ calls'[p].rows = c.rows
    <2>1. calls'[p] = IF c.todo \ {s} # {} THEN [c EXCEPT !.todo = c.todo \ {s}]
                      ELSE IF c.then = "complete" THEN [Returned EXCEPT !.pc = "complete"]
                      ELSE Returned
      BY DEF Write, IInv, TypeInv, TypeOK
    <2>2. Returned.pc = "idle" /\ [Returned EXCEPT !.pc = "complete"].pc = "complete"
      BY DEF Returned
    <2> HIDE DEF s
    <2> QED
      BY <1>1, <2>1, <2>2 DEF Calls
  <1> HIDE DEF s
  <1>5. \A o : Writing(p, o)' <=> o \in c.todo /\ o # s
    BY <1>4 DEF Writing
  <1>6. \A o : /\ Writing(p, o) <=> o \in c.todo
               /\ Writing(p, o)' => calls'[p].rows = c.rows
               /\ Starting(o)' => Starting(o)
               /\ Starting(o) <=> o \in c.todo /\ c.rows[o].status = "Running"
    BY <1>1, <1>4, <1>5, Only DEF Writing
  <1>7. \A q \in Callers : q = p
    BY DEF OneCaller
  <1>8. \A o \in Stage : stages'[o].status = "Running" => stages[o].status = "Running" \/ (o = s /\ Starting(s))
    BY <1>1, <1>3, <1>6
  <1>9. OneRuns'
    BY <1>6, <1>8 DEF IInv, OneRuns, Runs
  <1>10. SourceInv'
    BY <1>4, <1>7 DEF SourceInv
  <1>11. InOrder => InOrder'
    <2> SUFFICES ASSUME InOrder, NEW t \in Stage,
                        Starting(t)' \/ (stages'[t].status = "Running" /\ clock'[t] # "expired"),
                        NEW o \in 1..(t - 1)
                 PROVE  /\ stages'[o].status \in Done
                        /\ Writing(p, o)' => calls'[p].rows[o].status \in Done
      BY <1>7 DEF InOrder
    <2>1. o \in Stage
      BY Stages
    <2>2. Starting(t) \/ (stages[t].status = "Running" /\ clock[t] # "expired")
      BY <1>2, <1>6, <1>8
    <2>3. stages[o].status \in Done /\ (Writing(p, o) => c.rows[o].status \in Done)
      BY <2>2 DEF InOrder
    <2> QED
      BY <1>1, <1>3, <1>5, <1>6, <2>1, <2>3
  <1>12. CurrentInv => CurrentInv'
    <2> SUFFICES ASSUME CurrentInv PROVE CurrentInv'
      OBVIOUS
    <2> DEFINE I == Implementation
    <2>1. /\ I \in Stage /\ I \notin Validations /\ Validations \subseteq Stage
          /\ calls'[p].pc # "reset"
      BY <1>4, Stages
    <2>2. \A v \in Validations : Counts(stages[v].status) =>
             \/ stages[I].status = "Completed" /\ v \in fresh
             \/ stages[I].status = "Failed"
             \/ /\ stages[I].status # "Completed"
                /\ v \in c.todo /\ c.rows[v].status = "Waiting"
      BY <1>7 DEF CurrentInv
    <2>3. \A v \in Validations : v \in c.todo /\ Counts(c.rows[v].status) =>
             /\ I \notin c.todo
             /\ \/ stages[I].status = "Completed" /\ (v \in fresh \/ c.rows[v].status = "Running")
                \/ stages[I].status = "Failed"
      BY <1>6 DEF CurrentInv
    <2>4. I \in c.todo =>
             /\ c.rows[I].status = "Completed" =>
                  c.todo = {I} /\ stages[I].status \notin {"Completed", "Failed"}
             /\ c.rows[I].status = "Failed" => c.todo = {I}
             /\ c.rows[I].status \notin {"Completed", "Failed"} =>
                  \A v \in Validations : Counts(stages[v].status) =>
                     v \in c.todo /\ c.rows[v].status = "Waiting"
      BY <1>6 DEF CurrentInv
    <2> DEFINE Now(v) == \/ stages'[I].status = "Completed" /\ v \in fresh'
                         \/ stages'[I].status = "Failed"
                         \/ /\ stages'[I].status # "Completed"
                            /\ Writing(p, v)' /\ c.rows[v].status = "Waiting"
               Next1(v) == /\ ~Writing(p, I)'
                           /\ \/ stages'[I].status = "Completed"
                                 /\ (v \in fresh' \/ c.rows[v].status = "Running")
                              \/ stages'[I].status = "Failed"
               Next2 == /\ c.rows[I].status \notin {"Completed", "Failed"}
                        /\ \A v \in Validations : Counts(stages'[v].status) =>
                             Writing(p, v)' /\ c.rows[v].status = "Waiting"
    <2>5. CASE s = I
      <3>1. /\ \A v \in Validations : stages'[v] = stages[v]
            /\ stages'[I] = c.rows[I] /\ I \in c.todo /\ ~Writing(p, I)'
        BY <1>1, <1>3, <1>5, <2>1, <2>5
      <3>2. CASE c.rows[I].status = "Completed"
        <4>1. \A v \in Validations : ~Counts(stages'[v].status) /\ ~Writing(p, v)'
          BY <1>5, <2>1, <2>2, <2>4, <3>1, <3>2
        <4> QED
          BY <1>7, <2>1, <3>1, <4>1 DEF CurrentInv
      <3>3. CASE c.rows[I].status = "Failed"
        <4>1. \A v \in Validations : ~Writing(p, v)'
          BY <1>5, <2>1, <2>4, <3>1, <3>3
        <4> QED
          BY <1>7, <2>1, <3>1, <3>3, <4>1 DEF CurrentInv
      <3>4. CASE c.rows[I].status \notin {"Completed", "Failed"}
        <4>1. \A v \in Validations : Counts(stages'[v].status) =>
                 Writing(p, v)' /\ c.rows[v].status = "Waiting"
          BY <1>5, <2>1, <2>4, <2>5, <3>1, <3>4
        <4>2. \A v \in Validations : Counts(stages'[v].status) =>
                 calls'[p].pc = "write" /\ v \in calls'[p].todo /\ calls'[p].rows[v].status = "Waiting"
          BY <1>4, <4>1 DEF Writing
        <4>3. \A v \in Validations : Writing(p, v)' => ~Counts(calls'[p].rows[v].status)
          BY <1>5, <1>6, <2>3, <3>1
        <4> QED
          BY <1>7, <2>1, <3>1, <3>4, <4>2, <4>3 DEF CurrentInv
      <3> QED
        BY <3>2, <3>3, <3>4
    <2>6. CASE s # I
      <3>1. stages'[I] = stages[I] /\ (Writing(p, I)' <=> I \in c.todo)
        BY <1>3, <1>5, <2>1, <2>6
      <3>2. fresh \subseteq fresh' /\ \A v \in Validations : v = s /\ c.rows[s].status = "Running"
                                        /\ stages[s].status # "Running" => v \in fresh'
        <4>1. [stages EXCEPT ![s] = c.rows[s]] \in Rows
          BY <1>1, RowWritten DEF Rows
        <4>2. fresh' = fresh \cup {v \in Validations :
                   [stages EXCEPT ![s] = c.rows[s]][v].status = "Running" /\ stages[v].status # "Running"}
          BY <1>1, <1>2, <2>1, <2>6, <4>1, FreshKept DEF Rows
        <4> QED
          BY <1>1, <2>1, <4>2 DEF Rows
      <3>3. \A v \in Validations : Counts(stages'[v].status) => Now(v)
        <4> SUFFICES ASSUME NEW v \in Validations, Counts(stages'[v].status) PROVE Now(v)
          OBVIOUS
        <4>1. CASE v = s
          <5>1. v \in c.todo /\ stages'[v] = c.rows[v] /\ Counts(c.rows[v].status)
            BY <1>1, <1>3, <4>1
          <5>2. \/ stages[I].status = "Completed" /\ (v \in fresh \/ c.rows[v].status = "Running")
                \/ stages[I].status = "Failed"
            BY <2>3, <5>1
          <5>3. stages[v].status = "Running" => Counts(stages[v].status)
            BY DEF Counts
          <5>4. stages[v].status = "Running" /\ stages[I].status = "Completed" => v \in fresh
            <6> SUFFICES ASSUME Counts(stages[v].status), stages[I].status = "Completed"
                         PROVE  v \in fresh
              BY <5>3
            <6>1. stages[I].status # "Failed"
              OBVIOUS
            <6> QED
              BY <2>2, <6>1
          <5>5. c.rows[v].status = "Running" /\ stages[v].status # "Running" => v \in fresh'
            BY <3>2, <4>1
          <5> QED
            BY <3>1, <3>2, <5>2, <5>4, <5>5
        <4>2. CASE v # s
          <5>1. Counts(stages[v].status) /\ (Writing(p, v)' <=> v \in c.todo)
            BY <1>3, <1>5, <2>1, <4>2
          <5>2. \/ stages[I].status = "Completed" /\ v \in fresh
                \/ stages[I].status = "Failed"
                \/ /\ stages[I].status # "Completed"
                   /\ v \in c.todo /\ c.rows[v].status = "Waiting"
            BY <2>2, <5>1
          <5> QED
            BY <3>1, <3>2, <5>1, <5>2
        <4> QED
          BY <4>1, <4>2
      <3>4. \A v \in Validations : Writing(p, v)' /\ Counts(c.rows[v].status) => Next1(v)
        BY <1>5, <2>3, <3>1, <3>2
      <3>5. Writing(p, I)' => Next2
        BY <1>1, <1>3, <1>5, <2>1, <2>3, <2>4, <3>1, <2>6
      <3>6. \A v : Writing(p, v)' => /\ calls'[p].pc = "write" /\ v \in calls'[p].todo
                                     /\ calls'[p].rows = c.rows
        BY <1>4, <1>6 DEF Writing
      <3> QED
        BY <1>7, <2>1, <3>3, <3>4, <3>5, <3>6 DEF CurrentInv
    <2> QED
      BY <2>5, <2>6
  <1> QED
    BY <1>2, <1>9, <1>10, <1>11, <1>12 DEF IInv
\* No stage runs, none will, and no validation counts.
LEMMA NothingRuns ==
    ASSUME OneCaller, IInv, TypeInv', UNCHANGED config, NEW p \in Callers,
           calls'[p].pc = "idle", \A s \in Stage : stages'[s].status # "Running",
           ~torn' /\ ~retried' /\ cycle' = "active" =>
             \A v \in Validations : Counts(stages'[v].status) =>
               \/ stages'[Implementation].status = "Completed" /\ v \in fresh'
               \/ stages'[Implementation].status = "Failed"
    PROVE  IInv'
  <1>1. \A q \in Callers : q = p
    BY DEF OneCaller
  <1>2. \A s : ~Writing(p, s)' /\ ~Starting(s)'
    BY Only DEF Writing
  <1>3. OneRuns' /\ SourceInv' /\ InOrder'
    BY <1>1, <1>2 DEF OneRuns, Runs, SourceInv, InOrder
  <1>4. ~torn' /\ ~retried' /\ cycle' = "active" => CurrentInv'
    BY <1>1, <1>2 DEF CurrentInv
  <1> QED
    BY <1>3, <1>4 DEF IInv

LEMMA HandsOffStep ==
    ASSUME OneCaller, IInv, TypeInv', UNCHANGED config, NEW p \in Callers, HandsOff(p)
    PROVE  IInv'
  <1> DEFINE s == calls[p].stage
             rows == LoopedBack(Set(s, "Failed"), s)
  <1>1. /\ TypeInv /\ TypeOK /\ s \in Stage /\ calls[p].pc = "handoff" /\ torn \in BOOLEAN
        /\ UNCHANGED <<cycle, clock, torn, retried>> /\ calls'[p].pc = "idle"
    BY DEF HandsOff, Returns, Returned, IInv, TypeInv, TypeOK, Calls
  <1>2. CASE ~CanLoopBack
    <2>1. UNCHANGED <<stages, fresh>>
      BY <1>2 DEF HandsOff
    <2> QED
      BY <1>1, <2>1, EndStep
  <1>3. CASE CanLoopBack
    <2>1. /\ Set(s, "Failed") \in Rows
          /\ \A t \in Stage : Set(s, "Failed")[t].status = IF t = s THEN "Failed" ELSE stages[t].status
      BY <1>1, SetRows DEF StageStatuses
    <2>2. /\ rows \in Rows
          /\ \A t \in Stage : rows[t].status =
               IF stages[Implementation].status # "Waiting" /\ t \in Enabled(Implementation)
               THEN "Waiting" ELSE IF t = s THEN "Failed" ELSE stages[t].status
      BY <2>1, LoopedBackRows
    <2>3. stages' = rows
      BY <1>3 DEF HandsOff, Store
    <2> HIDE DEF rows, s
    <2>4. \A t \in Stage : stages[t].status = "Running" => t = s
      BY <1>1 DEF IInv, SourceInv, With, s
    <2>5. \A t \in Stage : stages'[t].status # "Running"
      BY <2>2, <2>3, <2>4
    <2>6. CurrentInv => \A v \in Validations : ~Counts(stages'[v].status)
      <3> SUFFICES ASSUME CurrentInv, NEW v \in Validations PROVE ~Counts(stages'[v].status)
        OBVIOUS
      <3>1. CASE stages[Implementation].status = "Waiting"
        <4>1. ~Counts(stages[v].status)
          BY <1>1, <3>1 DEF CurrentInv, OneCaller
        <4> QED
          BY <2>2, <2>3, <3>1, <4>1, Stages DEF Counts
      <3>2. CASE stages[Implementation].status # "Waiting"
        <4>1. stages[v].status # "Skipped" => v \in Enabled(Implementation)
          BY Stages, CycleEngineAssumption DEF Enabled, Validations, Stage
        <4> QED
          BY <2>2, <2>3, <3>2, <4>1, Stages DEF Counts
      <3> QED
        BY <3>1, <3>2
    <2> QED
      BY <1>1, <2>5, <2>6, NothingRuns DEF IInv
  <1> QED
    BY <1>2, <1>3

LEMMA BlocksStep ==
    ASSUME OneCaller, IInv, TypeInv', UNCHANGED config, NEW p \in Callers, NEW s \in Stage,
           Blocks(p, s)
    PROVE  IInv'
  <1>1. PICK preparation \in BOOLEAN :
           Store([stages EXCEPT ![s].status = "Blocked",
                    ![s].iteration = IF preparation /\ @ > 0 THEN @ - 1 ELSE @])
    BY DEF Blocks
  <1> DEFINE rows == [stages EXCEPT ![s].status = "Blocked",
                        ![s].iteration = IF preparation /\ @ > 0 THEN @ - 1 ELSE @]
  <1>2. /\ TypeInv /\ TypeOK /\ calls[p].pc = "idle" /\ calls'[p].pc = "idle"
        /\ UNCHANGED <<cycle, calls, torn, retried>>
        /\ s \in With("Running") /\ \A t \in Stage : t # s => stages[t].status # "Running"
    BY DEF Blocks, Reads, IInv, TypeInv, With
  <1>3. rows \in Rows /\ \A o \in Stage : rows[o].status = IF o = s THEN "Blocked" ELSE stages[o].status
    BY <1>2, BlockedRows
  <1>4. Store(rows) /\ stages' = rows
    BY <1>1 DEF Store
  <1> HIDE DEF rows
  <1>5. fresh \subseteq fresh'
    BY <1>2, <1>3, <1>4, FreshKept, Stages
  <1>6. \A t \in Stage : stages'[t].status # "Running"
    BY <1>2, <1>3, <1>4
  <1>7. CurrentInv => \A v \in Validations : Counts(stages'[v].status) =>
           \/ stages'[Implementation].status = "Completed" /\ v \in fresh'
           \/ stages'[Implementation].status = "Failed"
    <2> SUFFICES ASSUME CurrentInv, NEW v \in Validations, Counts(stages'[v].status)
                 PROVE  \/ stages'[Implementation].status = "Completed" /\ v \in fresh'
                        \/ stages'[Implementation].status = "Failed"
      OBVIOUS
    <2>1. v \in Stage /\ Implementation \in Stage /\ v # s
      BY <1>3, <1>4, Stages DEF Counts
    <2>2. \/ stages[Implementation].status = "Completed" /\ v \in fresh
          \/ stages[Implementation].status = "Failed"
      BY <1>2, <1>3, <1>4, <2>1 DEF CurrentInv, OneCaller
    <2>3. Implementation # s
      BY <1>2, <2>2 DEF With
    <2> QED
      BY <1>3, <1>4, <1>5, <2>1, <2>2, <2>3
  <1> QED
    BY <1>2, <1>6, <1>7, NothingRuns DEF IInv

LEMMA ContinuesBlockedStep ==
    ASSUME OneCaller, IInv, TypeInv', UNCHANGED config, NEW p \in Callers, ContinuesBlocked(p)
    PROVE  IInv'
  <1> DEFINE s == First(With("Blocked"))
             I == Implementation
             rows == [stages EXCEPT ![s].status = "Waiting", ![s].extra = @ + 1]
  <1>1. /\ TypeInv /\ TypeOK /\ clock \in [Stage -> Clocks] /\ calls[p].pc = "idle"
        /\ UNCHANGED <<cycle, calls, torn, retried>>
        /\ s \in Stage /\ stages[s].status = "Blocked"
        /\ clock' = [clock EXCEPT ![s] = Continued(@)]
        /\ Store(rows) \/ Store(LoopedBack(rows, s))
    BY FirstIn DEF ContinuesBlocked, Reads, IInv, TypeInv, TypeOK, With
  <1>2. rows \in Rows /\ \A o \in Stage : rows[o].status = IF o = s THEN "Waiting" ELSE stages[o].status
    <2> HIDE DEF s
    <2> QED
      BY <1>1, ContinuedRows
  <1> HIDE DEF rows, s
  <1>3. /\ LoopedBack(rows, s) \in Rows
        /\ \A t \in Stage : LoopedBack(rows, s)[t].status =
             IF stages[I].status # "Waiting" /\ t \in Enabled(I)
             THEN "Waiting" ELSE rows[t].status
    BY <1>2, LoopedBackRows
  <1>4. I \in Stage /\ I \notin Validations /\ Validations \subseteq Stage
    BY Stages
  <1> DEFINE Resets == stages[I].status # "Waiting"
                       /\ \A t \in Enabled(I) : stages'[t].status = "Waiting"
             Kept == \A t \in Stage \ Enabled(I) :
                       stages'[t].status = IF t = s THEN "Waiting" ELSE stages[t].status
             Same == \A t \in Stage : stages'[t].status = IF t = s THEN "Waiting" ELSE stages[t].status
  <1>5. Same \/ (Resets /\ Kept)
    <2>1. CASE Store(rows)
      BY <1>2, <2>1 DEF Store
    <2>2. CASE Store(LoopedBack(rows, s))
      <3>1. stages' = LoopedBack(rows, s)
        BY <2>2 DEF Store
      <3>2. CASE stages[I].status = "Waiting"
        <4>1. \A t \in Stage : stages'[t].status = rows[t].status
          BY <1>3, <3>1, <3>2
        <4> HIDE DEF I
        <4> QED
          BY <1>2, <4>1
      <3>3. CASE stages[I].status # "Waiting"
        <4>1. Enabled(I) \subseteq Stage
          BY Stages DEF Enabled, Stage
        <4>2. \A t \in Stage : stages'[t].status = IF t \in Enabled(I) THEN "Waiting" ELSE rows[t].status
          BY <1>3, <3>1, <3>3
        <4> QED
          BY <1>2, <3>3, <4>1, <4>2
      <3> QED
        BY <3>2, <3>3
    <2> QED
      BY <1>1, <2>1, <2>2
  <1>6. fresh \subseteq fresh'
    <2>1. stages'[I].status = "Completed" => stages[I].status = "Completed"
      BY <1>4, <1>5
    <2> QED
      BY <1>1, <1>2, <1>3, <2>1, FreshKept DEF Store
  <1>7. \A t \in Stage : stages'[t].status = "Running" => stages[t].status = "Running"
    BY <1>5
  <1>8. \A q \in Callers : q = p
    BY DEF OneCaller
  <1>9. \A o : ~Starting(o) /\ ~Starting(o)' /\ ~Writing(p, o) /\ ~Writing(p, o)'
    BY <1>1, Only DEF Writing
  <1>10. OneRuns'
    BY <1>7, <1>9 DEF IInv, OneRuns, Runs
  <1>11. SourceInv'
    BY <1>1, <1>8 DEF SourceInv
  <1>12. InOrder => InOrder'
    <2> SUFFICES ASSUME InOrder, NEW t \in Stage, stages'[t].status = "Running", clock'[t] # "expired",
                        NEW o \in 1..(t - 1)
                 PROVE  stages'[o].status \in Done
      BY <1>8, <1>9 DEF InOrder
    <2>1. o \in Stage /\ o \in Nat /\ t \in Nat /\ o < t /\ I \in Nat
      BY Stages
    <2>2. stages[t].status = "Running" /\ t # s
      BY <1>1, <1>7
    <2>3. clock[t] # "expired"
      BY <1>1, <2>2
    <2>4. stages[o].status \in Done /\ o # s
      BY <1>1, <2>2, <2>3 DEF InOrder, Done
    <2>5. CASE Same
      BY <2>1, <2>4, <2>5
    <2>6. CASE Resets /\ Kept
      <3>1. t \notin Enabled(I)
        BY <2>6
      <3>2. t < I
        BY <2>1, <2>2, <3>1 DEF Enabled, Stage
      <3>3. o \notin Enabled(I)
        BY <2>1, <3>2 DEF Enabled
      <3> QED
        BY <2>1, <2>4, <2>6, <3>3
    <2> QED
      BY <1>5, <2>5, <2>6
  <1>13. CurrentInv => CurrentInv'
    <2> SUFFICES ASSUME CurrentInv PROVE CurrentInv'
      OBVIOUS
    <2>1. ASSUME NEW v \in Validations, Counts(stages'[v].status)
          PROVE  \/ stages'[I].status = "Completed" /\ v \in fresh'
                 \/ stages'[I].status = "Failed"
      <3>1. CASE Same
        <4>1. Counts(stages[v].status)
          BY <1>4, <2>1, <3>1 DEF Counts
        <4>2. \/ stages[I].status = "Completed" /\ v \in fresh
              \/ stages[I].status = "Failed"
          BY <1>1, <1>8, <4>1 DEF CurrentInv
        <4> QED
          BY <1>1, <1>4, <1>6, <3>1, <4>2
      <3>2. CASE Resets /\ Kept
        <4>1. stages[v].status = "Skipped"
          <5>1. v \notin Enabled(I)
            BY <2>1, <3>2 DEF Counts
          <5> QED
            BY <5>1, Stages, CycleEngineAssumption DEF Enabled, Validations, Stage
        <4>2. v \notin Enabled(I) /\ v # s
          BY <1>1, <4>1 DEF Enabled
        <4> QED
          BY <1>4, <2>1, <3>2, <4>1, <4>2 DEF Counts
      <3> QED
        BY <1>5, <3>1, <3>2
    <2> QED
      BY <1>1, <1>8, <1>9, <2>1 DEF CurrentInv
  <1> QED
    BY <1>1, <1>10, <1>11, <1>12, <1>13 DEF IInv

LEMMA EscalatesSourceStep ==
    ASSUME OneCaller, IInv, TypeInv', UNCHANGED config, NEW p \in Callers, EscalatesSource(p)
    PROVE  IInv'
  <1> DEFINE s == calls[p].stage
             I == Implementation
             row == [calls[p].rows[s] EXCEPT !.status = "Escalated"]
  <1>1. /\ TypeInv /\ TypeOK /\ calls[p] \in Calls /\ s \in Stage /\ calls[p].pc = "reset"
        /\ calls[p].rows \in Rows /\ calls[p].rows[s].status = "Running" /\ stages \in Rows
        /\ UNCHANGED <<cycle, torn, retried>>
        /\ calls' = [calls EXCEPT ![p].rows[s].status = "Escalated"]
    BY DEF EscalatesSource, IInv, TypeInv, TypeOK, Calls, Rows
  <1>2. /\ calls'[p].pc = "reset" /\ calls'[p].stage = s
        /\ calls'[p].rows[s].status = "Escalated"
    BY <1>1 DEF TypeOK, Calls, Rows, StageRows
  <1>3. \A q \in Callers : q = p
    BY DEF OneCaller
  <1>4. \A o : ~Starting(o) /\ ~Starting(o)' /\ ~Writing(p, o) /\ ~Writing(p, o)'
    BY <1>1, <1>2, Only DEF Writing
  <1>5. \A t \in Stage : stages[t].status = "Running" => t = s
    BY <1>1 DEF IInv, SourceInv, With
  \* The source stops, or its ledger has expired.
  <1> DEFINE Stopped == /\ \A t \in Stage : stages'[t].status = "Running" =>
                             stages[t].status = "Running" /\ clock'[t] = "expired"
                        /\ \A v \in Validations : Counts(stages'[v].status) =>
                             Counts(stages[v].status)
                        /\ ~torn /\ ~retried /\ cycle = "active" /\ CurrentInv =>
                             /\ stages'[I].status = "Completed" <=> stages[I].status = "Completed"
                             /\ stages'[I].status = "Failed" <=> stages[I].status = "Failed"
                        /\ fresh' = fresh
  <1>6. Stopped
    <2>1. ASSUME clock[s] # "expired", NEW state \in Clocks, Stop(s, state) PROVE Stopped
      <3>1. Calm
        BY <1>1, <2>1, StopCalm
      <3>2. stages'[s].status # "Running"
        <4>1. stages[s].status \in StageStatuses
          BY <1>1 DEF Rows, StageRows
        <4>2. EscalatedFrom(stages[s].status) \in StageStatuses
              /\ EscalatedFrom(stages[s].status) # "Running"
          BY <4>1, EscalatedStatus DEF EscalatedFrom
        <4>3. Set(s, EscalatedFrom(stages[s].status))[s].status = EscalatedFrom(stages[s].status)
          BY <1>1, <4>2, SetRows
        <4> QED
          BY <2>1, <4>2, <4>3 DEF Stop, Store
      <3> QED
        BY <1>5, <3>1, <3>2, Stages DEF Calm, Counts
    <2>2. ASSUME clock[s] = "expired", UNCHANGED <<clock, stages, fresh>> PROVE Stopped
      BY <1>5, <2>2
    <2>3. ASSUME Store([stages EXCEPT ![s] = row]), UNCHANGED clock PROVE Stopped
      <3>1. row \in StageRows /\ row.status = "Escalated"
        BY <1>1 DEF Rows, StageRows, StageStatuses
      <3> HIDE DEF row
      <3>2. /\ [stages EXCEPT ![s] = row] \in Rows
            /\ \A t \in Stage : [stages EXCEPT ![s] = row][t] = IF t = s THEN row ELSE stages[t]
        BY <1>1, <3>1, RowWritten
      <3>3. \A t \in Stage : stages'[t] = IF t = s THEN row ELSE stages[t]
        BY <2>3, <3>2 DEF Store
      <3>4. fresh' = fresh
        <4> DEFINE rows == [stages EXCEPT ![s] = row]
        <4>1. /\ rows \in Rows /\ Store(rows)
              /\ \A t \in Stage : rows[t].status = "Running" => stages[t].status = "Running"
              /\ rows[I].status = "Completed" => stages[I].status = "Completed"
          BY <2>3, <3>1, <3>2, Stages
        <4> HIDE DEF rows
        <4>2. fresh' = fresh \cup {v \in Validations : rows[v].status = "Running"
                                                    /\ stages[v].status # "Running"}
          BY <1>1, <4>1, FreshKept
        <4> QED
          BY <4>1, <4>2, Stages
      <3>5. ~torn /\ ~retried /\ cycle = "active" /\ CurrentInv /\ s = I =>
               stages[I].status \notin {"Completed", "Failed"}
        BY <1>1 DEF CurrentInv
      <3> QED
        BY <1>5, <3>1, <3>3, <3>4, <3>5, Stages DEF Counts
    <2> HIDE DEF Stopped
    <2> QED
      BY <2>1, <2>2, <2>3 DEF EscalatesSource, Clocks
  <1>7. OneRuns'
    BY <1>4, <1>6 DEF IInv, OneRuns, Runs
  <1>8. SourceInv'
    BY <1>1, <1>2, <1>3, <1>5, <1>6 DEF SourceInv, With
  <1>9. InOrder'
    BY <1>3, <1>4, <1>6 DEF InOrder
  <1>10. ~torn /\ ~retried /\ cycle = "active" /\ CurrentInv => CurrentInv'
    <2> SUFFICES ASSUME ~torn, ~retried, cycle = "active", CurrentInv PROVE CurrentInv'
      OBVIOUS
    <2>1. \A v \in Validations : Counts(stages'[v].status) =>
             \/ stages'[I].status = "Completed" /\ v \in fresh'
             \/ stages'[I].status = "Failed"
      BY <1>1, <1>3, <1>6 DEF CurrentInv
    <2> QED
      BY <1>2, <1>3, <1>4, <2>1 DEF CurrentInv
  <1> QED
    BY <1>1, <1>7, <1>8, <1>9, <1>10 DEF IInv
-----------------------------------------------------------------------------
LEMMA IInvInit == Init => IInv
  <1> SUFFICES ASSUME Init PROVE IInv
    OBVIOUS
  <1>1. TypeInv
    BY TypeInit
  <1>2. /\ \A s \in Stage : stages[s].status = "Waiting"
        /\ \A p \in Callers : calls[p].pc = "idle"
    BY DEF Init, NewRows, Returned
  <1>3. \A s : ~Starting(s) /\ \A p \in Callers : ~Writing(p, s)
    BY <1>2 DEF Starting, Writing
  <1>4. OneRuns /\ SourceInv /\ InOrder
    BY <1>2, <1>3 DEF OneRuns, Runs, SourceInv, InOrder
  <1>5. CurrentInv
    BY <1>2, <1>3, Stages DEF CurrentInv, Counts
  <1> QED
    BY <1>1, <1>4, <1>5 DEF IInv

LEMMA IInvNext == OneCaller /\ IInv /\ Next => IInv'
  <1> SUFFICES ASSUME OneCaller, IInv, Next PROVE IInv'
    OBVIOUS
  <1>1. TypeInv /\ TypeInv' /\ config' = config
    BY TypeNext DEF IInv, Next
  <1>2. CASE Ledger
    BY <1>1, <1>2, LedgerStep, CalmStep
  <1>3. CASE IncreasesBudget
    BY <1>1, <1>3, IncreaseStep, CalmStep
  <1>4. ASSUME NEW p \in Callers, Step(p) \/ Die(p) PROVE IInv'
    <2>1. CASE Write(p)
      BY <1>1, <2>1, WriteStep
    <2>2. CASE Complete(p) \/ Die(p)
      <3>1. calls'[p].pc = "idle" /\ torn \in BOOLEAN
        BY <1>1, <2>2 DEF Complete, Die, Returns, Returned, TypeInv, TypeOK
      <3>2. UNCHANGED <<stages, clock, fresh, retried>> /\ (cycle' = "active" => cycle = "active")
        BY <2>2 DEF Complete, Die
      <3>3. torn' = (torn \/ \E v \in calls[p].todo \cap Validations :
                               calls[p].pc = "write" /\ calls[p].rows[v].status = "Waiting")
        BY <2>2, <3>1 DEF Complete, Die
      <3> QED
        BY <1>1, <3>1, <3>2, <3>3, EndStep
    <2>3. CASE Pauses(p)
      BY <1>1, <2>3, PausesStep
    <2>4. CASE HandsOff(p)
      BY <1>1, <2>4, HandsOffStep
    <2>5. CASE EscalatesSource(p)
      BY <1>1, <2>5, EscalatesSourceStep
    <2>6. CASE ReadsAgain(p)
      BY <1>1, <2>6, ReadsAgainStep
    <2> QED
      BY <1>4, <2>1, <2>2, <2>3, <2>4, <2>5, <2>6 DEF Step
  <1>5. ASSUME NEW p \in Callers, Start(p) PROVE IInv'
    <2>1. ASSUME NEW s \in Stage, Starts(p, s) PROVE IInv'
      BY <1>1, <2>1, StartsStep
    <2>2. ASSUME NEW s \in Stage, StartExhausted(p, s) PROVE IInv'
      BY <1>1, <2>2, EscalateStageStep DEF StartExhausted, Reads, Picked, With
    <2> QED
      BY <1>5, <2>1, <2>2 DEF Start
  <1>6. ASSUME NEW p \in Callers, Report(p) PROVE IInv'
    <2>1. CASE ClosesEmpty(p)
      BY <1>1, <2>1, ClosesEmptyStep
    <2>2. ASSUME NEW s \in Stage, Escalates(p, s) PROVE IInv'
      BY <1>1, <2>2, EscalateStageStep DEF Escalates, Reads
    <2>3. ASSUME NEW s \in Stage, Closes(p, s) PROVE IInv'
      BY <1>1, <2>3, ClosesStep
    <2>4. ASSUME NEW s \in Stage, FailsWithFindings(p, s) PROVE IInv'
      BY <1>1, <2>4, LaterStep DEF FailsWithFindings
    <2>5. ASSUME NEW s \in Stage, Blocks(p, s) PROVE IInv'
      BY <1>1, <2>5, BlocksStep
    <2> QED
      BY <1>6, <2>1, <2>2, <2>3, <2>4, <2>5 DEF Report
  <1>7. ASSUME NEW p \in Callers, Command(p) PROVE IInv'
    <2>1. CASE ContinuesBlocked(p)
      BY <1>1, <2>1, ContinuesBlockedStep
    <2>2. CASE ContinuesEscalated(p)
      BY <1>1, <2>2, ContinuesEscalatedStep
    <2>3. CASE Approves(p)
      BY <1>1, <2>3, ApprovesStep DEF Approves
    <2>4. CASE Finishes(p)
      BY <1>1, <2>4, FinishesStep
    <2>5. CASE Cancels(p)
      BY <1>1, <2>5, CancelsStep
    <2>6. CASE DefersAll(p)
      BY <1>1, <2>6, DefersAllStep
    <2>7. CASE Syncs(p)
      BY <1>1, <2>7, SyncsStep
    <2>8. ASSUME NEW s \in Stage, LoopsBack(p, s) PROVE IInv'
      BY <1>1, <2>8, LoopsBackStep
    <2>9. ASSUME NEW s \in Stage, ReopensPlanning(p, s) PROVE IInv'
      BY <1>1, <2>9, LaterStep DEF ReopensPlanning
    <2>10. ASSUME NEW s \in Stage, Retries(p, s) PROVE IInv'
      BY <1>1, <2>10, RetriesStep
    <2> QED
      BY <1>7, <2>1, <2>2, <2>3, <2>4, <2>5, <2>6, <2>7, <2>8, <2>9, <2>10 DEF Command
  <1> QED
    BY <1>2, <1>3, <1>4, <1>5, <1>6, <1>7 DEF Next

LEMMA IInvStutter == IInv /\ UNCHANGED vars => IInv'
  <1> SUFFICES ASSUME IInv, UNCHANGED vars PROVE IInv'
    OBVIOUS
  <1> USE DEF vars
  <1>1. TypeInv'
    BY DEF IInv, TypeInv, TypeOK, CallInv, NeverSkipped
  <1>2. (\A p \in Callers, s \in Stage : Writing(p, s)' = Writing(p, s))
        /\ \A s : Starting(s)' = Starting(s)
    BY DEF Writing, Starting
  <1>3. OneRuns' /\ SourceInv'
    BY <1>2 DEF IInv, OneRuns, Runs, SourceInv, With
  <1>4. InOrder => InOrder'
    BY DEF InOrder, Writing, Starting
  <1>5. CurrentInv => CurrentInv'
    BY DEF CurrentInv, Writing
  <1> QED
    BY <1>1, <1>3, <1>4, <1>5 DEF IInv

\* The inductive invariant holds while one process at a time calls the engine.
THEOREM Invariance ==
    ASSUME OneCaller
    PROVE  Spec => []IInv
  <1>1. IInv /\ [Next]_vars => IInv'
    BY IInvNext, IInvStutter
  <1> QED
    BY IInvInit, <1>1, PTL DEF Spec

\* Whatever expires, is interrupted or dies while a call holds rows it has yet
\* to write, no second stage becomes Running.
THEOREM OneRunsAtATime ==
    ASSUME OneCaller
    PROVE  Spec => []OneStageRuns
  <1>1. IInv => OneStageRuns
    <2> SUFFICES ASSUME IInv PROVE OneStageRuns
      OBVIOUS
    <2>1. CASE With("Running") = {}
      BY <2>1, FS_EmptySet DEF OneStageRuns
    <2>2. ASSUME NEW s \in With("Running") PROVE OneStageRuns
      <3>1. With("Running") = {s}
        BY <2>2 DEF IInv, OneRuns, Runs, With
      <3> QED
        BY <3>1, FS_Singleton DEF OneStageRuns
    <2> QED
      BY <2>1, <2>2
  <1> QED
    BY Invariance, <1>1, PTL

\* Nothing before a Running stage is left to do, not even after a reset that
\* died half way.
THEOREM OrderIsKept ==
    ASSUME OneCaller
    PROVE  Spec => []StagesRunInOrder
  <1>1. IInv => StagesRunInOrder
    BY Stages DEF IInv, InOrder, StagesRunInOrder, With, Done
  <1> QED
    BY Invariance, <1>1, PTL

\* No validation that started before Implementation last completed counts.
THEOREM ValidationsAreCurrent ==
    ASSUME OneCaller
    PROVE  Spec => []ValidationIsCurrent
  <1>1. IInv => ValidationIsCurrent
    <2> SUFFICES ASSUME IInv, ~torn, ~retried, cycle = "active",
                        stages[Implementation].status = "Completed",
                        NEW v \in Validations, stages[v].status = "Completed"
                 PROVE  v \in fresh
      BY Stages DEF ValidationIsCurrent, With
    <2>1. CurrentInv /\ Counts(stages[v].status)
      BY DEF IInv, Counts
    <2> QED
      BY <2>1 DEF CurrentInv
  <1> QED
    BY Invariance, <1>1, PTL
=============================================================================

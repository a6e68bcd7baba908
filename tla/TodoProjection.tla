---------------------------- MODULE TodoProjection ----------------------------
(***************************************************************************)
(* ToDos of a project and their projection onto current-state.md           *)
(* (internal/cycle: handoff.go, todo_cli.go, service.go; internal/todos:   *)
(* projection.go, legacy.go; internal/store: todos.go, findings.go).       *)
(*                                                                         *)
(* A command changes ToDos in one transaction and then reconciles the file *)
(* through an operation recorded under an idempotency key: it builds a     *)
(* candidate from the database, installs it and verifies it, one status    *)
(* after the other, so that a repeated command goes on where the first one *)
(* died.  Commands of several processes interleave between any two of      *)
(* these steps.                                                            *)
(*                                                                         *)
(* A file is what its Pending section says: a line per ToDo, and whether   *)
(* the user's own line, Legacy, is still there as prose.  The hash of a    *)
(* candidate is its content.  Stages are in CycleEngine, the commands that *)
(* create and end cycles in ProjectCycles; here each is one step.          *)
(***************************************************************************)
EXTENDS Naturals, Sequences, FiniteSets

CONSTANTS Procs,        \* processes that run commands
          Findings,     \* ids of findings; every cycle numbers them anew
          MaxLegacy,    \* bound: todo-1..todo-<MaxLegacy>
          MaxCycles,    \* bound: cycles of the project
          MaxReports,   \* bound: findings reported, in all cycles
          MaxCommands,  \* bound: commands started, twice what overlaps another
          MaxDeaths     \* bound: processes that die in a command

\* No finding has the id of a legacy line, and the project has a cycle.
ASSUME IdsAssumption == Findings \cap Nat = {} /\ IsFiniteSet(Findings)
ASSUME BoundsAssumption ==
    /\ MaxLegacy \in Nat /\ MaxCycles \in Nat \ {0}
    /\ MaxReports \in Nat /\ MaxCommands \in Nat /\ MaxDeaths \in Nat

VARIABLES
    cycles,     \* status of each cycle
    escalated,  \* a stage of the active cycle is Escalated
    findings,   \* status of each finding of each cycle
    todos,      \* rows of the todos table
    adoptions,  \* todo_adoptions of each ToDo
    ops,        \* todo_projection_ops by idempotency key
    candidates, \* candidate files by idempotency key
    file,       \* context/current-state.md
    calls,      \* what each process is doing
    history     \* commands started, deaths, and what went wrong

vars == <<cycles, escalated, findings, todos, adoptions, ops, candidates, file,
          calls, history>>

None == 0
Cycles == 1..MaxCycles
LegacyIds == 1..MaxLegacy
Ids == Findings \cup LegacyIds

CycleStatuses == {"none", "active", "finished", "cancelled", "deferred", "abandoned"}
FindingStatuses == {"none", "open", "reopened", "deferred_todo"}
Actionable == {"open", "reopened"}

NoTodo == [status |-> "none", by |-> None, origin |-> None, noted |-> FALSE]
Todo == [status : {"none", "pending", "adopted", "resolved"},
         by : Cycles \cup {None},        \* adopted_cycle_id
         origin : Cycles \cup {None},    \* origin_cycle_id; none of a legacy line
         noted : BOOLEAN]                \* has a resolution note

\* A line names the ToDo, its status, and the cycle that adopted it or where it
\* comes from.
Lines == Ids \X {"pending", "adopted"} \X (Cycles \cup {None})
Content == [lines : SUBSET Lines, legacy : BOOLEAN]
Empty == [lines |-> {}, legacy |-> TRUE]

Prefixes == {"adopt", "release", "release-finish", "resolve-finish", "defer", "complete"}
Keys == Prefixes \X (Cycles \cup {None}) \X Ids
Op == [status : {"intent_persisted", "candidate_ready", "installed", "verified"},
       sha : Content]

Commands == {"adopt", "complete", "defer", "reject", "cancel", "finish", "emergency"}
Steps == {"idle", "promote", "allocate", "insert", "adopt", "complete", "defer",
          "release", "resolve", "upsert", "load", "build", "ready", "install",
          "replace", "mark", "verify", "engine", "settle"}
Idle == [pc |-> "idle", cmd |-> "adopt", cycle |-> None, ids |-> {}, number |-> 1,
         seen |-> 0, sha |-> Empty, again |-> FALSE, built |-> FALSE, late |-> FALSE,
         given |-> {}, alone |-> FALSE]
Call == [pc : Steps, cmd : Commands,
         cycle : Cycles \cup {None},     \* cycle of its key
         ids : SUBSET Ids,               \* ToDos still to do
         number : 1..(MaxLegacy + 1),    \* todo-N it will insert
         seen : 0..MaxLegacy,            \* legacy ToDos when it looked for its line
         sha : Content,                  \* hash it has read
         again : BOOLEAN,                \* the candidate is built a second time
         built : BOOLEAN,                \* history: the candidate is its own
         late : BOOLEAN,                 \* another command installed since it built
         given : SUBSET Findings,        \* history: findings it was to defer
         alone : BOOLEAN]                \* no other command since it built

\* A command died or failed after changing a ToDo; a change met the operation
\* of an earlier one; a candidate was installed that an earlier command had built, or
\* over another command's file; an adoption crossed the end of its cycle, or a
\* promotion another's look.
Faults == {"interrupted", "reused", "resumed", "overtaken", "crossed", "promoted"}

TypeOK ==
    /\ cycles \in [Cycles -> CycleStatuses]
    /\ escalated \in BOOLEAN
    /\ findings \in [Cycles -> [Findings -> FindingStatuses]]
    /\ todos \in [Ids -> Todo]
    /\ adoptions \in [Ids -> Seq([cycle : Cycles, status : {"adopted", "released", "resolved"}])]
    /\ DOMAIN ops \subseteq Keys /\ \A k \in DOMAIN ops : ops[k] \in Op
    /\ DOMAIN candidates \subseteq Keys /\ \A k \in DOMAIN candidates : candidates[k] \in Content
    /\ file \in Content
    /\ calls \in [Procs -> Call]
    /\ history \in [commands : 0..MaxCommands,
                    deaths : 0..MaxDeaths, faults : SUBSET Faults]

Init ==
    /\ cycles = [c \in Cycles |-> IF c = 1 THEN "active" ELSE "none"]
    /\ escalated = FALSE
    /\ findings = [c \in Cycles |-> [f \in Findings |-> "none"]]
    /\ todos = [i \in Ids |-> NoTodo]
    /\ adoptions = [i \in Ids |-> <<>>]
    /\ ops = <<>> /\ candidates = <<>>
    /\ file = Empty
    /\ calls = [p \in Procs |-> Idle]
    /\ history = [commands |-> 0, deaths |-> 0, faults |-> {}]

-----------------------------------------------------------------------------
Pick(S) == CHOOSE x \in S : TRUE
Put(f, k, x) == [j \in DOMAIN f \cup {k} |-> IF j = k THEN x ELSE f[j]]
Active == {c \in Cycles : cycles[c] = "active"}
AdoptedBy(c) == {i \in Ids : todos[i].status = "adopted" /\ todos[i].by = c}
ActionableOf(c) == {f \in Findings : findings[c][f] \in Actionable}
LegacyTodos == {i \in LegacyIds : todos[i].status # "none"}
Others(p) == {calls[q] : q \in Procs \ {p}}
Faulty(faults) == [history EXCEPT !.faults = @ \cup faults]

Projected(i) == todos[i].status \in {"pending", "adopted"}
Line(i) == <<i, todos[i].status,
             IF todos[i].status = "adopted" THEN todos[i].by ELSE todos[i].origin>>

\* Faulty variant: the section is written anew from the database.
WithoutProse(text) ==
    [lines |-> {Line(i) : i \in {j \in Ids : Projected(j)}}, legacy |-> FALSE]

\* BuildCurrentStateCandidate: lines of the pending and adopted ToDos, and the
\* prose of the file that is not the summary of a legacy ToDo.
Candidate(text) ==
    [lines |-> {Line(i) : i \in {j \in Ids : Projected(j)}},
     legacy |-> text.legacy /\ LegacyTodos = {}]

Key(c) ==
    LET prefix == CASE c.cmd \in {"reject", "cancel"} -> "release"
                    [] c.cmd = "emergency" -> "release-finish"
                    [] c.cmd = "finish" -> "resolve-finish"
                    [] OTHER -> c.cmd
    IN <<prefix, c.cycle, Pick(c.ids)>>

At(p, pc) == calls[p].pc = pc
Goes(p, pc) == calls' = [calls EXCEPT ![p].pc = pc]
Returns(p) == calls' = [calls EXCEPT ![p] = Idle]
Reports(p, faults) == Returns(p) /\ history' = Faulty(faults)

\* A command starts; the others are no longer alone.
Starts(p, c) ==
    LET weight == IF \A q \in Others(p) : q.pc = "idle" THEN 1 ELSE 2 IN
    /\ At(p, "idle") /\ history.commands + weight <= MaxCommands
    /\ calls' = [q \in Procs |-> IF q = p THEN c ELSE [calls[q] EXCEPT !.alone = FALSE]]
    /\ history' = [history EXCEPT !.commands = @ + weight]
    /\ UNCHANGED <<cycles, escalated, findings, todos, adoptions, ops, candidates, file>>

-----------------------------------------------------------------------------
(* Starting a command.                                                     *)

StartsAdopt(p) ==
    \E c \in Active :
        \/ \E S \in SUBSET {i \in Ids : todos[i].status # "none"} :
              S # {} /\ Starts(p, [Idle EXCEPT !.pc = "adopt", !.cmd = "adopt", !.cycle = c, !.ids = S])
        \/ Starts(p, [Idle EXCEPT !.pc = "promote", !.cmd = "adopt", !.cycle = c])

\* A cycle is optional.
StartsComplete(p) ==
    LET c == IF Active = {} THEN None ELSE Pick(Active) IN
    \/ \E i \in Ids : todos[i].status \in {"pending", "resolved"}
          /\ Starts(p, [Idle EXCEPT !.pc = "complete", !.cmd = "complete", !.cycle = c, !.ids = {i}])
    \/ Starts(p, [Idle EXCEPT !.pc = "promote", !.cmd = "complete", !.cycle = c])

StartsDefer(p) ==
    /\ escalated
    /\ \E c \in Active, S \in SUBSET Findings :
          /\ S # {} /\ \A f \in S : findings[c][f] \in Actionable \cup {"deferred_todo"}
          /\ Starts(p, [Idle EXCEPT !.pc = "defer", !.cmd = "defer", !.cycle = c,
                              !.ids = S, !.given = S])

\* Faulty variant: Finish with open findings leaves the ToDos alone.
EndsAndReleases(p, cmd, c) ==
    LET ids == IF cmd = "finish" /\ ActionableOf(c) # {} THEN {} ELSE AdoptedBy(c) IN
    Starts(p, [Idle EXCEPT !.pc = IF ids = {} THEN "engine"
                                  ELSE IF cmd = "finish" THEN "resolve" ELSE "release",
                           !.cmd = cmd, !.cycle = c, !.ids = ids])

\* releaseAdoptedTodosBeforeTerminal and finalizeAdoptedTodosBeforeFinish.
Ends(p, cmd, c) ==
    LET kind == IF cmd = "finish" /\ ActionableOf(c) # {} THEN "emergency" ELSE cmd IN
    Starts(p, [Idle EXCEPT !.pc = IF AdoptedBy(c) = {} THEN "engine"
                                  ELSE IF kind = "finish" THEN "resolve" ELSE "release",
                           !.cmd = kind, !.cycle = c, !.ids = AdoptedBy(c)])

StartsEnd(p) == \E cmd \in {"reject", "cancel", "finish"}, c \in Active : Ends(p, cmd, c)

-----------------------------------------------------------------------------
(* A legacy line becomes todo-N.                                           *)

\* Faulty variant: only ToDos that Research may adopt are compared.
PromotesUnlessPending(p) ==
    LET known == {i \in LegacyIds : todos[i].status = "pending"} IN
    /\ At(p, "promote")
    /\ IF ~file.legacy THEN Returns(p)
       ELSE IF known # {}
       THEN calls' = [calls EXCEPT ![p] = [calls[p] EXCEPT !.pc = calls[p].cmd, !.ids = {Pick(known)}]]
       ELSE calls' = [calls EXCEPT ![p].pc = "allocate", ![p].seen = Cardinality(LegacyTodos)]
    /\ UNCHANGED <<cycles, escalated, findings, todos, adoptions, ops, candidates, file, history>>

\* PromoteSelectedLegacyLine: the line is in the file, and no ToDo on display
\* has its summary.
Promotes(p) ==
    LET known == {i \in LegacyIds : Projected(i)}
        c == calls[p]
    IN
    /\ At(p, "promote")
    /\ IF ~file.legacy THEN Returns(p)
       ELSE IF known # {}
       THEN IF c.cmd = "complete" /\ todos[Pick(known)].status = "adopted" THEN Returns(p)
            ELSE calls' = [calls EXCEPT ![p] = [c EXCEPT !.ids = {Pick(known)}, !.pc = c.cmd]]
       ELSE calls' = [calls EXCEPT ![p] = [c EXCEPT !.pc = "allocate",
                                                     !.seen = Cardinality(LegacyTodos)]]
    /\ UNCHANGED <<cycles, escalated, findings, todos, adoptions, ops, candidates, file, history>>

\* AllocateNextLegacyTodoID.
Allocates(p) ==
    /\ At(p, "allocate") /\ Cardinality(LegacyTodos) < MaxLegacy
    /\ calls' = [calls EXCEPT ![p].pc = "insert", ![p].number = Cardinality(LegacyTodos) + 1]
    /\ UNCHANGED <<cycles, escalated, findings, todos, adoptions, ops, candidates, file, history>>

\* CreateLegacyTodo; a number given twice violates the primary key.
Inserts(p) ==
    LET c == calls[p] IN
    /\ At(p, "insert")
    /\ IF todos[c.number].status # "none"
       THEN Returns(p) /\ UNCHANGED <<todos, history>>
       ELSE /\ todos' = [todos EXCEPT ![c.number] = [NoTodo EXCEPT !.status = "pending"]]
            /\ calls' = [calls EXCEPT ![p] = [c EXCEPT !.pc = c.cmd, !.ids = {c.number},
                                                       !.number = 1, !.seen = 0]]
            /\ history' = Faulty(IF Cardinality(LegacyTodos) # c.seen THEN {"promoted"} ELSE {})
    /\ UNCHANGED <<cycles, escalated, findings, adoptions, ops, candidates, file>>

-----------------------------------------------------------------------------
(* Transactions on ToDos.                                                  *)

Appended(S, c, status) ==
    [i \in Ids |-> IF i \in S THEN Append(adoptions[i], [cycle |-> c, status |-> status])
                   ELSE adoptions[i]]

\* Faulty variant: the ToDo is adopted whatever its state.
AdoptsAny(p) ==
    LET c == calls[p]
        i == Pick(c.ids)
    IN
    /\ At(p, "adopt")
    /\ todos' = [todos EXCEPT ![i].status = "adopted", ![i].by = c.cycle]
    /\ adoptions' = Appended({i}, c.cycle, "adopted")
    /\ Goes(p, "upsert")
    /\ UNCHANGED <<cycles, escalated, findings, ops, candidates, file, history>>

\* AdoptTodo.  Outside the model's promises: a cycle that another command is
\* ending.
Adopts(p) ==
    LET c == calls[p]
        i == Pick(c.ids)
        ending == {q \in Others(p) : q.pc # "idle" /\ q.cmd \notin {"adopt", "complete"}}
    IN
    /\ At(p, "adopt")
    /\ IF todos[i].status # "pending"
       THEN Returns(p) /\ UNCHANGED <<todos, adoptions, history>>
       ELSE /\ todos' = [todos EXCEPT ![i].status = "adopted", ![i].by = c.cycle]
            /\ adoptions' = Appended({i}, c.cycle, "adopted")
            /\ Goes(p, "upsert")
            /\ history' = Faulty(IF ending # {} \/ c.cycle \notin Active
                                 THEN {"crossed"} ELSE {})
    /\ UNCHANGED <<cycles, escalated, findings, ops, candidates, file>>

\* Faulty variant: the row takes the status of the adoption.
ReleasesAsAdoption(p) ==
    LET c == Pick(Active)
        status == IF At(p, "release") THEN "released" ELSE "resolved"
    IN
    /\ At(p, "release") \/ At(p, "resolve")
    /\ IF Active = {} THEN Returns(p) /\ UNCHANGED <<todos, adoptions>>
       ELSE /\ todos' = [i \in Ids |-> IF i \in AdoptedBy(c)
                                       THEN [todos[i] EXCEPT !.by = None, !.status = status]
                                       ELSE todos[i]]
            /\ adoptions' = Appended(AdoptedBy(c), c, status)
            /\ Goes(p, "upsert")
    /\ UNCHANGED <<cycles, escalated, findings, ops, candidates, file, history>>

\* ReleaseAdoptedTodosForCycle and ResolveAdoptedTodosForCycle: every ToDo
\* adopted by the cycle that is active now.
Releases(p) ==
    LET c == Pick(Active) IN
    /\ At(p, "release") \/ At(p, "resolve")
    /\ IF Active = {} THEN Returns(p) /\ UNCHANGED <<todos, adoptions>>
       ELSE LET status == IF At(p, "release") THEN "released" ELSE "resolved" IN
            /\ todos' = [i \in Ids |->
                 IF i \in AdoptedBy(c)
                 THEN [todos[i] EXCEPT !.by = None,
                         !.status = IF status = "released" THEN "pending" ELSE "resolved"]
                 ELSE todos[i]]
            /\ adoptions' = Appended(AdoptedBy(c), c, status)
            /\ Goes(p, "upsert")
    /\ UNCHANGED <<cycles, escalated, findings, ops, candidates, file, history>>

Intended(k) ==
    IF k \in DOMAIN ops THEN ops ELSE Put(ops, k, [status |-> "intent_persisted", sha |-> Empty])

\* CompleteTodoIdempotent: a verified operation is left alone, any other starts
\* again.
Completes(p) ==
    LET c == calls[p]
        i == Pick(c.ids)
        k == Key(c)
        verified == k \in DOMAIN ops /\ ops[k].status = "verified"
        conflict == todos[i].status = "resolved" /\ ~todos[i].noted
    IN
    /\ At(p, "complete")
    /\ IF conflict \/ (~verified /\ todos[i].status = "adopted")
       THEN Returns(p) /\ UNCHANGED <<todos, ops>>
       ELSE IF verified THEN Goes(p, "load") /\ UNCHANGED <<todos, ops>>
       ELSE /\ todos' = [todos EXCEPT ![i].status = "resolved", ![i].noted = TRUE]
            /\ ops' = [Intended(k) EXCEPT ![k].status = "intent_persisted"]
            /\ Goes(p, "load")
    /\ UNCHANGED <<cycles, escalated, findings, adoptions, candidates, file, history>>

\* Faulty variant: a reopened finding is deferred without a ToDo.
DefersOpen(p) ==
    LET c == calls[p]
        f == Pick(c.ids)
        a == Pick(Active)
    IN
    /\ At(p, "defer") /\ Active # {}
    /\ findings' = [findings EXCEPT ![a][f] = "deferred_todo"]
    /\ todos' = IF todos[f].status = "none" /\ findings[a][f] = "open"
                THEN [todos EXCEPT ![f] = [NoTodo EXCEPT !.status = "pending", !.origin = c.cycle]]
                ELSE todos
    /\ ops' = Intended(Key(c))
    /\ Goes(p, "load")
    /\ UNCHANGED <<cycles, escalated, adoptions, candidates, file, history>>

\* DeferFindingTodoIdempotent, in the cycle that is active now: a ToDo of that
\* id, whatever cycle it comes from, is not inserted again.
Defers(p) ==
    LET c == calls[p]
        f == Pick(c.ids)
        a == Pick(Active)
        k == Key(c)
        verified == k \in DOMAIN ops /\ ops[k].status = "verified"
    IN
    /\ At(p, "defer")
    /\ IF verified THEN Goes(p, "load") /\ UNCHANGED <<findings, todos, ops>>
       ELSE IF Active = {} \/ findings[a][f] \notin Actionable \cup {"deferred_todo"}
       THEN Returns(p) /\ UNCHANGED <<findings, todos, ops>>
       ELSE /\ findings' = [findings EXCEPT ![a][f] = "deferred_todo"]
            /\ todos' = IF todos[f].status # "none" THEN todos
                        ELSE [todos EXCEPT ![f] = [NoTodo EXCEPT !.status = "pending",
                                                                 !.origin = c.cycle]]
            /\ ops' = Intended(k)
            /\ Goes(p, "load")
    /\ UNCHANGED <<cycles, escalated, adoptions, candidates, file, history>>

-----------------------------------------------------------------------------
(* ReconcileProjection of the operation for the next ToDo.                 *)

\* UpsertTodoProjectionOp: an operation that exists stays as it is, although
\* the ToDo has changed again.
Upserts(p) ==
    LET k == Key(calls[p]) IN
    /\ At(p, "upsert")
    /\ ops' = Intended(k)
    /\ history' = Faulty(IF k \in DOMAIN ops THEN {"reused"} ELSE {})
    /\ Goes(p, "load")
    /\ UNCHANGED <<cycles, escalated, findings, todos, adoptions, candidates, file>>

\* The ToDo is done: the next one, adopted by the cycle that is active then,
\* or what the command was for.
Done(c) ==
    LET left == c.ids \ {Pick(c.ids)} IN
    IF left # {}
    THEN IF c.cmd = "adopt"
         THEN IF Active = {} THEN Idle ELSE [c EXCEPT !.ids = left, !.pc = "adopt", !.cycle = Pick(Active)]
         ELSE [c EXCEPT !.ids = left, !.pc = IF c.cmd = "defer" THEN "defer" ELSE "upsert"]
    ELSE CASE c.cmd = "defer" -> [c EXCEPT !.ids = {}, !.pc = "settle"]
           [] c.cmd \in {"adopt", "complete"} -> Idle
           [] OTHER -> [c EXCEPT !.ids = {}, !.pc = "engine"]

\* Faulty variant: a candidate that is ready counts as projected.
LoadsReady(p) ==
    LET c == calls[p]
        status == ops[Key(c)].status
    IN
    /\ At(p, "load")
    /\ calls' = [calls EXCEPT ![p] =
         CASE status = "intent_persisted" -> [c EXCEPT !.pc = "build"]
           [] status = "installed" -> [c EXCEPT !.pc = "verify"]
           [] status \in {"candidate_ready", "verified"} -> Done(c)]
    /\ UNCHANGED <<cycles, escalated, findings, todos, adoptions, ops, candidates, file, history>>

\* Faulty variant: a ToDo that the file already shows counts as projected.
LoadsUnlessShown(p) ==
    LET c == calls[p]
        status == ops[Key(c)].status
        shown == c.cmd # "complete" /\ Pick(c.ids) \in {l[1] : l \in file.lines}
    IN
    /\ At(p, "load")
    /\ calls' = [calls EXCEPT ![p] =
         CASE status = "intent_persisted" -> IF shown THEN Done(c) ELSE [c EXCEPT !.pc = "build"]
           [] status = "candidate_ready" -> [c EXCEPT !.pc = "install"]
           [] status = "installed" -> [c EXCEPT !.pc = "verify"]
           [] status = "verified" -> Done(c)]
    /\ UNCHANGED <<cycles, escalated, findings, todos, adoptions, ops, candidates, file, history>>

\* Where an operation goes on.  A verified one is done, whatever has changed.
Loads(p) ==
    LET c == calls[p]
        status == ops[Key(c)].status
    IN
    /\ At(p, "load")
    /\ calls' = [calls EXCEPT ![p] =
         CASE status = "intent_persisted" -> [c EXCEPT !.pc = "build"]
           [] status = "candidate_ready" -> [c EXCEPT !.pc = "install"]
           [] status = "installed" -> [c EXCEPT !.pc = "verify"]
           [] status = "verified" -> Done(c)]
    /\ UNCHANGED <<cycles, escalated, findings, todos, adoptions, ops, candidates, file, history>>

\* Faulty variant: the candidate is the file with the line of this ToDo brought
\* up to date.
BuildsLine(p) ==
    LET c == calls[p]
        i == Pick(c.ids)
        others == {l \in file.lines : l[1] # i}
    IN
    /\ At(p, "build")
    /\ candidates' = Put(candidates, Key(c), [Candidate(file) EXCEPT !.lines =
                      others \cup {Line(j) : j \in {i} \cap {k \in Ids : Projected(k)}}])
    /\ calls' = [calls EXCEPT ![p] = [c EXCEPT !.pc = "ready", !.built = TRUE, !.late = FALSE,
                                       !.alone = \A q \in Others(p) : q.pc = "idle"]]
    /\ UNCHANGED <<cycles, escalated, findings, todos, adoptions, ops, file, history>>

\* Read the file, list the ToDos, write the candidate file.
Builds(p) ==
    LET c == calls[p] IN
    /\ At(p, "build")
    /\ candidates' = Put(candidates, Key(c), Candidate(file))
    /\ calls' = [calls EXCEPT ![p] = [c EXCEPT !.pc = "ready", !.built = TRUE, !.late = FALSE,
                                       !.alone = \A q \in Others(p) : q.pc = "idle"]]
    /\ UNCHANGED <<cycles, escalated, findings, todos, adoptions, ops, file, history>>

\* The hash recorded is of the candidate as built.
Readies(p) ==
    LET c == calls[p] IN
    /\ At(p, "ready")
    /\ ops' = [ops EXCEPT ![Key(c)] = [status |-> "candidate_ready", sha |-> candidates[Key(c)]]]
    /\ Goes(p, IF c.again THEN "replace" ELSE "install")
    /\ UNCHANGED <<cycles, escalated, findings, todos, adoptions, candidates, file, history>>

\* installCurrentStateAtomically, and what this overwrites.
Replaces(p, c) ==
    LET cured == IF c.built /\ c.alone THEN {"interrupted"} ELSE {}
        lost == (IF ~c.built THEN {"resumed"} ELSE {})
                \cup (IF c.late THEN {"overtaken"} ELSE {})
    IN
    /\ file' = candidates[Key(c)]
    /\ calls' = [q \in Procs |-> IF q = p THEN [c EXCEPT !.pc = "mark", !.built = FALSE, !.late = FALSE,
                                                          !.alone = FALSE]
                                 ELSE [calls[q] EXCEPT !.late = @ \/ calls[q].built]]
    /\ history' = [history EXCEPT !.faults = (@ \ cured) \cup lost]

\* installCandidate: a candidate that is missing or not the one recorded is
\* built again.
Installs(p) ==
    LET c == [calls[p] EXCEPT !.sha = ops[Key(calls[p])].sha] IN
    /\ At(p, "install")
    /\ IF Key(c) \in DOMAIN candidates /\ candidates[Key(c)] = c.sha THEN Replaces(p, c)
       ELSE /\ calls' = [calls EXCEPT ![p] = [c EXCEPT !.pc = "build", !.again = TRUE]]
            /\ UNCHANGED <<file, history>>
    /\ UNCHANGED <<cycles, escalated, findings, todos, adoptions, ops, candidates>>

InstallsRebuilt(p) ==
    /\ At(p, "replace") /\ Replaces(p, calls[p])
    /\ UNCHANGED <<cycles, escalated, findings, todos, adoptions, ops, candidates>>

\* Status installed, with the hash read before a rebuild.
Marks(p) ==
    LET c == calls[p] IN
    /\ At(p, "mark")
    /\ ops' = [ops EXCEPT ![Key(c)] = [status |-> "installed", sha |-> c.sha]]
    /\ calls' = [calls EXCEPT ![p] = [c EXCEPT !.pc = "verify", !.sha = Empty, !.again = FALSE]]
    /\ UNCHANGED <<cycles, escalated, findings, todos, adoptions, candidates, file, history>>

\* verifyInstalled: the file is the candidate, or has its hash when it is
\* missing, and shows the ToDo unless the operation completed it.
Verifies(p) ==
    LET c == calls[p]
        k == Key(c)
        shown == Pick(c.ids) \in {l[1] : l \in file.lines}
        right == /\ file = IF k \in DOMAIN candidates THEN candidates[k] ELSE ops[k].sha
                 /\ shown = (c.cmd \notin {"complete", "finish"})
    IN
    /\ At(p, "verify")
    /\ IF right
       THEN /\ ops' = [ops EXCEPT ![k].status = "verified"]
            /\ calls' = [calls EXCEPT ![p] = Done(c)]
            /\ UNCHANGED history
       ELSE Reports(p, {"interrupted"}) /\ UNCHANGED ops
    /\ UNCHANGED <<cycles, escalated, findings, todos, adoptions, candidates, file>>

-----------------------------------------------------------------------------
(* Cycles.                                                                 *)

\* The engine ends the cycle that is active now, or refuses (busy, no stage to
\* reject), which leaves the ToDos released.
Engine(p) ==
    LET c == calls[p] IN
    /\ At(p, "engine")
    /\ Returns(p)
    /\ \/ UNCHANGED <<cycles, escalated>>
       \/ /\ Active # {} /\ c.cmd # "reject"
          /\ cycles' = [cycles EXCEPT ![Pick(Active)] =
                          IF c.cmd = "cancel" THEN "cancelled" ELSE "finished"]
          /\ escalated' = FALSE
       \/ c.cmd = "reject" /\ Active # {} /\ escalated' = FALSE /\ UNCHANGED cycles
    /\ UNCHANGED <<findings, todos, adoptions, ops, candidates, file, history>>

\* CompleteCycleWithDeferredTodos once neither findings nor tasks are left;
\* ToDos the cycle adopted stay adopted.
Settles(p) ==
    LET c == calls[p] IN
    /\ At(p, "settle")
    /\ Returns(p)
    /\ \/ UNCHANGED <<cycles, escalated>>
       \/ /\ ActionableOf(c.cycle) = {} /\ Active # {}
          /\ cycles' = [cycles EXCEPT ![Pick(Active)] = "deferred"]
          /\ escalated' = FALSE
    /\ UNCHANGED <<findings, todos, adoptions, ops, candidates, file, history>>

\* Bound: cycles are created, and stages run, escalate and are continued,
\* between commands.
Quiet == \A p \in Procs : At(p, "idle")

\* CreateCycleFromConfig demotes the active cycle.
NewCycle ==
    /\ Quiet
    /\ \E c \in Cycles :
          /\ cycles[c] = "none" /\ \A o \in 1..(c - 1) : cycles[o] # "none"
          /\ cycles' = [o \in Cycles |-> IF o = c THEN "active"
                                         ELSE IF cycles[o] = "active" THEN "abandoned"
                                         ELSE cycles[o]]
    /\ escalated' = FALSE
    /\ UNCHANGED <<findings, todos, adoptions, ops, candidates, file, calls, history>>

\* Validators report while no stage is Escalated; between two reports of one
\* finding it was done.
Reported(old, new) ==
    \/ old = "none" /\ new = "open"
    \/ old = "open" /\ new = "reopened"

Report ==
    /\ Quiet /\ ~escalated
    /\ \E c \in Active, f \in Findings, new \in FindingStatuses :
          /\ Reported(findings[c][f], new)
          /\ new = "open" => Cardinality({r \in Cycles \X Findings : findings[r[1]][r[2]] # "none"}) < MaxReports
          /\ findings' = [findings EXCEPT ![c][f] = new]
    /\ UNCHANGED <<cycles, escalated, todos, adoptions, ops, candidates, file, calls, history>>

\* The loop is escalated with findings left, or continued.
Escalate ==
    /\ Quiet /\ \E c \in Active : escalated \/ ActionableOf(c) # {}
    /\ escalated' = ~escalated
    /\ UNCHANGED <<cycles, findings, todos, adoptions, ops, candidates, file, calls, history>>

\* Somebody removes the files in .workflow-hero/tmp.
Clean ==
    /\ Quiet /\ \E k \in DOMAIN candidates : ops[k].status # "verified"
    /\ candidates' = <<>>
    /\ UNCHANGED <<cycles, escalated, findings, todos, adoptions, ops, file, calls, history>>

\* The process dies; nothing is owed before its first transaction.
Die(p) ==
    /\ ~At(p, "idle") /\ history.deaths < MaxDeaths
    /\ Returns(p)
    /\ history' = [Faulty(IF calls[p].pc \in {"promote", "allocate", "insert", "engine", "settle"}
                          THEN {} ELSE {"interrupted"}) EXCEPT !.deaths = @ + 1]
    /\ UNCHANGED <<cycles, escalated, findings, todos, adoptions, ops, candidates, file>>

-----------------------------------------------------------------------------
Start(p) == StartsAdopt(p) \/ StartsComplete(p) \/ StartsDefer(p) \/ StartsEnd(p)
Change(p) == Promotes(p) \/ Allocates(p) \/ Inserts(p) \/ Adopts(p) \/ Releases(p)
             \/ Completes(p) \/ Defers(p)
Reconcile(p) == Upserts(p) \/ Loads(p) \/ Builds(p) \/ Readies(p) \/ Installs(p)
                \/ InstallsRebuilt(p) \/ Marks(p) \/ Verifies(p)
End(p) == Engine(p) \/ Settles(p)

Next == \/ \E p \in Procs : Start(p) \/ Change(p) \/ Reconcile(p) \/ End(p) \/ Die(p)
        \/ NewCycle \/ Report \/ Escalate \/ Clean

Spec == Init /\ [][Next]_vars

-----------------------------------------------------------------------------
\* The append-only adoption history is an account of the ToDo: every adoption
\* is given up or resolved at most once, by the cycle that made it, nothing
\* follows a resolution, and the row says how the last one stands.
AdoptionsAreBalanced ==
    \A i \in Ids :
        LET h == adoptions[i] IN
        /\ \A n \in DOMAIN h :
              /\ (h[n].status = "adopted") <=> (n % 2 = 1)
              /\ n % 2 = 0 => h[n].cycle = h[n - 1].cycle
              /\ h[n].status = "resolved" => n = Len(h) /\ todos[i].status = "resolved"
        /\ (todos[i].status = "adopted") <=> (Len(h) % 2 = 1)
        /\ todos[i].status = "adopted" => todos[i].by = h[Len(h)].cycle

\* A finding that was deferred is kept by a ToDo under its id, through retries,
\* crashes and overlapping commands.  Outside: the id belongs to a ToDo of an
\* earlier cycle, which the new finding does not replace.
DeferredIsKept ==
    \A c \in Cycles, f \in Findings :
        findings[c][f] = "deferred_todo" =>
            todos[f].status # "none" /\ todos[f].origin <= c

\* A cancelled or finished cycle holds no ToDo: what it adopted was released or
\* resolved first.  Outside: an adoption that crossed the command.
EndedCycleHoldsNoTodo ==
    "crossed" \notin history.faults =>
    \A c \in Cycles : cycles[c] \in {"cancelled", "finished"} => AdoptedBy(c) = {}

\* However promotions are retried, a line of the user's has one ToDo that is
\* not resolved.  Outside: a promotion between another's look and its insert.
LegacyLineOnce ==
    "promoted" \notin history.faults => Cardinality({i \in LegacyIds : Projected(i)}) <= 1

\* The user's line is never lost: it stands in the file or a ToDo has it.
LegacyLineIsKept == file.legacy \/ LegacyTodos # {}

\* Between commands the file shows the ToDos as they are, and after a death or
\* a failure it does so again once a command has the project to itself.
\* Outside: a key used again, a candidate of a dead command installed late, and
\* two commands that install over each other.
ProjectionIsCurrent ==
    Quiet /\ history.faults \cap {"interrupted", "reused", "resumed", "overtaken"} = {}
    => file.lines = {Line(i) : i \in {j \in Ids : Projected(j)}}

\* "only then permit stage/cycle advancement": when a cycle is completed with
\* deferred ToDos, the file shows each the command was given that is not
\* resolved, also when an earlier attempt died, and each whose operation is
\* verified.  Outside: a finding another deferral has only just taken, which the
\* completing command no longer waits for; candidates installed late.
AdvancesAfterProjection ==
    [][\A c \in Cycles, p \in Procs :
         /\ cycles'[c] = "deferred" /\ cycles[c] # "deferred" /\ At(p, "settle") /\ ~At(p, "settle")'
         /\ history.faults \cap {"resumed", "overtaken"} = {}
         => \A f \in Findings :
              /\ findings[c][f] = "deferred_todo" /\ Projected(f)
              /\ f \in calls[p].given \/ (<<"defer", c, f>> \in DOMAIN ops /\ ops[<<"defer", c, f>>].status = "verified")
              => f \in {l[1] : l \in file.lines}]_vars

\* The list that lines of the file show: ToDos, and the cycle of an adopted one.
Shown(lines) == {<<l[1], IF l[2] = "adopted" THEN l[3] ELSE None>> : l \in lines}

\* What the rows and files of this module mean to a project.
Lifecycle == INSTANCE TodoLifecycle WITH
    drafts <- {Shown(candidates[k].lines) : k \in DOMAIN candidates},
    document <- Shown(file.lines)

\* Commands that interleave, die and are repeated keep the promises of
\* TodoLifecycle: a ToDo is created once, held by one cycle and given up with
\* all the others that cycle holds, a resolved one never comes back, and the
\* file only ever changes from one true list of the ToDos to another.
ImplementsLifecycle == Lifecycle!Spec
=============================================================================

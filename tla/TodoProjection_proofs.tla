------------------------ MODULE TodoProjection_proofs ------------------------
(***************************************************************************)
(* What the ToDos of a project keep and what current-state.md shows of     *)
(* them, for every number of processes, cycles and ToDos and every         *)
(* interleaving of their commands with deaths; and that TodoProjection     *)
(* implements TodoLifecycle.                                               *)
(*                                                                         *)
(* The file is current, or some command has still to bring it up to date   *)
(* (Will): what a command owes passes from its transaction to the          *)
(* candidate it builds and from there to the file, and to the command that *)
(* changed the ToDos last.                                                 *)
(***************************************************************************)
EXTENDS TodoProjection, FiniteSetTheorems, TLAPS

Ending == {"reject", "cancel", "finish", "emergency"}

\* Steps with an operation in the table, with a candidate to install, and
\* before the command has ToDos.
Opened == {"load", "build", "ready", "install", "replace", "mark", "verify"}
Holding == {"ready", "install", "replace"}
Looking == {"promote", "allocate", "insert"}

\* What a command is doing fits what it was started for.
CallOK(c) ==
    /\ c.pc \in {"adopt", "complete", "defer", "release", "resolve", "upsert"} \cup Opened
       => c.ids # {}
    /\ c.pc \in Looking => c.cmd \in {"adopt", "complete"}
    /\ c.pc \in {"adopt", "complete", "defer"} => c.cmd = c.pc
    /\ c.pc = "settle" => c.cmd = "defer" /\ c.ids = {}
    /\ c.pc \in {"release", "resolve", "engine"} => c.cmd \in Ending
    /\ c.pc = "upsert" => c.cmd \notin {"complete", "defer"}
    /\ c.cmd = "complete" /\ c.pc \notin {"idle"} \cup Looking => \E i \in Ids : c.ids = {i}
    /\ c.pc # "idle" /\ c.cmd # "complete" => c.cycle \in Cycles /\ cycles[c.cycle] # "none"
    /\ c.pc # "idle" => Active \subseteq {c.cycle}
    /\ c.pc = "insert" => c.number \in LegacyIds
    /\ c.cmd = "defer" => c.ids \subseteq c.given /\ c.given \subseteq Findings
    /\ c.cmd # "defer" => \A i \in c.ids : todos[i].status # "none"
    /\ c.pc \in Opened => Key(c) \in DOMAIN ops
    /\ c.pc \in {"ready", "replace"} => c.built
    /\ c.built => c.pc \in {"build"} \cup Holding
    /\ c.built /\ c.pc \in Holding => Key(c) \in DOMAIN candidates

\* Cycles are created in order, and only the last one can be active.
CycleInv ==
    \A c \in Cycles : cycles[c] \in {"none", "active"} => \A o \in Cycles : o > c => cycles[o] = "none"

TodoInv ==
    \A i \in Ids :
        /\ todos[i].status # "adopted" => todos[i].by = None
        /\ todos[i].origin # None => cycles[todos[i].origin] # "none"

\* An operation that changes a ToDo in its own transaction shows that it did.
OpInv ==
    \A k \in DOMAIN ops :
        /\ k[1] = "complete" => todos[k[3]].status = "resolved"
        /\ k[1] = "defer" => todos[k[3]].status # "none"

\* Types, and what every command relies on.
TypeInv ==
    /\ TypeOK
    /\ \A p \in Procs : CallOK(calls[p])
    /\ CycleInv
    /\ TodoInv
    /\ OpInv

\* A command that ends a cycle has taken its ToDos.
EndInv ==
    "crossed" \notin history.faults =>
        /\ \A c \in Cycles : cycles[c] \in {"cancelled", "finished"} => AdoptedBy(c) = {}
        /\ \A p \in Procs :
             calls[p].cmd \in Ending /\ calls[p].pc \notin {"idle", "release", "resolve"}
             => \A a \in Active : AdoptedBy(a) = {}

\* A promotion that will insert saw no ToDo on display for its line, unless
\* another inserted since.
PromotionInv ==
    /\ \A p \in Procs :
         calls[p].pc \in {"allocate", "insert"} =>
           /\ calls[p].seen <= Cardinality(LegacyTodos)
           /\ calls[p].seen = Cardinality(LegacyTodos) => \A i \in LegacyIds : ~Projected(i)
    /\ "promoted" \notin history.faults =>
         \A i, j \in LegacyIds : Projected(i) /\ Projected(j) => i = j

LegacyInv ==
    LegacyTodos = {} => file.legacy /\ \A k \in DOMAIN candidates : candidates[k].legacy

Current == {Line(i) : i \in {j \in Ids : Projected(j)}}
Names(lines) == {l[1] : l \in lines}

\* p holds the candidate it built, and nobody has installed another since.
Holds(p) == calls[p].built /\ calls[p].pc \in Holding
Timely(p) == Holds(p) /\ ~calls[p].late

\* p will build a candidate from the ToDos as they are, or install one.
Will(p) ==
    LET c == calls[p] IN
    \/ c.pc \in {"upsert", "build"}
    \/ /\ c.pc = "load" /\ ops[Key(c)].status = "intent_persisted"
       /\ \A q \in Procs : calls[q].pc \in Opened \ {"load"} => Key(calls[q]) # Key(c)
    \/ c.pc \in {"adopt", "complete"} /\ todos[Pick(c.ids)].status = "pending"
    \/ Holds(p) /\ candidates[Key(c)].lines = Current

Outdated == {"interrupted", "reused", "resumed", "overtaken"}

CurrentInv ==
    /\ \A p \in Procs :
         Holds(p) /\ calls[p].alone =>
           /\ \A q \in Procs \ {p} : calls[q].pc = "idle"
           /\ candidates[Key(calls[p])].lines = Current
    /\ history.faults \cap Outdated = {} =>
         \/ \E p \in Procs : Will(p)
         \/ /\ file.lines = Current
            /\ \A p \in Procs : Timely(p) => candidates[Key(calls[p])].lines = Current

\* The file shows a ToDo and goes on doing so.
Stays(i) ==
    Projected(i) =>
        /\ i \in Names(file.lines)
        /\ \A p \in Procs : Timely(p) => i \in Names(candidates[Key(calls[p])].lines)

DeferInv ==
    /\ \A k \in DOMAIN candidates :
         k[1] = "defer" => todos[k[3]].status # "none" /\ (Projected(k[3]) => k[3] \in Names(candidates[k].lines))
    /\ history.faults \cap {"resumed", "overtaken"} = {} =>
         /\ \A k \in DOMAIN ops :
              k[1] = "defer" /\ ops[k].status \in {"installed", "verified"} => Stays(k[3])
         /\ \A p \in Procs :
              calls[p].cmd = "defer" =>
                /\ calls[p].pc \in {"mark", "verify"} => Stays(Pick(calls[p].ids))
                /\ calls[p].pc # "idle" => \A f \in calls[p].given \ calls[p].ids :
                                             todos[f].status # "none" /\ Stays(f)

\* The inductive invariant.
IInv ==
    /\ TypeInv
    /\ AdoptionsAreBalanced
    /\ DeferredIsKept
    /\ EndInv
    /\ PromotionInv
    /\ LegacyInv
    /\ CurrentInv
    /\ DeferInv
-----------------------------------------------------------------------------
LEMMA Bounds ==
    /\ Cycles \subseteq Nat \ {0} /\ LegacyIds \subseteq Nat /\ 1 \in Cycles
    /\ Findings \cap LegacyIds = {} /\ MaxLegacy \in Nat
    /\ None \notin Cycles /\ None = 0 /\ MaxCommands \in Nat /\ MaxDeaths \in Nat
    /\ Findings \subseteq Ids /\ LegacyIds \subseteq Ids
  BY IdsAssumption, BoundsAssumption
     DEF IdsAssumption, BoundsAssumption, Cycles, LegacyIds, None, Ids

LEMMA PickIn ==
    ASSUME NEW S, S # {}
    PROVE  Pick(S) \in S
  BY DEF Pick

\* The key of a command names the ToDo it is about, and no other command has it.
LEMMA KeyOf ==
    ASSUME NEW c \in Call, c.ids # {}
    PROVE  /\ Key(c) \in Keys
           /\ Key(c)[1] = "complete" <=> c.cmd = "complete"
           /\ Key(c)[1] = "defer" <=> c.cmd = "defer"
           /\ Key(c)[2] = c.cycle
           /\ Key(c)[3] = Pick(c.ids)
           /\ Pick(c.ids) \in c.ids /\ Pick(c.ids) \in Ids
  <1>1. Pick(c.ids) \in c.ids /\ c.ids \subseteq Ids
    BY PickIn DEF Call
  <1>2. c.cmd \in Commands /\ c.cycle \in Cycles \cup {None}
    BY DEF Call
  <1> QED
    BY <1>1, <1>2 DEF Key, Keys, Prefixes, Commands

LEMMA KeySame ==
    ASSUME NEW c, NEW d, c.cmd = d.cmd, c.cycle = d.cycle, c.ids = d.ids
    PROVE  Key(c) = Key(d)
  BY DEF Key

LEMMA IntendedOf ==
    ASSUME NEW k
    PROVE  /\ DOMAIN Intended(k) = DOMAIN ops \cup {k}
           /\ \A j \in DOMAIN ops : Intended(k)[j] = ops[j]
           /\ k \notin DOMAIN ops => Intended(k)[k] = [status |-> "intent_persisted", sha |-> Empty]
           /\ k \in DOMAIN ops => Intended(k) = ops
  BY DEF Intended, Put
-----------------------------------------------------------------------------
(* Types.                                                                  *)

\* What a step of a command leaves to the others.
SameCall(c, d) ==
    /\ c.pc = d.pc /\ c.cmd = d.cmd /\ c.cycle = d.cycle /\ c.ids = d.ids
    /\ c.number = d.number /\ c.seen = d.seen /\ c.built = d.built /\ c.given = d.given

Grows ==
    /\ \A c \in Cycles : cycles[c] # "none" => cycles'[c] # "none"
    /\ Active' \subseteq Active
    /\ \A i \in Ids : todos[i].status # "none" => todos'[i].status # "none"
    /\ DOMAIN ops \subseteq DOMAIN ops'
    /\ DOMAIN candidates \subseteq DOMAIN candidates'

LEMMA OthersOK ==
    ASSUME TypeInv, Grows, NEW q \in Procs, SameCall(calls'[q], calls[q])
    PROVE  CallOK(calls[q])'
  <1> DEFINE c == calls[q]  d == calls'[q]
  <1>1. CallOK(c) /\ c \in Call
    BY DEF TypeInv, TypeOK
  <1>2. Key(d) = Key(c)
    BY KeySame DEF SameCall
  <1>3. c.ids \subseteq Ids /\ c.cycle \in Cycles \cup {None}
    BY <1>1 DEF Call
  <1> QED
    BY <1>1, <1>2, <1>3 DEF CallOK, Grows, SameCall

\* The types of everything but the calls.
TableOK ==
    /\ cycles \in [Cycles -> CycleStatuses]
    /\ escalated \in BOOLEAN
    /\ findings \in [Cycles -> [Findings -> FindingStatuses]]
    /\ todos \in [Ids -> Todo]
    /\ adoptions \in [Ids -> Seq([cycle : Cycles, status : {"adopted", "released", "resolved"}])]
    /\ DOMAIN ops \subseteq Keys /\ \A k \in DOMAIN ops : ops[k] \in Op
    /\ DOMAIN candidates \subseteq Keys /\ \A k \in DOMAIN candidates : candidates[k] \in Content
    /\ file \in Content
    /\ history \in [commands : 0..MaxCommands,
                    deaths : 0..MaxDeaths, faults : SUBSET Faults]

LEMMA StepOK ==
    ASSUME TypeInv, Grows, TableOK', CycleInv', TodoInv', OpInv', NEW p \in Procs,
           calls' \in [Procs -> Call], CallOK(calls[p])',
           \A q \in Procs \ {p} : SameCall(calls'[q], calls[q])
    PROVE  TypeInv'
  <1>1. \A q \in Procs : CallOK(calls[q])'
    BY OthersOK
  <1>2. TypeOK'
    BY DEF TypeOK, TableOK
  <1> QED
    BY <1>1, <1>2 DEF TypeInv

LEMMA IdleOK == Idle \in Call /\ CallOK(Idle) /\ CallOK(Idle)'
  <1>1. Idle \in Call
    BY Bounds DEF Idle, Call, Steps, Commands, Empty, Content, Lines
  <1> QED
    BY <1>1 DEF Idle, CallOK, Opened, Looking, Ending, Holding

LEMMA TypeInit == Init => TypeInv
  <1> SUFFICES ASSUME Init PROVE TypeInv
    OBVIOUS
  <1>1. TypeOK
    <2>1. /\ cycles \in [Cycles -> CycleStatuses] /\ escalated \in BOOLEAN
          /\ findings \in [Cycles -> [Findings -> FindingStatuses]]
      BY DEF Init, CycleStatuses, FindingStatuses
    <2>2. todos \in [Ids -> Todo]
      BY DEF Init, NoTodo, Todo
    <2>3. adoptions \in [Ids -> Seq([cycle : Cycles, status : {"adopted", "released", "resolved"}])]
      BY DEF Init
    <2>4. DOMAIN ops = {} /\ DOMAIN candidates = {}
      BY DEF Init
    <2>5. file \in Content
      BY DEF Init, Empty, Content
    <2>6. calls \in [Procs -> Call]
      BY IdleOK DEF Init
    <2>7. history \in [commands : 0..MaxCommands, deaths : 0..MaxDeaths, faults : SUBSET Faults]
      BY Bounds DEF Init
    <2> QED
      BY <2>1, <2>2, <2>3, <2>4, <2>5, <2>6, <2>7 DEF TypeOK
  <1>2. \A p \in Procs : CallOK(calls[p])
    BY IdleOK DEF Init
  <1>3. CycleInv /\ TodoInv /\ OpInv
    BY Bounds DEF Init, CycleInv, TodoInv, OpInv, NoTodo
  <1> QED
    BY <1>1, <1>2, <1>3 DEF TypeInv

\* A step that only moves p on.
LEMMA MoveOK ==
    ASSUME TypeInv, NEW p \in Procs, NEW d \in Call, CallOK(d),
           calls' = [calls EXCEPT ![p] = d],
           UNCHANGED <<cycles, escalated, findings, todos, adoptions, ops, candidates, file, history>>
    PROVE  TypeInv'
  <1>1. Grows
    BY DEF Grows, Active
  <1>2. TableOK' /\ CycleInv' /\ TodoInv' /\ OpInv'
    BY DEF TypeInv, TypeOK, TableOK, CycleInv, TodoInv, OpInv
  <1>3. calls \in [Procs -> Call]
    BY DEF TypeInv, TypeOK
  <1>4. calls' \in [Procs -> Call] /\ calls'[p] = d /\ \A q \in Procs \ {p} : calls'[q] = calls[q]
    BY <1>3
  <1>5. \A q \in Procs \ {p} : SameCall(calls'[q], calls[q])
    BY <1>4 DEF SameCall
  <1>6. CallOK(calls[p])'
    BY <1>4 DEF CallOK, Key, Active
  <1> QED
    BY <1>1, <1>2, <1>4, <1>5, <1>6, StepOK

LEMMA OneActive ==
    ASSUME CycleInv
    PROVE  \A c \in Active : Active = {c} /\ Pick(Active) = c /\ c \in Cycles
  <1> SUFFICES ASSUME NEW c \in Active, NEW o \in Active
               PROVE  c = o
    BY PickIn DEF Active
  <1>1. c \in Nat /\ o \in Nat /\ c \in Cycles /\ o \in Cycles
    BY Bounds DEF Active
  <1>2. ~(c < o) /\ ~(o < c)
    BY <1>1 DEF CycleInv, Active
  <1> QED
    BY <1>1, <1>2

LEMMA StartOK ==
    ASSUME TypeInv, NEW p \in Procs, NEW c \in Call, CallOK(c), Starts(p, c)
    PROVE  TypeInv'
  <1>1. UNCHANGED <<cycles, escalated, findings, todos, adoptions, ops, candidates, file>>
    BY DEF Starts
  <1>2. Grows
    BY <1>1 DEF Grows, Active
  <1>3. history' \in [commands : 0..MaxCommands, deaths : 0..MaxDeaths, faults : SUBSET Faults]
    <2>1. PICK weight \in {1, 2} : /\ history.commands + weight <= MaxCommands
                                   /\ history' = [history EXCEPT !.commands = @ + weight]
      BY DEF Starts
    <2>2. history \in [commands : 0..MaxCommands, deaths : 0..MaxDeaths, faults : SUBSET Faults]
      BY DEF TypeInv, TypeOK
    <2>3. history.commands + weight \in 0..MaxCommands
      BY <2>1, <2>2, Bounds
    <2> QED
      BY <2>1, <2>2, <2>3
  <1>4. TableOK'
    BY <1>1, <1>3 DEF TypeInv, TypeOK, TableOK
  <1>5. CycleInv' /\ TodoInv' /\ OpInv'
    BY <1>1 DEF TypeInv, CycleInv, TodoInv, OpInv
  <1>6. /\ calls' \in [Procs -> Call] /\ calls'[p] = c
        /\ \A q \in Procs \ {p} : SameCall(calls'[q], calls[q])
    <2>1. calls \in [Procs -> Call]
      BY DEF TypeInv, TypeOK
    <2>2. calls' = [q \in Procs |-> IF q = p THEN c ELSE [calls[q] EXCEPT !.alone = FALSE]]
      BY DEF Starts
    <2>3. \A q \in Procs : [calls[q] EXCEPT !.alone = FALSE] \in Call
                           /\ SameCall([calls[q] EXCEPT !.alone = FALSE], calls[q])
      BY <2>1 DEF Call, SameCall
    <2> QED
      BY <2>2, <2>3
  <1>7. CallOK(calls[p])'
    BY <1>1, <1>6 DEF CallOK, Key, Active
  <1> QED
    BY <1>2, <1>4, <1>5, <1>6, <1>7, StepOK

\* Every command starts as one it may be.
LEMMA StartsOne ==
    ASSUME TypeInv, NEW p \in Procs, Start(p)
    PROVE  \E c \in Call : /\ Starts(p, c) /\ CallOK(c)
                           /\ c.pc \in {"adopt", "promote", "complete", "defer", "engine", "resolve", "release"}
                           /\ ~c.built /\ (c.cmd = "defer" => c.given = c.ids)
                           /\ c.cmd \in Ending /\ c.pc = "engine" => AdoptedBy(c.cycle) = {}
  <1> USE DEF Idle
  <1>0. Idle \in Call /\ Active \subseteq Cycles /\ \A c \in Active : cycles[c] # "none"
    BY IdleOK DEF Active
  <1>1. \A c \in Active : Active \subseteq {c}
    BY OneActive DEF TypeInv
  <1>2. CASE StartsAdopt(p)
    <2>1. PICK c \in Active :
            \/ \E S \in SUBSET {i \in Ids : todos[i].status # "none"} :
                  S # {} /\ Starts(p, [Idle EXCEPT !.pc = "adopt", !.cmd = "adopt", !.cycle = c, !.ids = S])
            \/ Starts(p, [Idle EXCEPT !.pc = "promote", !.cmd = "adopt", !.cycle = c])
      BY <1>2 DEF StartsAdopt
    <2>2. ASSUME NEW S \in SUBSET {i \in Ids : todos[i].status # "none"}, S # {}
          PROVE  LET d == [Idle EXCEPT !.pc = "adopt", !.cmd = "adopt", !.cycle = c, !.ids = S]
                 IN  d \in Call /\ CallOK(d)
      <3>1. S \subseteq Ids /\ S # {} /\ c \in Cycles /\ \A i \in S : todos[i].status # "none"
        BY <1>0, <2>2
      <3> QED
        BY <3>1, <1>0, <1>1 DEF Call, CallOK, Steps, Commands, Ending, Opened, Holding, Looking
    <2>3. LET d == [Idle EXCEPT !.pc = "promote", !.cmd = "adopt", !.cycle = c]
          IN  d \in Call /\ CallOK(d)
      BY <1>0, <1>1 DEF Call, CallOK, Steps, Commands, Ending, Opened, Holding, Looking
    <2> QED
      BY <2>1, <2>2, <2>3 DEF Ending
  <1>3. CASE StartsComplete(p)
    <2> DEFINE c == IF Active = {} THEN None ELSE Pick(Active)
    <2>1. c \in Cycles \cup {None} /\ Active \subseteq {c}
      BY <1>0, <1>1, PickIn
    <2>2. \/ \E i \in Ids : todos[i].status \in {"pending", "resolved"}
               /\ Starts(p, [Idle EXCEPT !.pc = "complete", !.cmd = "complete", !.cycle = c, !.ids = {i}])
          \/ Starts(p, [Idle EXCEPT !.pc = "promote", !.cmd = "complete", !.cycle = c])
      BY <1>3 DEF StartsComplete
    <2> HIDE DEF c
    <2>3. ASSUME NEW i \in Ids, todos[i].status \in {"pending", "resolved"}
          PROVE  LET d == [Idle EXCEPT !.pc = "complete", !.cmd = "complete", !.cycle = c, !.ids = {i}]
                 IN  d \in Call /\ CallOK(d)
      BY <1>0, <2>1, <2>3 DEF Call, CallOK, Steps, Commands, Ending, Opened, Holding, Looking
    <2>4. LET d == [Idle EXCEPT !.pc = "promote", !.cmd = "complete", !.cycle = c]
          IN  d \in Call /\ CallOK(d)
      BY <1>0, <2>1 DEF Call, CallOK, Steps, Commands, Ending, Opened, Holding, Looking
    <2> QED
      BY <2>2, <2>3, <2>4 DEF Ending
  <1>4. CASE StartsDefer(p)
    <2>1. PICK c \in Active, S \in SUBSET Findings :
            S # {} /\ Starts(p, [Idle EXCEPT !.pc = "defer", !.cmd = "defer", !.cycle = c, !.ids = S, !.given = S])
      BY <1>4 DEF StartsDefer
    <2>2. LET d == [Idle EXCEPT !.pc = "defer", !.cmd = "defer", !.cycle = c, !.ids = S, !.given = S]
          IN  d \in Call /\ CallOK(d)
      <3>1. S \subseteq Ids /\ S # {} /\ S \subseteq Findings /\ c \in Cycles
        BY <1>0, <2>1, Bounds
      <3> QED
        BY <3>1, <1>0, <1>1 DEF Call, CallOK, Steps, Commands, Ending, Opened, Holding, Looking
    <2> QED
      BY <2>1, <2>2 DEF Ending
  <1>5. CASE StartsEnd(p)
    <2>1. PICK cmd \in {"reject", "cancel", "finish"}, c \in Active : Ends(p, cmd, c)
      BY <1>5 DEF StartsEnd
    <2>2. PICK kind \in Ending, pc \in {"engine", "resolve", "release"} :
            /\ Starts(p, [Idle EXCEPT !.pc = pc, !.cmd = kind, !.cycle = c, !.ids = AdoptedBy(c)])
            /\ pc = "engine" <=> AdoptedBy(c) = {}
      <3> DEFINE kind == IF cmd = "finish" /\ ActionableOf(c) # {} THEN "emergency" ELSE cmd
                 pc == IF AdoptedBy(c) = {} THEN "engine" ELSE IF kind = "finish" THEN "resolve" ELSE "release"
      <3>1. kind \in Ending /\ pc \in {"engine", "resolve", "release"} /\ (pc = "engine" <=> AdoptedBy(c) = {})
        BY DEF Ending
      <3>2. Starts(p, [Idle EXCEPT !.pc = pc, !.cmd = kind, !.cycle = c, !.ids = AdoptedBy(c)])
        BY <2>1 DEF Ends
      <3> HIDE DEF kind, pc
      <3> QED
        BY <3>1, <3>2
    <2>3. AdoptedBy(c) \subseteq Ids /\ \A i \in AdoptedBy(c) : todos[i].status # "none"
      BY DEF AdoptedBy
    <2>4. LET d == [Idle EXCEPT !.pc = pc, !.cmd = kind, !.cycle = c, !.ids = AdoptedBy(c)]
          IN  d \in Call /\ CallOK(d)
      BY <1>0, <1>1, <2>2, <2>3 DEF Call, CallOK, Steps, Commands, Ending, Opened, Holding, Looking
    <2> QED
      BY <2>2, <2>4 DEF Ending
  <1> QED
    BY <1>2, <1>3, <1>4, <1>5 DEF Start

LEMMA CallGrows ==
    ASSUME Grows, NEW d \in Call, CallOK(d)
    PROVE  CallOK(d)'
  <1>1. d.ids \subseteq Ids /\ d.cycle \in Cycles \cup {None}
    BY DEF Call
  <1> QED
    BY <1>1 DEF CallOK, Grows, Key

LEMMA CallAt ==
    ASSUME TypeInv, NEW p \in Procs
    PROVE  calls[p] \in Call /\ CallOK(calls[p]) /\ calls[p].ids \subseteq Ids
  BY DEF TypeInv, TypeOK, Call

\* What is left of a command once a ToDo is done.
DoneAs(c, d) ==
    /\ d \in Call /\ CallOK(d) /\ ~d.built
    /\ d.pc \in {"idle", "adopt", "defer", "upsert", "settle", "engine"}
    /\ d.pc # "idle" => d.cmd = c.cmd /\ d.given = c.given /\ d.ids = c.ids \ {Pick(c.ids)}
    /\ d.cmd \in Ending \cup {"defer"} => d.cmd = c.cmd
    /\ d.pc = "idle" => d = Idle

LEMMA DoneIs ==
    ASSUME TypeInv, NEW c \in Call, CallOK(c), c.pc \in {"load", "verify"}
    PROVE  DoneAs(c, Done(c))
  <1> DEFINE left == c.ids \ {Pick(c.ids)}
  <1>0. c.ids # {} /\ left \subseteq c.ids /\ c.ids \subseteq Ids
        /\ c.cycle \in Cycles \cup {None} /\ ~c.built
    BY DEF CallOK, Opened, Call, Holding
  <1>1. CASE left # {} /\ c.cmd = "adopt"
    <2>1. CASE Active = {}
      BY <1>1, <2>1, IdleOK DEF Done, Idle, Ending, DoneAs
    <2>2. CASE Active # {}
      <3> DEFINE a == Pick(Active)
                 d == [c EXCEPT !.ids = left, !.pc = "adopt", !.cycle = a]
      <3>1. Done(c) = d
        BY <1>1, <2>2 DEF Done
      <3>2. a \in Cycles /\ cycles[a] # "none" /\ Active = {a}
        BY <2>2, OneActive DEF TypeInv, Active
      <3> HIDE DEF left, a
      <3>3. d \in Call
        BY <1>0, <3>2 DEF Call, Steps
      <3>4. CallOK(d)
        BY <1>0, <1>1, <3>2 DEF CallOK, Opened, Holding, Looking
      <3>5. d.ids = left /\ d.given = c.given /\ d.cmd = c.cmd /\ d.pc = "adopt" /\ ~d.built
        BY <1>0 DEF Call
      <3> HIDE DEF d
      <3> QED
        BY <3>1, <3>3, <3>4, <3>5 DEF left, DoneAs, Ending
    <2> QED
      BY <2>1, <2>2
  <1>2. ASSUME NEW pc \in Steps, Done(c) = [c EXCEPT !.ids = left, !.pc = pc],
               \/ left # {} /\ c.cmd = "defer" /\ pc = "defer"
               \/ left # {} /\ c.cmd \notin {"defer", "adopt", "complete"} /\ pc = "upsert"
               \/ left = {} /\ c.cmd = "defer" /\ pc = "settle"
               \/ left = {} /\ c.cmd \in Ending /\ pc = "engine"
        PROVE  DoneAs(c, Done(c))
    <2> DEFINE d == [c EXCEPT !.ids = left, !.pc = pc]
    <2> HIDE DEF left
    <2>1. d \in Call
      BY <1>0 DEF Call
    <2>2. CallOK(d)
      BY <1>0, <1>2 DEF CallOK, Opened, Holding, Looking, Ending
    <2>3. d.ids = left /\ d.given = c.given /\ d.cmd = c.cmd /\ d.pc = pc /\ ~d.built
      BY <1>0 DEF Call
    <2> HIDE DEF d
    <2>4. Done(c) = d
      BY <1>2 DEF d
    <2> QED
      BY <1>1, <1>2, <2>1, <2>2, <2>3, <2>4 DEF left, DoneAs
  <1>3. CASE left = {} /\ c.cmd \in {"adopt", "complete"}
    BY <1>3, IdleOK DEF Done, Idle, Ending, DoneAs
  <1>4. c.cmd \in Commands /\ (c.cmd = "complete" => left = {})
    <2>1. ASSUME c.cmd = "complete" PROVE left = {}
      <3>1. PICK i \in Ids : c.ids = {i}
        BY <2>1 DEF CallOK, Looking
      <3> QED
        BY <3>1, PickIn
    <2> QED
      BY <2>1 DEF Call
  <1>5. CASE left # {} /\ c.cmd \notin {"adopt", "complete"}
    <2>1. CASE c.cmd = "defer"
      BY <1>2, <1>5, <2>1 DEF Done, Steps
    <2>2. CASE c.cmd # "defer"
      BY <1>2, <1>5, <2>2 DEF Done, Steps
    <2> QED
      BY <2>1, <2>2
  <1>6. CASE left = {} /\ c.cmd \notin {"adopt", "complete"}
    <2>1. CASE c.cmd = "defer"
      <3>1. Done(c) = [c EXCEPT !.ids = left, !.pc = "settle"]
        BY <1>6, <2>1 DEF Done
      <3> QED
        BY <1>2, <1>6, <2>1, <3>1 DEF Steps
    <2>2. CASE c.cmd # "defer"
      <3>1. Done(c) = [c EXCEPT !.ids = left, !.pc = "engine"]
        BY <1>6, <2>2 DEF Done
      <3>2. c.cmd \in Ending
        BY <1>4, <1>6, <2>2 DEF Commands, Ending
      <3> QED
        BY <1>2, <1>6, <2>2, <3>1, <3>2 DEF Steps
    <2> QED
      BY <2>1, <2>2
  <1> QED
    BY <1>1, <1>3, <1>4, <1>5, <1>6

LEMMA LegacyCount ==
    /\ IsFiniteSet(LegacyTodos) /\ Cardinality(LegacyTodos) \in 0..MaxLegacy
  <1>1. IsFiniteSet(LegacyIds) /\ Cardinality(LegacyIds) = MaxLegacy
    BY Bounds, FS_Interval DEF LegacyIds
  <1>2. LegacyTodos \subseteq LegacyIds
    BY DEF LegacyTodos
  <1>3. IsFiniteSet(LegacyTodos) /\ Cardinality(LegacyTodos) <= MaxLegacy
    BY <1>1, <1>2, FS_Subset
  <1>4. Cardinality(LegacyTodos) \in Nat
    BY <1>3, FS_CardinalityType
  <1> QED
    BY <1>3, <1>4, Bounds

\* What a promotion does before it inserts.
LEMMA PromotesTo ==
    ASSUME TypeInv, NEW p \in Procs, Promotes(p) \/ Allocates(p)
    PROVE  \E d \in Call :
             /\ CallOK(d) /\ calls' = [calls EXCEPT ![p] = d]
             /\ d.pc \in {"idle", "adopt", "complete", "allocate", "insert"}
             /\ ~d.built /\ d.cmd \in {"adopt", "complete"} /\ calls[p].pc \in {"promote", "allocate"}
             /\ d.pc = "allocate" => d.seen = Cardinality(LegacyTodos) /\ \A i \in LegacyIds : ~Projected(i)
             /\ d.pc = "insert" => calls[p].pc = "allocate" /\ d.seen = calls[p].seen
             /\ UNCHANGED <<cycles, escalated, findings, todos, adoptions, ops, candidates, file, history>>
  <1> DEFINE c == calls[p]
  <1>0. c \in Call /\ CallOK(c) /\ c.ids \subseteq Ids /\ calls \in [Procs -> Call]
    BY CallAt DEF TypeInv, TypeOK
  <1>1. CASE Promotes(p)
    <2> DEFINE known == {i \in LegacyIds : Projected(i)}
    <2>1. /\ c.pc = "promote" /\ c.cmd \in {"adopt", "complete"} /\ ~c.built
          /\ UNCHANGED <<cycles, escalated, findings, todos, adoptions, ops, candidates, file, history>>
      BY <1>0, <1>1 DEF Promotes, At, CallOK, Looking, Holding
    <2>2. CASE calls' = [calls EXCEPT ![p] = Idle]
      BY <2>1, <2>2, IdleOK DEF Idle
    <2>3. CASE known # {} /\ calls' = [calls EXCEPT ![p] = [c EXCEPT !.ids = {Pick(known)}, !.pc = c.cmd]]
      <3> DEFINE d == [c EXCEPT !.ids = {Pick(known)}, !.pc = c.cmd]
      <3>1. Pick(known) \in Ids /\ todos[Pick(known)].status # "none"
        BY <2>3, PickIn, Bounds DEF Projected
      <3>2. d \in Call
        BY <1>0, <2>1, <3>1 DEF Call, Steps
      <3>3. CallOK(d)
        BY <1>0, <2>1, <3>1, <3>2 DEF CallOK, Looking, Opened, Holding, Call, Ending
      <3>4. d.pc = c.cmd /\ d.built = c.built /\ d.cmd = c.cmd
        BY <1>0, <2>1 DEF Call
      <3> HIDE DEF d
      <3> QED
        BY <2>1, <2>3, <3>2, <3>3, <3>4 DEF d
    <2>4. CASE known = {} /\ calls' = [calls EXCEPT ![p] = [c EXCEPT !.pc = "allocate",
                                                              !.seen = Cardinality(LegacyTodos)]]
      <3> DEFINE d == [c EXCEPT !.pc = "allocate", !.seen = Cardinality(LegacyTodos)]
      <3>1. d \in Call
        BY <1>0, LegacyCount DEF Call, Steps
      <3>2. CallOK(d)
        BY <1>0, <2>1, <3>1 DEF CallOK, Looking, Opened, Holding, Call, Ending
      <3>3. d.pc = "allocate" /\ d.built = c.built /\ d.cmd = c.cmd /\ d.seen = Cardinality(LegacyTodos)
        BY <1>0, <2>1 DEF Call
      <3> HIDE DEF d
      <3> QED
        BY <2>1, <2>4, <3>1, <3>2, <3>3 DEF d
    <2> QED
      BY <1>1, <2>2, <2>3, <2>4 DEF Promotes, Returns
  <1>2. CASE Allocates(p)
    <2> DEFINE d == [c EXCEPT !.pc = "insert", !.number = Cardinality(LegacyTodos) + 1]
    <2>1. /\ c.pc = "allocate" /\ c.cmd \in {"adopt", "complete"} /\ ~c.built
          /\ Cardinality(LegacyTodos) < MaxLegacy
          /\ UNCHANGED <<cycles, escalated, findings, todos, adoptions, ops, candidates, file, history>>
          /\ calls' = [calls EXCEPT ![p] = d]
      BY <1>0, <1>2 DEF Allocates, At, CallOK, Looking, Holding
    <2>2. Cardinality(LegacyTodos) + 1 \in LegacyIds /\ Cardinality(LegacyTodos) + 1 \in 1..(MaxLegacy + 1)
      BY <2>1, LegacyCount, Bounds DEF LegacyIds
    <2>3. d \in Call
      BY <1>0, <2>2 DEF Call, Steps
    <2>4. CallOK(d)
      BY <1>0, <2>1, <2>2, <2>3 DEF CallOK, Looking, Opened, Holding, Call, Ending
    <2>5. d.pc = "insert" /\ d.built = c.built /\ d.cmd = c.cmd /\ d.seen = c.seen
      BY <1>0, <2>1 DEF Call
    <2> HIDE DEF d
    <2> QED
      BY <2>1, <2>3, <2>4, <2>5
  <1> QED
    BY <1>1, <1>2

\* Where the operation says that it goes on.
LEMMA LoadsTo ==
    ASSUME TypeInv, NEW p \in Procs, Loads(p)
    PROVE  \E d \in Call :
             /\ CallOK(d) /\ calls' = [calls EXCEPT ![p] = d] /\ calls[p].pc = "load" /\ ~calls[p].built
             /\ LET c == calls[p]
                    status == ops[Key(c)].status
                IN  \/ status = "verified" /\ d = Done(c) /\ DoneAs(c, d)
                    \/ /\ ~d.built /\ d.cmd = c.cmd /\ d.ids = c.ids /\ d.given = c.given /\ Key(d) = Key(c)
                       /\ \/ status = "intent_persisted" /\ d.pc = "build"
                          \/ status = "candidate_ready" /\ d.pc = "install"
                          \/ status = "installed" /\ d.pc = "verify"
             /\ UNCHANGED <<cycles, escalated, findings, todos, adoptions, ops, candidates, file, history>>
  <1> DEFINE c == calls[p]
             status == ops[Key(c)].status
  <1>0. c \in Call /\ CallOK(c) /\ c.ids \subseteq Ids /\ calls \in [Procs -> Call]
    BY CallAt DEF TypeInv, TypeOK
  <1>1. /\ c.pc = "load" /\ ~c.built /\ Key(c) \in DOMAIN ops
        /\ UNCHANGED <<cycles, escalated, findings, todos, adoptions, ops, candidates, file, history>>
    BY <1>0 DEF Loads, At, CallOK, Opened, Holding
  <1>2. status \in {"intent_persisted", "candidate_ready", "installed", "verified"}
    BY <1>1 DEF TypeInv, TypeOK, Op
  <1>3. ASSUME NEW pc \in {"build", "install", "verify"},
               calls' = [calls EXCEPT ![p] = [c EXCEPT !.pc = pc]],
               \/ status = "intent_persisted" /\ pc = "build"
               \/ status = "candidate_ready" /\ pc = "install"
               \/ status = "installed" /\ pc = "verify"
        PROVE  \E d \in Call :
                 /\ CallOK(d) /\ calls' = [calls EXCEPT ![p] = d]
                 /\ ~d.built /\ d.cmd = c.cmd /\ d.ids = c.ids /\ d.given = c.given /\ Key(d) = Key(c) /\ d.pc = pc
    <2> DEFINE d == [c EXCEPT !.pc = pc]
    <2>1. d \in Call /\ d.pc = pc /\ d.ids = c.ids /\ d.cmd = c.cmd /\ d.given = c.given /\ d.cycle = c.cycle
          /\ d.built = c.built
      BY <1>0 DEF Call, Steps
    <2>2. Key(d) = Key(c)
      BY <2>1, KeySame
    <2>3. CallOK(d)
      BY <1>0, <1>1, <2>1, <2>2 DEF CallOK, Looking, Opened, Holding, Ending
    <2> HIDE DEF d
    <2> QED
      BY <1>1, <1>3, <2>1, <2>2, <2>3 DEF d
  <1>4. ASSUME status = "verified"
        PROVE  calls' = [calls EXCEPT ![p] = Done(c)] /\ DoneAs(c, Done(c))
    BY <1>0, <1>1, <1>4, DoneIs DEF Loads
  <1>5. CASE status = "verified"
    <2>1. Done(c) \in Call /\ CallOK(Done(c))
      BY <1>4, <1>5 DEF DoneAs
    <2> QED
      BY <1>1, <1>4, <1>5, <2>1
  <1>6. CASE status = "intent_persisted"
    <2>1. calls' = [calls EXCEPT ![p] = [c EXCEPT !.pc = "build"]]
      BY <1>6 DEF Loads
    <2> QED
      BY <1>1, <1>3, <1>6, <2>1
  <1>7. CASE status = "candidate_ready"
    <2>1. calls' = [calls EXCEPT ![p] = [c EXCEPT !.pc = "install"]]
      BY <1>7 DEF Loads
    <2> QED
      BY <1>1, <1>3, <1>7, <2>1
  <1>8. CASE status = "installed"
    <2>1. calls' = [calls EXCEPT ![p] = [c EXCEPT !.pc = "verify"]]
      BY <1>8 DEF Loads
    <2> QED
      BY <1>1, <1>3, <1>8, <2>1
  <1> QED
    BY <1>2, <1>5, <1>6, <1>7, <1>8

LEMMA FaultyOK ==
    ASSUME TypeInv, NEW S \in SUBSET Faults
    PROVE  /\ Faulty(S) \in [commands : 0..MaxCommands, deaths : 0..MaxDeaths, faults : SUBSET Faults]
           /\ Faulty(S).faults = history.faults \cup S /\ Faulty(S).deaths = history.deaths
  BY DEF TypeInv, TypeOK, Faulty

\* Only p moves, to d.
Moves(p, d) ==
    /\ calls' = [calls EXCEPT ![p] = d]
    /\ UNCHANGED <<cycles, escalated, findings, todos, adoptions, ops, candidates, file, history>>

\* A step of p that changes tables so that TypeInv still holds.
LEMMA ChangeOK ==
    ASSUME TypeInv, NEW p \in Procs, NEW d \in Call, CallOK(d),
           calls' = [calls EXCEPT ![p] = d],
           UNCHANGED <<cycles, escalated, file>>,
           findings' \in [Cycles -> [Findings -> FindingStatuses]],
           todos' \in [Ids -> Todo], TodoInv',
           \A i \in Ids : /\ todos[i].status # "none" => todos'[i].status # "none"
                          /\ todos[i].status = "resolved" => todos'[i].status = "resolved",
           adoptions' \in [Ids -> Seq([cycle : Cycles, status : {"adopted", "released", "resolved"}])],
           ops' = ops,
           DOMAIN candidates \subseteq DOMAIN candidates' /\ DOMAIN candidates' \subseteq Keys,
           \A k \in DOMAIN candidates' : candidates'[k] \in Content,
           history' \in [commands : 0..MaxCommands, deaths : 0..MaxDeaths, faults : SUBSET Faults]
    PROVE  TypeInv'
  <1>1. Grows
    BY DEF Grows, Active
  <1>2. TableOK' /\ CycleInv'
    BY DEF TypeInv, TypeOK, TableOK, CycleInv
  <1>3. OpInv'
    <2>1. \A k \in DOMAIN ops : k[3] \in Ids
      BY DEF TypeInv, TypeOK, Keys
    <2> QED
      BY <2>1 DEF TypeInv, OpInv
  <1>4. calls' \in [Procs -> Call] /\ calls'[p] = d /\ \A q \in Procs \ {p} : SameCall(calls'[q], calls[q])
    BY DEF TypeInv, TypeOK, SameCall
  <1>5. CallOK(d)'
    BY <1>1, CallGrows
  <1>6. CallOK(calls[p])'
    BY <1>4, <1>5 DEF CallOK
  <1> QED
    BY <1>1, <1>2, <1>3, <1>4, <1>6, StepOK

LEMMA InsertsTo ==
    ASSUME TypeInv, NEW p \in Procs, Inserts(p)
    PROVE  /\ TypeInv'
           /\ \/ Moves(p, Idle)
              \/ \E i \in LegacyIds, d \in Call :
                   /\ calls' = [calls EXCEPT ![p] = d] /\ calls[p].pc = "insert"
                   /\ d.pc \in {"adopt", "complete"} /\ d.cmd = d.pc /\ d.ids = {i} /\ ~d.built
                   /\ todos[i].status = "none"
                   /\ todos' = [todos EXCEPT ![i] = [NoTodo EXCEPT !.status = "pending"]]
                   /\ history'.faults = history.faults \cup
                        (IF Cardinality(LegacyTodos) # calls[p].seen THEN {"promoted"} ELSE {})
                   /\ UNCHANGED <<cycles, escalated, findings, adoptions, ops, candidates, file>>
  <1> DEFINE c == calls[p]
             i == c.number
             d == [c EXCEPT !.pc = c.cmd, !.ids = {i}, !.number = 1, !.seen = 0]
             S == IF Cardinality(LegacyTodos) # c.seen THEN {"promoted"} ELSE {}
  <1>0. c \in Call /\ CallOK(c) /\ c.ids \subseteq Ids /\ calls \in [Procs -> Call] /\ todos \in [Ids -> Todo]
    BY CallAt DEF TypeInv, TypeOK
  <1>1. /\ c.pc = "insert" /\ c.cmd \in {"adopt", "complete"} /\ ~c.built /\ i \in LegacyIds /\ i \in Ids
        /\ UNCHANGED <<cycles, escalated, findings, adoptions, ops, candidates, file>>
    BY <1>0, Bounds DEF Inserts, At, CallOK, Looking, Holding
  <1>2. CASE todos[i].status # "none"
    <2>1. Moves(p, Idle)
      BY <1>1, <1>2 DEF Inserts, Returns, Moves
    <2> QED
      BY <2>1, IdleOK, MoveOK DEF Moves
  <1>3. CASE todos[i].status = "none"
    <2>1. /\ calls' = [calls EXCEPT ![p] = d]
          /\ todos' = [todos EXCEPT ![i] = [NoTodo EXCEPT !.status = "pending"]]
          /\ history' = Faulty(S)
      BY <1>1, <1>3 DEF Inserts
    <2>2. S \in SUBSET Faults
      BY DEF Faults
    <2> HIDE DEF S
    <2>3. LET new == [NoTodo EXCEPT !.status = "pending"]
          IN  new \in Todo /\ new.status = "pending" /\ new.by = None /\ new.origin = None
      BY DEF NoTodo, Todo
    <2>4. todos' \in [Ids -> Todo] /\ TodoInv'
          /\ \A j \in Ids : /\ todos[j].status # "none" => todos'[j].status # "none"
                            /\ todos[j].status = "resolved" => todos'[j].status = "resolved"
      BY <1>0, <1>1, <1>3, <2>1, <2>3 DEF TypeInv, TodoInv, Todo
    <2>5. d \in Call /\ d.pc = c.cmd /\ d.cmd = c.cmd /\ d.ids = {i} /\ d.built = c.built
      <3>1. 1 \in 1..(MaxLegacy + 1) /\ 0 \in 0..MaxLegacy
        BY Bounds
      <3> QED
        BY <1>0, <1>1, <3>1 DEF Call, Steps
    <2>6. Grows
      BY <1>1, <2>4 DEF Grows, Active
    <2>7. TableOK' /\ CycleInv' /\ OpInv'
      <3>1. \A k \in DOMAIN ops : k[3] \in Ids
        BY DEF TypeInv, TypeOK, Keys
      <3> QED
        BY <1>1, <2>1, <2>2, <2>4, <3>1, FaultyOK DEF TypeInv, TypeOK, TableOK, CycleInv, OpInv
    <2>8. calls' \in [Procs -> Call] /\ calls'[p] = d /\ \A q \in Procs \ {p} : SameCall(calls'[q], calls[q])
      BY <1>0, <2>1, <2>5 DEF SameCall
    <2>9. CallOK(calls[p])'
      <3>1. d.cycle = c.cycle /\ todos'[i].status # "none"
        BY <1>0, <1>1, <2>1, <2>3
      <3> HIDE DEF d
      <3> QED
        BY <1>0, <1>1, <2>5, <2>8, <3>1 DEF CallOK, Looking, Opened, Holding, Ending, Active
    <2>10. TypeInv'
      BY <2>4, <2>6, <2>7, <2>8, <2>9, StepOK
    <2> HIDE DEF d
    <2> QED
      BY <1>1, <1>3, <2>1, <2>2, <2>5, <2>10, FaultyOK DEF S
  <1> QED
    BY <1>2, <1>3

LEMMA AppendedOK ==
    ASSUME TypeInv, NEW S \in SUBSET Ids, NEW c \in Cycles, NEW status \in {"adopted", "released", "resolved"}
    PROVE  Appended(S, c, status) \in [Ids -> Seq([cycle : Cycles, status : {"adopted", "released", "resolved"}])]
  <1> DEFINE E == [cycle : Cycles, status : {"adopted", "released", "resolved"}]
  <1>1. [cycle |-> c, status |-> status] \in E
    OBVIOUS
  <1>2. \A i \in Ids : adoptions[i] \in Seq(E)
    BY DEF TypeInv, TypeOK
  <1> HIDE DEF E
  <1>3. \A i \in Ids : Append(adoptions[i], [cycle |-> c, status |-> status]) \in Seq(E)
    BY <1>1, <1>2
  <1> QED
    BY <1>2, <1>3 DEF Appended, E

\* p goes on to the operations of the ToDos it changed.
LEMMA UpsertNext ==
    ASSUME TypeInv, NEW p \in Procs, calls[p].pc \in {"adopt", "release", "resolve"}, Goes(p, "upsert")
    PROVE  \E d \in Call : /\ CallOK(d) /\ calls' = [calls EXCEPT ![p] = d]
                           /\ d.pc = "upsert" /\ ~d.built /\ d.cmd = calls[p].cmd
                           /\ d.cmd \in {"adopt"} \cup Ending /\ d.given = calls[p].given /\ d.ids = calls[p].ids
  <1> DEFINE c == calls[p]
             d == [c EXCEPT !.pc = "upsert"]
  <1>0. c \in Call /\ CallOK(c) /\ calls \in [Procs -> Call]
    BY CallAt DEF TypeInv, TypeOK
  <1>1. ~c.built /\ c.ids # {} /\ c.cmd \in {"adopt"} \cup Ending
    BY <1>0 DEF CallOK, Holding
  <1>2. d \in Call /\ d.pc = "upsert" /\ d.ids = c.ids /\ d.cmd = c.cmd /\ d.given = c.given
        /\ d.built = c.built
    BY <1>0 DEF Call, Steps
  <1>3. CallOK(d)
    BY <1>0, <1>1 DEF CallOK, Looking, Opened, Holding, Ending
  <1>4. calls' = [calls EXCEPT ![p] = d]
    BY <1>0 DEF Goes
  <1> HIDE DEF d
  <1> QED
    BY <1>1, <1>2, <1>3, <1>4

LEMMA AdoptsTo ==
    ASSUME TypeInv, NEW p \in Procs, Adopts(p)
    PROVE  /\ TypeInv'
           /\ \/ Moves(p, Idle) /\ todos[Pick(calls[p].ids)].status # "pending" /\ calls[p].pc = "adopt"
              \/ \E i \in Ids, d \in Call :
                   /\ calls' = [calls EXCEPT ![p] = d] /\ calls[p].pc = "adopt" /\ calls[p].cycle \in Cycles
                   /\ d.pc = "upsert" /\ d.cmd = "adopt" /\ ~d.built
                   /\ todos[i].status = "pending" /\ cycles[calls[p].cycle] # "none"
                   /\ todos' = [todos EXCEPT ![i] = [todos[i] EXCEPT !.status = "adopted", !.by = calls[p].cycle]]
                   /\ adoptions' = Appended({i}, calls[p].cycle, "adopted")
                   /\ history'.faults = history.faults \cup
                        (IF \/ \E q \in Procs \ {p} : calls[q].pc # "idle" /\ calls[q].cmd \notin {"adopt", "complete"}
                            \/ calls[p].cycle \notin Active
                         THEN {"crossed"} ELSE {})
                   /\ UNCHANGED <<cycles, escalated, findings, ops, candidates, file>>
  <1> DEFINE c == calls[p]
             i == Pick(c.ids)
             ending == {q \in Others(p) : q.pc # "idle" /\ q.cmd \notin {"adopt", "complete"}}
             S == IF ending # {} \/ c.cycle \notin Active THEN {"crossed"} ELSE {}
  <1>0. c \in Call /\ CallOK(c) /\ c.ids \subseteq Ids /\ calls \in [Procs -> Call] /\ todos \in [Ids -> Todo]
    BY CallAt DEF TypeInv, TypeOK
  <1>1. /\ c.pc = "adopt" /\ c.cmd = "adopt" /\ c.ids # {} /\ i \in Ids
        /\ c.cycle \in Cycles /\ cycles[c.cycle] # "none"
        /\ UNCHANGED <<cycles, escalated, findings, ops, candidates, file>>
    BY <1>0, PickIn DEF Adopts, At, CallOK
  <1>2. CASE todos[i].status # "pending"
    <2>1. Moves(p, Idle)
      BY <1>1, <1>2 DEF Adopts, Returns, Moves
    <2> QED
      BY <1>1, <1>2, <2>1, IdleOK, MoveOK DEF Moves
  <1>3. CASE todos[i].status = "pending"
    <2>1. /\ todos' = [todos EXCEPT ![i] = [todos[i] EXCEPT !.status = "adopted", !.by = c.cycle]]
          /\ adoptions' = Appended({i}, c.cycle, "adopted")
          /\ Goes(p, "upsert")
          /\ history' = Faulty(S)
      BY <1>0, <1>1, <1>3 DEF Adopts
    <2>2. S \in SUBSET Faults
      BY DEF Faults
    <2>3. ending # {} <=> \E q \in Procs \ {p} : calls[q].pc # "idle" /\ calls[q].cmd \notin {"adopt", "complete"}
      BY DEF Others
    <2> HIDE DEF ending
    <2>4. history'.faults = history.faults \cup
                        (IF \/ \E q \in Procs \ {p} : calls[q].pc # "idle" /\ calls[q].cmd \notin {"adopt", "complete"}
                            \/ c.cycle \notin Active
                         THEN {"crossed"} ELSE {})
      BY <2>1, <2>2, <2>3, FaultyOK
    <2>5. history' \in [commands : 0..MaxCommands, deaths : 0..MaxDeaths, faults : SUBSET Faults]
      BY <2>1, <2>2, FaultyOK
    <2> HIDE DEF S, i
    <2>6. todos' \in [Ids -> Todo] /\ TodoInv'
          /\ \A j \in Ids : /\ todos[j].status # "none" => todos'[j].status # "none"
                            /\ todos[j].status = "resolved" => todos'[j].status = "resolved"
      BY <1>0, <1>1, <1>3, <2>1 DEF TypeInv, TodoInv, Todo
    <2>7. adoptions' \in [Ids -> Seq([cycle : Cycles, status : {"adopted", "released", "resolved"}])]
      BY <1>1, <2>1, AppendedOK
    <2>8. PICK d \in Call : /\ CallOK(d) /\ calls' = [calls EXCEPT ![p] = d]
                            /\ d.pc = "upsert" /\ ~d.built /\ d.cmd = c.cmd
      BY <1>1, <2>1, UpsertNext
    <2>9. TypeInv'
      <3>1. /\ findings' \in [Cycles -> [Findings -> FindingStatuses]]
            /\ DOMAIN candidates \subseteq DOMAIN candidates' /\ DOMAIN candidates' \subseteq Keys
            /\ \A k \in DOMAIN candidates' : candidates'[k] \in Content
        BY <1>1 DEF TypeInv, TypeOK
      <3> QED
        BY <1>1, <2>5, <2>6, <2>7, <2>8, <3>1, ChangeOK
    <2> QED
      BY <1>1, <1>3, <2>1, <2>4, <2>8, <2>9
  <1> QED
    BY <1>2, <1>3

LEMMA ReleasesTo ==
    ASSUME TypeInv, NEW p \in Procs, Releases(p)
    PROVE  /\ TypeInv'
           /\ \/ Moves(p, Idle)
              \/ \E c \in Cycles, status \in {"released", "resolved"}, d \in Call :
                   /\ calls' = [calls EXCEPT ![p] = d] /\ calls[p].pc \in {"release", "resolve"}
                   /\ Active = {c} /\ d.pc = "upsert" /\ d.cmd \in Ending /\ ~d.built
                   /\ todos' = [i \in Ids |->
                        IF i \in AdoptedBy(c)
                        THEN [todos[i] EXCEPT !.by = None,
                                !.status = IF status = "released" THEN "pending" ELSE "resolved"]
                        ELSE todos[i]]
                   /\ adoptions' = Appended(AdoptedBy(c), c, status)
                   /\ UNCHANGED <<cycles, escalated, findings, ops, candidates, file, history>>
  <1> DEFINE c == Pick(Active)
             status == IF calls[p].pc = "release" THEN "released" ELSE "resolved"
  <1>0. calls \in [Procs -> Call] /\ todos \in [Ids -> Todo] /\ CallOK(calls[p])
    BY CallAt DEF TypeInv, TypeOK
  <1>1. /\ calls[p].pc \in {"release", "resolve"} /\ calls[p].cmd \in Ending
        /\ UNCHANGED <<cycles, escalated, findings, ops, candidates, file, history>>
    BY <1>0 DEF Releases, At, CallOK
  <1>2. CASE Active = {}
    <2>1. Moves(p, Idle)
      BY <1>1, <1>2 DEF Releases, Returns, Moves
    <2> QED
      BY <2>1, IdleOK, MoveOK DEF Moves
  <1>3. CASE Active # {}
    <2>1. c \in Cycles /\ Active = {c}
      BY <1>3, OneActive DEF TypeInv
    <2>2. /\ todos' = [i \in Ids |->
               IF i \in AdoptedBy(c)
               THEN [todos[i] EXCEPT !.by = None,
                       !.status = IF status = "released" THEN "pending" ELSE "resolved"]
               ELSE todos[i]]
          /\ adoptions' = Appended(AdoptedBy(c), c, status)
          /\ Goes(p, "upsert")
      BY <1>1, <1>3 DEF Releases, At
    <2>3. status \in {"released", "resolved"} /\ AdoptedBy(c) \subseteq Ids
      BY DEF AdoptedBy
    <2> HIDE DEF c, status
    <2>4. todos' \in [Ids -> Todo] /\ TodoInv'
          /\ \A j \in Ids : /\ todos[j].status # "none" => todos'[j].status # "none"
                            /\ todos[j].status = "resolved" => todos'[j].status = "resolved"
      BY <1>0, <1>1, <2>2 DEF TypeInv, TodoInv, Todo, AdoptedBy
    <2>5. adoptions' \in [Ids -> Seq([cycle : Cycles, status : {"adopted", "released", "resolved"}])]
      BY <2>1, <2>2, <2>3, AppendedOK
    <2>6. PICK d \in Call : /\ CallOK(d) /\ calls' = [calls EXCEPT ![p] = d]
                            /\ d.pc = "upsert" /\ ~d.built /\ d.cmd = calls[p].cmd
      BY <1>1, <2>2, UpsertNext
    <2>7. TypeInv'
      <3>1. /\ findings' \in [Cycles -> [Findings -> FindingStatuses]]
            /\ DOMAIN candidates \subseteq DOMAIN candidates' /\ DOMAIN candidates' \subseteq Keys
            /\ \A k \in DOMAIN candidates' : candidates'[k] \in Content
            /\ history' \in [commands : 0..MaxCommands, deaths : 0..MaxDeaths, faults : SUBSET Faults]
        BY <1>1 DEF TypeInv, TypeOK
      <3> QED
        BY <1>1, <2>4, <2>5, <2>6, <3>1, ChangeOK
    <2> QED
      BY <1>1, <2>1, <2>2, <2>3, <2>6, <2>7
  <1> QED
    BY <1>2, <1>3

LEMMA LoadFits ==
    ASSUME NEW c \in Call, NEW d \in Call, CallOK(c), c.pc \in {"complete", "defer", "upsert"},
           d.pc = "load", d.cmd = c.cmd, d.cycle = c.cycle, d.ids = c.ids, d.given = c.given, ~d.built,
           Grows, Key(d) \in DOMAIN ops'
    PROVE  CallOK(d)'
  <1>1. c.ids \subseteq Ids /\ c.cycle \in Cycles \cup {None} /\ c.ids # {}
    BY DEF CallOK, Call
  <1> QED
    BY <1>1 DEF CallOK, Looking, Opened, Holding, Ending, Grows, Key

\* p goes on with an operation that exists.
LEMMA LoadNext ==
    ASSUME TypeInv, NEW p \in Procs, calls[p].pc \in {"complete", "defer", "upsert"}, Goes(p, "load")
    PROVE  \E d \in Call :
             /\ calls' = [calls EXCEPT ![p] = d]
             /\ d.pc = "load" /\ ~d.built /\ d.cmd = calls[p].cmd /\ Key(d) = Key(calls[p])
             /\ d.given = calls[p].given /\ d.ids = calls[p].ids
             /\ Grows /\ Key(d) \in DOMAIN ops' => CallOK(d)'
  <1> DEFINE c == calls[p]
  <1>0. c \in Call /\ CallOK(c) /\ calls \in [Procs -> Call] /\ c.ids \subseteq Ids
    BY CallAt DEF TypeInv, TypeOK
  <1>1. ~c.built /\ c.ids # {} /\ c.cycle \in Cycles \cup {None}
    BY <1>0 DEF CallOK, Holding, Call
  <1>2. [c EXCEPT !.pc = "load"] \in Call
    BY <1>0 DEF Call, Steps
  <1>3. PICK d \in Call : d = [c EXCEPT !.pc = "load"]
    BY <1>2
  <1>4. d.pc = "load" /\ d.ids = c.ids /\ d.cmd = c.cmd /\ d.given = c.given
        /\ d.built = c.built /\ d.cycle = c.cycle
    BY <1>0, <1>3 DEF Call, Steps
  <1>5. Key(d) = Key(c)
    BY <1>4, KeySame
  <1>6. Grows /\ Key(d) \in DOMAIN ops' => CallOK(d)'
    BY <1>0, <1>1, <1>4, LoadFits
  <1>7. calls' = [calls EXCEPT ![p] = d]
    BY <1>0, <1>3 DEF Goes
  <1> QED
    BY <1>1, <1>4, <1>5, <1>6, <1>7

\* A step of p that enters or restarts an operation.
LEMMA EntersOK ==
    ASSUME TypeInv, NEW p \in Procs, NEW d \in Call, calls' = [calls EXCEPT ![p] = d],
           Grows => CallOK(d)',
           UNCHANGED <<cycles, escalated, file, candidates, adoptions>>,
           findings' \in [Cycles -> [Findings -> FindingStatuses]],
           todos' \in [Ids -> Todo], TodoInv',
           \A i \in Ids : todos[i].status # "none" => todos'[i].status # "none",
           DOMAIN ops \subseteq DOMAIN ops', DOMAIN ops' \subseteq Keys,
           \A k \in DOMAIN ops' : ops'[k] \in Op, OpInv',
           history' \in [commands : 0..MaxCommands, deaths : 0..MaxDeaths, faults : SUBSET Faults]
    PROVE  TypeInv'
  <1>1. Grows
    BY DEF Grows, Active
  <1>2. TableOK' /\ CycleInv'
    BY DEF TypeInv, TypeOK, TableOK, CycleInv
  <1>3. calls' \in [Procs -> Call] /\ calls'[p] = d /\ \A q \in Procs \ {p} : SameCall(calls'[q], calls[q])
    BY DEF TypeInv, TypeOK, SameCall
  <1>4. CallOK(d)'
    BY <1>1
  <1>5. CallOK(calls[p])'
    BY <1>3, <1>4 DEF CallOK
  <1> QED
    BY <1>1, <1>2, <1>3, <1>5, StepOK

LEMMA IntentOK ==
    /\ [status |-> "intent_persisted", sha |-> Empty] \in Op
    /\ \A o \in Op : [o EXCEPT !.status = "intent_persisted"] \in Op
  BY DEF Op, Empty, Content

LEMMA CompletesTo ==
    ASSUME TypeInv, NEW p \in Procs, Completes(p)
    PROVE  LET i == Pick(calls[p].ids)
               k == Key(calls[p])
           IN
           /\ TypeInv' /\ calls[p].pc = "complete" /\ i \in Ids /\ k \in Keys
           /\ UNCHANGED <<cycles, escalated, findings, adoptions, candidates, file, history>>
           /\ \/ Moves(p, Idle) /\ todos[i].status # "pending"
              \/ \E d \in Call :
                   /\ calls' = [calls EXCEPT ![p] = d] /\ d.pc = "load" /\ d.cmd = "complete" /\ ~d.built
                   /\ Key(d) = k /\ DOMAIN ops' = DOMAIN ops \cup {k}
                   /\ \A j \in DOMAIN ops : j # k => ops'[j] = ops[j]
                   /\ k \in DOMAIN ops => todos[i].status = "resolved"
                   /\ k[1] = "complete"
                   /\ \/ k \in DOMAIN ops /\ UNCHANGED <<todos, ops>>
                      \/ /\ ops'[k].status = "intent_persisted"
                         /\ todos[i].status \in {"pending", "resolved"}
                         /\ todos' = [todos EXCEPT ![i] = [todos[i] EXCEPT !.status = "resolved", !.noted = TRUE]]
  <1> DEFINE c == calls[p]
             i == Pick(c.ids)
             k == Key(c)
             verified == k \in DOMAIN ops /\ ops[k].status = "verified"
             conflict == todos[i].status = "resolved" /\ ~todos[i].noted
  <1>0. c \in Call /\ CallOK(c) /\ calls \in [Procs -> Call] /\ todos \in [Ids -> Todo]
    BY CallAt DEF TypeInv, TypeOK
  <1>1. /\ c.pc = "complete" /\ c.cmd = "complete" /\ c.ids # {}
        /\ UNCHANGED <<cycles, escalated, findings, adoptions, candidates, file, history>>
    BY <1>0 DEF Completes, At, CallOK
  <1>2. i \in c.ids /\ i \in Ids /\ k \in Keys /\ k[1] = "complete" /\ k[3] = i /\ todos[i].status # "none"
    BY <1>0, <1>1, KeyOf DEF CallOK
  <1>3. k \in DOMAIN ops => todos[i].status = "resolved"
    BY <1>2 DEF TypeInv, OpInv
  <1>4. CASE conflict \/ (~verified /\ todos[i].status = "adopted")
    <2>1. Moves(p, Idle) /\ todos[i].status # "pending"
      BY <1>1, <1>4 DEF Completes, Returns, Moves
    <2> QED
      BY <1>1, <1>2, <2>1, IdleOK, MoveOK DEF Moves
  <1>5. ASSUME ~(conflict \/ (~verified /\ todos[i].status = "adopted")), verified
        PROVE  TypeInv' /\ UNCHANGED <<todos, ops>> /\ Goes(p, "load") /\ k \in DOMAIN ops
    <2>1. UNCHANGED <<todos, ops>> /\ Goes(p, "load") /\ k \in DOMAIN ops
      BY <1>1, <1>5 DEF Completes
    <2>2. PICK d \in Call :
             /\ calls' = [calls EXCEPT ![p] = d] /\ Key(d) = k
             /\ Grows /\ Key(d) \in DOMAIN ops' => CallOK(d)'
      BY <1>1, <2>1, LoadNext
    <2>3. /\ findings' \in [Cycles -> [Findings -> FindingStatuses]]
          /\ todos' \in [Ids -> Todo] /\ TodoInv' /\ DOMAIN ops' \subseteq Keys
          /\ (\A j \in DOMAIN ops' : ops'[j] \in Op) /\ OpInv'
          /\ history' \in [commands : 0..MaxCommands, deaths : 0..MaxDeaths, faults : SUBSET Faults]
      BY <1>1, <2>1 DEF TypeInv, TypeOK, TodoInv, OpInv
    <2>4. TypeInv'
      BY <1>1, <2>1, <2>2, <2>3, EntersOK
    <2> QED
      BY <2>1, <2>4
  <1>6. ASSUME ~(conflict \/ (~verified /\ todos[i].status = "adopted")), ~verified
        PROVE  /\ TypeInv' /\ Goes(p, "load") /\ DOMAIN ops' = DOMAIN ops \cup {k}
               /\ \A j \in DOMAIN ops : j # k => ops'[j] = ops[j]
               /\ ops'[k].status = "intent_persisted"
               /\ todos[i].status \in {"pending", "resolved"}
               /\ todos' = [todos EXCEPT ![i] = [todos[i] EXCEPT !.status = "resolved", !.noted = TRUE]]
    <2>1. /\ todos' = [todos EXCEPT ![i] = [todos[i] EXCEPT !.status = "resolved", !.noted = TRUE]]
          /\ ops' = [Intended(k) EXCEPT ![k].status = "intent_persisted"]
          /\ Goes(p, "load")
      BY <1>0, <1>1, <1>2, <1>6 DEF Completes
    <2>2. todos[i].status \in {"pending", "resolved"}
      BY <1>0, <1>2, <1>6 DEF Todo
    <2>3. \A j \in DOMAIN ops : ops[j] \in Op /\ j \in Keys
      BY DEF TypeInv, TypeOK
    <2>4. /\ DOMAIN ops' = DOMAIN ops \cup {k}
          /\ \A j \in DOMAIN ops : j # k => ops'[j] = ops[j]
          /\ ops'[k].status = "intent_persisted" /\ ops'[k] \in Op
      <3>1. Intended(k)[k] \in Op /\ k \in DOMAIN Intended(k)
        BY <2>3, IntentOK, IntendedOf
      <3>2. ops'[k] = [Intended(k)[k] EXCEPT !.status = "intent_persisted"]
        BY <2>1, <3>1
      <3>3. ops'[k].status = "intent_persisted" /\ ops'[k] \in Op
        BY <3>1, <3>2 DEF Op
      <3> QED
        BY <2>1, <3>3, IntendedOf
    <2>5. /\ todos' \in [Ids -> Todo] /\ TodoInv'
          /\ \A j \in Ids : /\ todos[j].status # "none" => todos'[j].status # "none"
                            /\ todos[j].status = "resolved" => todos'[j].status = "resolved"
          /\ todos'[i].status = "resolved"
      BY <1>0, <1>1, <1>2, <2>1, <2>2 DEF TypeInv, TodoInv, Todo
    <2>6. OpInv'
      <3>1. \A j \in DOMAIN ops : j[3] \in Ids
        BY <2>3 DEF Keys
      <3> QED
        BY <1>2, <2>4, <2>5, <3>1 DEF TypeInv, OpInv
    <2>7. PICK d \in Call :
             /\ calls' = [calls EXCEPT ![p] = d] /\ Key(d) = k
             /\ Grows /\ Key(d) \in DOMAIN ops' => CallOK(d)'
      BY <1>1, <2>1, LoadNext
    <2>8. TypeInv'
      <3>1. /\ findings' \in [Cycles -> [Findings -> FindingStatuses]]
            /\ DOMAIN ops' \subseteq Keys /\ \A j \in DOMAIN ops' : ops'[j] \in Op
            /\ history' \in [commands : 0..MaxCommands, deaths : 0..MaxDeaths, faults : SUBSET Faults]
        BY <1>1, <1>2, <2>3, <2>4 DEF TypeInv, TypeOK
      <3>2. k \in DOMAIN ops' /\ DOMAIN ops \subseteq DOMAIN ops'
        BY <2>4
      <3> HIDE DEF k, i
      <3> QED
        BY <1>1, <2>5, <2>6, <2>7, <3>1, <3>2, EntersOK
    <2> QED
      BY <2>1, <2>2, <2>4, <2>8
  <1>7. ASSUME Goes(p, "load")
        PROVE  \E d \in Call : /\ calls' = [calls EXCEPT ![p] = d]
                               /\ d.pc = "load" /\ ~d.built /\ d.cmd = "complete" /\ Key(d) = k
    BY <1>1, <1>7, LoadNext
  <1> HIDE DEF verified, conflict, i, k
  <1>8. CASE verified /\ ~(conflict \/ (~verified /\ todos[i].status = "adopted"))
    <2>1. TypeInv' /\ UNCHANGED <<todos, ops>> /\ Goes(p, "load") /\ k \in DOMAIN ops
      BY <1>5, <1>8
    <2>2. DOMAIN ops' = DOMAIN ops \cup {k}
      BY <2>1
    <2> QED
      BY <1>1, <1>2, <1>3, <1>7, <2>1, <2>2 DEF i, k
  <1>9. CASE ~verified /\ ~(conflict \/ (~verified /\ todos[i].status = "adopted"))
    BY <1>1, <1>2, <1>3, <1>6, <1>7, <1>9 DEF i, k
  <1> QED
    BY <1>4, <1>8, <1>9

LEMMA IntendedOK ==
    ASSUME TypeInv, NEW k \in Keys
    PROVE  /\ DOMAIN ops \subseteq DOMAIN Intended(k) /\ DOMAIN Intended(k) \subseteq Keys
           /\ \A j \in DOMAIN Intended(k) : Intended(k)[j] \in Op
           /\ k \in DOMAIN Intended(k)
           /\ \A j \in DOMAIN Intended(k) : j # k => j \in DOMAIN ops
  <1>1. DOMAIN ops \subseteq Keys /\ \A j \in DOMAIN ops : ops[j] \in Op
    BY DEF TypeInv, TypeOK
  <1>2. DOMAIN Intended(k) = DOMAIN ops \cup {k}
    BY IntendedOf
  <1>3. Intended(k)[k] \in Op
    BY <1>1, IntendedOf, IntentOK
  <1>4. \A j \in DOMAIN ops : Intended(k)[j] \in Op
    BY <1>1, IntendedOf
  <1> QED
    BY <1>1, <1>2, <1>3, <1>4

LEMMA DefersTo ==
    ASSUME TypeInv, NEW p \in Procs, Defers(p)
    PROVE  LET f == Pick(calls[p].ids)
               k == Key(calls[p])
           IN
           /\ TypeInv' /\ calls[p].pc = "defer" /\ f \in Findings /\ f \in calls[p].ids
           /\ k \in Keys /\ k[1] = "defer" /\ k[3] = f
           /\ UNCHANGED <<cycles, escalated, adoptions, candidates, file, history>>
           /\ \/ Moves(p, Idle)
              \/ \E d \in Call :
                   /\ calls' = [calls EXCEPT ![p] = d] /\ d.pc = "load" /\ d.cmd = "defer" /\ ~d.built
                   /\ Key(d) = k /\ d.given = calls[p].given /\ d.ids = calls[p].ids
                   /\ ops' = Intended(k) /\ (k \in DOMAIN ops => todos[f].status # "none")
                   /\ \/ UNCHANGED <<findings, todos>> /\ k \in DOMAIN ops
                      \/ \E a \in Cycles :
                           /\ Active = {a}
                           /\ findings' = [findings EXCEPT ![a][f] = "deferred_todo"]
                           /\ \/ todos[f].status # "none" /\ todos' = todos
                              \/ /\ todos[f].status = "none"
                                 /\ todos' = [todos EXCEPT ![f] =
                                                [NoTodo EXCEPT !.status = "pending", !.origin = a]]
  <1> DEFINE c == calls[p]
             f == Pick(c.ids)
             a == Pick(Active)
             k == Key(c)
             verified == k \in DOMAIN ops /\ ops[k].status = "verified"
  <1>0. c \in Call /\ CallOK(c) /\ calls \in [Procs -> Call] /\ todos \in [Ids -> Todo]
    BY CallAt DEF TypeInv, TypeOK
  <1>1. /\ c.pc = "defer" /\ c.cmd = "defer" /\ c.ids # {} /\ Active \subseteq {c.cycle}
        /\ UNCHANGED <<cycles, escalated, adoptions, candidates, file, history>>
    BY <1>0 DEF Defers, At, CallOK
  <1>2. f \in c.ids /\ f \in Ids /\ f \in Findings /\ k \in Keys /\ k[1] = "defer" /\ k[3] = f
    BY <1>0, <1>1, KeyOf DEF CallOK
  <1>3. k \in DOMAIN ops => todos[f].status # "none"
    BY <1>2 DEF TypeInv, OpInv
  <1>4. ASSUME Goes(p, "load")
        PROVE  \E d \in Call :
                 /\ calls' = [calls EXCEPT ![p] = d] /\ d.pc = "load" /\ d.cmd = "defer" /\ ~d.built
                 /\ Key(d) = k /\ d.given = c.given /\ d.ids = c.ids
                 /\ Grows /\ Key(d) \in DOMAIN ops' => CallOK(d)'
    BY <1>1, <1>4, LoadNext
  <1>5. CASE verified
    <2>1. UNCHANGED <<findings, todos, ops>> /\ Goes(p, "load") /\ k \in DOMAIN ops
      BY <1>1, <1>5 DEF Defers
    <2>2. ops' = Intended(k)
      BY <2>1, IntendedOf
    <2>3. /\ findings' \in [Cycles -> [Findings -> FindingStatuses]]
          /\ todos' \in [Ids -> Todo] /\ TodoInv' /\ DOMAIN ops' \subseteq Keys
          /\ (\A j \in DOMAIN ops' : ops'[j] \in Op) /\ OpInv'
          /\ history' \in [commands : 0..MaxCommands, deaths : 0..MaxDeaths, faults : SUBSET Faults]
      BY <1>1, <2>1 DEF TypeInv, TypeOK, TodoInv, OpInv
    <2>4. TypeInv'
      <3> HIDE DEF k, verified
      <3>1. PICK d \in Call :
              /\ calls' = [calls EXCEPT ![p] = d] /\ Key(d) = k
              /\ Grows /\ Key(d) \in DOMAIN ops' => CallOK(d)'
        BY <1>4, <2>1
      <3> QED
        BY <1>1, <2>1, <2>3, <3>1, EntersOK
    <2> HIDE DEF k, f, verified
    <2> QED
      BY <1>1, <1>2, <1>3, <1>4, <2>1, <2>2, <2>4 DEF k, f
  <1>6. CASE ~verified /\ (Active = {} \/ findings[a][f] \notin Actionable \cup {"deferred_todo"})
    <2>1. Moves(p, Idle)
      BY <1>1, <1>6 DEF Defers, Returns, Moves
    <2> QED
      BY <1>1, <1>2, <2>1, IdleOK, MoveOK DEF Moves
  <1>7. CASE ~verified /\ ~(Active = {} \/ findings[a][f] \notin Actionable \cup {"deferred_todo"})
    <2>1. a \in Cycles /\ Active = {a} /\ a = c.cycle /\ cycles[a] # "none" /\ a # None
      BY <1>1, <1>7, OneActive, Bounds DEF TypeInv, Active
    <2>2. /\ findings' = [findings EXCEPT ![a][f] = "deferred_todo"]
          /\ todos' = IF todos[f].status # "none" THEN todos
                      ELSE [todos EXCEPT ![f] = [NoTodo EXCEPT !.status = "pending", !.origin = c.cycle]]
          /\ ops' = Intended(k)
          /\ Goes(p, "load")
      BY <1>1, <1>7 DEF Defers
    <2> HIDE DEF a, k, f, verified
    <2>3. /\ \/ todos[f].status # "none" /\ todos' = todos
             \/ /\ todos[f].status = "none"
                /\ todos' = [todos EXCEPT ![f] = [NoTodo EXCEPT !.status = "pending", !.origin = a]]
      BY <2>1, <2>2
    <2>4. /\ todos' \in [Ids -> Todo] /\ TodoInv'
          /\ \A j \in Ids : /\ todos[j].status # "none" => todos'[j].status # "none"
                            /\ todos[j].status = "resolved" => todos'[j].status = "resolved"
          /\ todos'[f].status # "none"
      <3>1. LET new == [NoTodo EXCEPT !.status = "pending", !.origin = a]
            IN  new \in Todo /\ new.status = "pending" /\ new.by = None /\ new.origin = a
        BY <2>1 DEF NoTodo, Todo
      <3>2. cycles' = cycles
        BY <1>1
      <3>3. CASE todos[f].status # "none"
        BY <2>3, <3>2, <3>3, <1>0 DEF TypeInv, TodoInv
      <3>4. CASE todos[f].status = "none"
        BY <1>0, <1>2, <2>1, <2>3, <3>1, <3>2, <3>4 DEF TypeInv, TodoInv
      <3> QED
        BY <3>3, <3>4
    <2>5. findings' \in [Cycles -> [Findings -> FindingStatuses]]
      BY <1>2, <2>1, <2>2 DEF TypeInv, TypeOK, FindingStatuses
    <2>6. OpInv'
      <3>1. \A j \in DOMAIN ops : j[3] \in Ids
        BY DEF TypeInv, TypeOK, Keys
      <3>2. \A j \in DOMAIN ops' : j # k => j \in DOMAIN ops
        BY <1>2, <2>2, IntendedOK
      <3> QED
        BY <1>2, <2>4, <3>1, <3>2 DEF TypeInv, OpInv
    <2>7. TypeInv'
      <3>1. PICK d \in Call :
              /\ calls' = [calls EXCEPT ![p] = d] /\ Key(d) = k
              /\ Grows /\ Key(d) \in DOMAIN ops' => CallOK(d)'
        BY <1>4, <2>2
      <3>2. k \in DOMAIN ops' /\ DOMAIN ops \subseteq DOMAIN ops' /\ DOMAIN ops' \subseteq Keys
            /\ \A j \in DOMAIN ops' : ops'[j] \in Op
        BY <1>2, <2>2, IntendedOf, IntendedOK
      <3>3. history' \in [commands : 0..MaxCommands, deaths : 0..MaxDeaths, faults : SUBSET Faults]
        BY <1>1 DEF TypeInv, TypeOK
      <3> QED
        BY <1>1, <2>4, <2>5, <2>6, <3>1, <3>2, <3>3, EntersOK
    <2> QED
      BY <1>1, <1>2, <1>3, <1>4, <2>1, <2>2, <2>3, <2>7 DEF k, f
  <1> QED
    BY <1>5, <1>6, <1>7

LEMMA UpsertsTo ==
    ASSUME TypeInv, NEW p \in Procs, Upserts(p)
    PROVE  LET k == Key(calls[p]) IN
           /\ TypeInv' /\ calls[p].pc = "upsert" /\ k \in Keys /\ k[1] \notin {"complete", "defer"}
           /\ UNCHANGED <<cycles, escalated, findings, todos, adoptions, candidates, file>>
           /\ ops' = Intended(k)
           /\ history'.faults = history.faults \cup (IF k \in DOMAIN ops THEN {"reused"} ELSE {})
           /\ \E d \in Call : /\ calls' = [calls EXCEPT ![p] = d] /\ d.pc = "load" /\ ~d.built
                              /\ d.cmd = calls[p].cmd /\ d.cmd \notin {"complete", "defer"} /\ Key(d) = k
  <1> DEFINE c == calls[p]
             k == Key(c)
             S == IF k \in DOMAIN ops THEN {"reused"} ELSE {}
  <1>0. c \in Call /\ CallOK(c) /\ calls \in [Procs -> Call]
    BY CallAt DEF TypeInv, TypeOK
  <1>1. /\ c.pc = "upsert" /\ c.cmd \notin {"complete", "defer"} /\ c.ids # {}
        /\ UNCHANGED <<cycles, escalated, findings, todos, adoptions, candidates, file>>
        /\ ops' = Intended(k) /\ history' = Faulty(S) /\ Goes(p, "load")
    BY <1>0 DEF Upserts, At, CallOK
  <1>2. k \in Keys /\ k[1] \notin {"complete", "defer"}
    BY <1>0, <1>1, KeyOf
  <1>3. PICK d \in Call : /\ calls' = [calls EXCEPT ![p] = d] /\ d.pc = "load" /\ ~d.built
                          /\ d.cmd = c.cmd /\ Key(d) = k
                          /\ Grows /\ Key(d) \in DOMAIN ops' => CallOK(d)'
    BY <1>1, LoadNext
  <1>4. S \in SUBSET Faults
    BY DEF Faults
  <1> HIDE DEF k, S
  <1>5. /\ history' \in [commands : 0..MaxCommands, deaths : 0..MaxDeaths, faults : SUBSET Faults]
        /\ history'.faults = history.faults \cup S
    BY <1>1, <1>4, FaultyOK
  <1>6. k \in DOMAIN ops' /\ DOMAIN ops \subseteq DOMAIN ops' /\ DOMAIN ops' \subseteq Keys
        /\ (\A j \in DOMAIN ops' : ops'[j] \in Op) /\ (\A j \in DOMAIN ops' : j # k => j \in DOMAIN ops)
    BY <1>1, <1>2, IntendedOK
  <1>7. OpInv' /\ TodoInv' /\ findings' \in [Cycles -> [Findings -> FindingStatuses]] /\ todos' \in [Ids -> Todo]
    BY <1>1, <1>2, <1>6 DEF TypeInv, TypeOK, OpInv, TodoInv
  <1>8. TypeInv'
    BY <1>1, <1>3, <1>5, <1>6, <1>7, EntersOK
  <1> QED
    BY <1>1, <1>2, <1>3, <1>5, <1>8 DEF k, S

\* A step of p in the reconciliation of an operation.
LEMMA ReconcileOK ==
    ASSUME TypeInv, NEW p \in Procs, NEW d \in Call, Grows => CallOK(d)',
           calls' \in [Procs -> Call], calls'[p] = d,
           \A q \in Procs \ {p} : SameCall(calls'[q], calls[q]),
           UNCHANGED <<cycles, escalated, findings, todos, adoptions>>,
           file' \in Content,
           DOMAIN ops' = DOMAIN ops, \A k \in DOMAIN ops : ops'[k] \in Op,
           DOMAIN candidates \subseteq DOMAIN candidates', DOMAIN candidates' \subseteq Keys,
           \A k \in DOMAIN candidates' : candidates'[k] \in Content,
           history' \in [commands : 0..MaxCommands, deaths : 0..MaxDeaths, faults : SUBSET Faults]
    PROVE  TypeInv'
  <1>1. Grows
    BY DEF Grows, Active
  <1>2. TableOK' /\ CycleInv' /\ TodoInv' /\ OpInv'
    BY DEF TypeInv, TypeOK, TableOK, CycleInv, TodoInv, OpInv
  <1>3. CallOK(d)'
    BY <1>1
  <1>4. CallOK(calls[p])'
    BY <1>3 DEF CallOK
  <1> QED
    BY <1>1, <1>2, <1>4, StepOK

LEMMA OpenFits ==
    ASSUME NEW c \in Call, NEW d \in Call, CallOK(c), c.pc \in Opened, d.pc \in Opened,
           d.cmd = c.cmd, d.cycle = c.cycle, d.ids = c.ids, d.given = c.given, Grows,
           d.pc \in {"ready", "replace"} => d.built,
           d.built => d.pc \in {"build"} \cup Holding,
           d.built /\ d.pc \in Holding => Key(d) \in DOMAIN candidates'
    PROVE  CallOK(d)'
  <1>1. c.ids \subseteq Ids /\ c.cycle \in Cycles \cup {None} /\ c.ids # {} /\ c.pc # "idle"
    BY DEF CallOK, Call, Opened
  <1>2. Key(d) = Key(c) /\ Key(c) \in DOMAIN ops'
    BY KeySame DEF CallOK, Grows
  <1>3. /\ d.pc \in {"adopt", "complete", "defer", "release", "resolve", "upsert"} \cup Opened => d.ids # {}
        /\ d.pc \notin Looking \cup {"adopt", "complete", "defer", "settle", "release", "resolve", "engine",
                                     "upsert", "insert", "idle"}
        /\ d.cmd = "complete" => \E i \in Ids : d.ids = {i}
        /\ d.cmd # "complete" => d.cycle \in Cycles /\ cycles'[d.cycle] # "none"
        /\ Active' \subseteq {d.cycle}
    BY <1>1 DEF CallOK, Opened, Looking, Grows
  <1>4. /\ d.cmd = "defer" => d.ids \subseteq d.given /\ d.given \subseteq Findings
        /\ d.cmd # "defer" => \A i \in d.ids : todos'[i].status # "none"
    BY <1>1 DEF CallOK, Grows
  <1> QED
    BY <1>1, <1>2, <1>3, <1>4 DEF CallOK, Key

LEMMA CandidateOK ==
    ASSUME TypeInv
    PROVE  /\ Candidate(file) \in Content
           /\ Candidate(file).lines = Current
           /\ Candidate(file).legacy = (file.legacy /\ LegacyTodos = {})
  <1>1. \A i \in Ids : Projected(i) => Line(i) \in Lines
    BY DEF TypeInv, TypeOK, Todo, Projected, Line, Lines
  <1>2. Current \in SUBSET Lines
    BY <1>1 DEF Current
  <1>3. (file.legacy /\ LegacyTodos = {}) \in BOOLEAN
    OBVIOUS
  <1> QED
    BY <1>2, <1>3 DEF Candidate, Content, Current

LEMMA BuildsTo ==
    ASSUME TypeInv, NEW p \in Procs, Builds(p)
    PROVE  LET k == Key(calls[p]) IN
           /\ TypeInv' /\ calls[p].pc = "build" /\ k \in DOMAIN ops /\ k \in Keys
           /\ UNCHANGED <<cycles, escalated, findings, todos, adoptions, ops, file, history>>
           /\ DOMAIN candidates' = DOMAIN candidates \cup {k}
           /\ candidates'[k].lines = Current /\ candidates'[k].legacy = (file.legacy /\ LegacyTodos = {})
           /\ \A j \in DOMAIN candidates : j # k => candidates'[j] = candidates[j]
           /\ \E d \in Call : /\ calls' = [calls EXCEPT ![p] = d] /\ d.pc = "ready" /\ d.built /\ ~d.late
                              /\ d.cmd = calls[p].cmd /\ d.ids = calls[p].ids /\ d.given = calls[p].given
                              /\ Key(d) = k
                              /\ d.alone => \A q \in Procs \ {p} : calls[q].pc = "idle"
  <1> DEFINE c == calls[p]
             k == Key(c)
             alone == \A q \in Others(p) : q.pc = "idle"
  <1>0. c \in Call /\ CallOK(c) /\ calls \in [Procs -> Call]
    BY CallAt DEF TypeInv, TypeOK
  <1>1. /\ c.pc = "build" /\ k \in DOMAIN ops /\ k \in Keys
        /\ UNCHANGED <<cycles, escalated, findings, todos, adoptions, ops, file, history>>
        /\ candidates' = Put(candidates, k, Candidate(file))
        /\ calls' = [calls EXCEPT ![p] = [c EXCEPT !.pc = "ready", !.built = TRUE, !.late = FALSE, !.alone = alone]]
    BY <1>0 DEF Builds, At, CallOK, Opened, TypeInv, TypeOK
  <1>2. alone \in BOOLEAN /\ (alone <=> \A q \in Procs \ {p} : calls[q].pc = "idle")
    BY DEF Others
  <1> HIDE DEF alone
  <1>3. [c EXCEPT !.pc = "ready", !.built = TRUE, !.late = FALSE, !.alone = alone] \in Call
    BY <1>0, <1>2 DEF Call, Steps
  <1>4. PICK d \in Call : d = [c EXCEPT !.pc = "ready", !.built = TRUE, !.late = FALSE, !.alone = alone]
    BY <1>3
  <1>5. /\ d.pc = "ready" /\ d.built /\ ~d.late /\ d.alone = alone /\ d.cmd = c.cmd /\ d.ids = c.ids
        /\ d.given = c.given /\ d.cycle = c.cycle
    BY <1>0, <1>4 DEF Call
  <1>6. Key(d) = k
    BY <1>5, KeySame
  <1>7. /\ DOMAIN candidates' = DOMAIN candidates \cup {k} /\ candidates'[k] = Candidate(file)
        /\ \A j \in DOMAIN candidates : j # k => candidates'[j] = candidates[j]
    <2> HIDE DEF k
    <2> QED
      BY <1>1 DEF Put
  <1>8. Grows => CallOK(d)'
    BY <1>0, <1>1, <1>5, <1>6, <1>7, OpenFits DEF Opened, Holding
  <1>9. calls' \in [Procs -> Call] /\ calls'[p] = d /\ \A q \in Procs \ {p} : SameCall(calls'[q], calls[q])
    BY <1>0, <1>1, <1>4 DEF SameCall
  <1>10. TypeInv'
    <2> HIDE DEF k
    <2>1. /\ DOMAIN candidates \subseteq DOMAIN candidates' /\ DOMAIN candidates' \subseteq Keys
          /\ \A j \in DOMAIN candidates' : candidates'[j] \in Content
      BY <1>1, <1>7, CandidateOK DEF TypeInv, TypeOK
    <2>2. /\ file' \in Content
          /\ \A j \in DOMAIN ops : ops'[j] \in Op
          /\ history' \in [commands : 0..MaxCommands, deaths : 0..MaxDeaths, faults : SUBSET Faults]
      BY <1>1 DEF TypeInv, TypeOK
    <2> QED
      BY <1>1, <1>8, <1>9, <2>1, <2>2, ReconcileOK
  <1>11. calls' = [calls EXCEPT ![p] = d]
    BY <1>1, <1>4
  <1> HIDE DEF k
  <1> QED
    BY <1>1, <1>2, <1>5, <1>6, <1>7, <1>10, <1>11, CandidateOK DEF k

LEMMA ReadiesTo ==
    ASSUME TypeInv, NEW p \in Procs, Readies(p)
    PROVE  LET k == Key(calls[p]) IN
           /\ TypeInv' /\ calls[p].pc = "ready" /\ k \in DOMAIN ops
           /\ UNCHANGED <<cycles, escalated, findings, todos, adoptions, candidates, file, history>>
           /\ DOMAIN ops' = DOMAIN ops /\ ops'[k].status = "candidate_ready"
           /\ \A j \in DOMAIN ops : j # k => ops'[j] = ops[j]
           /\ \E d \in Call : /\ calls' = [calls EXCEPT ![p] = d] /\ d.pc \in {"install", "replace"}
                              /\ d.built /\ d.late = calls[p].late /\ d.alone = calls[p].alone
                              /\ d.cmd = calls[p].cmd /\ d.ids = calls[p].ids /\ d.given = calls[p].given
                              /\ Key(d) = k
  <1> DEFINE c == calls[p]
             k == Key(c)
             pc == IF c.again THEN "replace" ELSE "install"
  <1>0. c \in Call /\ CallOK(c) /\ calls \in [Procs -> Call]
    BY CallAt DEF TypeInv, TypeOK
  <1>1. /\ c.pc = "ready" /\ c.built /\ k \in DOMAIN ops /\ k \in DOMAIN candidates
        /\ UNCHANGED <<cycles, escalated, findings, todos, adoptions, candidates, file, history>>
        /\ ops' = [ops EXCEPT ![k] = [status |-> "candidate_ready", sha |-> candidates[k]]]
        /\ Goes(p, pc)
    BY <1>0 DEF Readies, At, CallOK, Opened, Holding
  <1>2. pc \in {"install", "replace"}
    OBVIOUS
  <1> HIDE DEF pc
  <1>3. [c EXCEPT !.pc = pc] \in Call
    BY <1>0, <1>2 DEF Call, Steps
  <1>4. PICK d \in Call : d = [c EXCEPT !.pc = pc]
    BY <1>3
  <1>5. /\ d.pc = pc /\ d.built /\ d.late = c.late /\ d.alone = c.alone /\ d.cmd = c.cmd /\ d.ids = c.ids
        /\ d.given = c.given /\ d.cycle = c.cycle
    BY <1>0, <1>1, <1>4 DEF Call
  <1>6. Key(d) = k
    BY <1>5, KeySame
  <1>7. Grows => CallOK(d)'
    BY <1>0, <1>1, <1>2, <1>5, <1>6, OpenFits DEF Opened, Holding, Grows
  <1>8. calls' = [calls EXCEPT ![p] = d]
    BY <1>0, <1>1, <1>4 DEF Goes
  <1>9. calls' \in [Procs -> Call] /\ calls'[p] = d /\ \A q \in Procs \ {p} : SameCall(calls'[q], calls[q])
    BY <1>0, <1>8 DEF SameCall
  <1> HIDE DEF k
  <1>10. candidates[k] \in Content
    BY <1>1 DEF TypeInv, TypeOK
  <1>11. [status |-> "candidate_ready", sha |-> candidates[k]] \in Op
    BY <1>10 DEF Op
  <1>12. /\ DOMAIN ops' = DOMAIN ops /\ ops'[k].status = "candidate_ready"
         /\ \A j \in DOMAIN ops : j # k => ops'[j] = ops[j]
         /\ \A j \in DOMAIN ops : ops'[j] \in Op
    BY <1>1, <1>11 DEF TypeInv, TypeOK
  <1>13. TypeInv'
    <2>1. /\ DOMAIN candidates' \subseteq Keys /\ file' \in Content
          /\ \A j \in DOMAIN candidates' : candidates'[j] \in Content
          /\ history' \in [commands : 0..MaxCommands, deaths : 0..MaxDeaths, faults : SUBSET Faults]
      BY <1>1 DEF TypeInv, TypeOK
    <2> QED
      BY <1>1, <1>7, <1>9, <1>12, <2>1, ReconcileOK
  <1> QED
    BY <1>1, <1>2, <1>5, <1>6, <1>8, <1>12, <1>13 DEF k

\* p installs the candidate of its key.
Replaced(p) ==
    LET c == calls[p]
        d == calls'[p]
    IN
    /\ c.pc \in {"install", "replace"} /\ Key(c) \in DOMAIN candidates
    /\ file' = candidates[Key(c)]
    /\ d.pc = "mark" /\ ~d.built /\ d.cmd = c.cmd /\ d.ids = c.ids /\ d.given = c.given /\ Key(d) = Key(c)
    /\ \A q \in Procs \ {p} : /\ SameCall(calls'[q], calls[q]) /\ calls'[q].alone = calls[q].alone
                              /\ calls'[q].late = (calls[q].late \/ calls[q].built)
    /\ history'.faults = (history.faults \ (IF c.built /\ c.alone THEN {"interrupted"} ELSE {}))
                         \cup (IF ~c.built THEN {"resumed"} ELSE {})
                         \cup (IF c.late THEN {"overtaken"} ELSE {})
    /\ UNCHANGED <<cycles, escalated, findings, todos, adoptions, ops, candidates>>

LEMMA ReplacesTo ==
    ASSUME TypeInv, NEW p \in Procs, NEW c \in Call,
           SameCall(c, calls[p]), c.late = calls[p].late, c.alone = calls[p].alone,
           c.pc \in {"install", "replace"}, Key(c) \in DOMAIN candidates, Replaces(p, c),
           UNCHANGED <<cycles, escalated, findings, todos, adoptions, ops, candidates>>
    PROVE  TypeInv' /\ Replaced(p)
  <1> DEFINE k == Key(c)
             cured == IF c.built /\ c.alone THEN {"interrupted"} ELSE {}
             lost == (IF ~c.built THEN {"resumed"} ELSE {}) \cup (IF c.late THEN {"overtaken"} ELSE {})
  <1>0. calls[p] \in Call /\ CallOK(calls[p]) /\ calls \in [Procs -> Call]
    BY CallAt DEF TypeInv, TypeOK
  <1>1. /\ file' = candidates[k]
        /\ calls' = [q \in Procs |-> IF q = p THEN [c EXCEPT !.pc = "mark", !.built = FALSE, !.late = FALSE,
                                                              !.alone = FALSE]
                                     ELSE [calls[q] EXCEPT !.late = @ \/ calls[q].built]]
        /\ history' = [history EXCEPT !.faults = (@ \ cured) \cup lost]
    BY DEF Replaces
  <1>2. Key(calls[p]) = k
    BY KeySame DEF SameCall
  <1>3. [c EXCEPT !.pc = "mark", !.built = FALSE, !.late = FALSE, !.alone = FALSE] \in Call
    BY DEF Call, Steps
  <1>4. PICK d \in Call : d = [c EXCEPT !.pc = "mark", !.built = FALSE, !.late = FALSE, !.alone = FALSE]
    BY <1>3
  <1>5. /\ d.pc = "mark" /\ ~d.built /\ d.cmd = calls[p].cmd /\ d.ids = calls[p].ids
        /\ d.given = calls[p].given /\ d.cycle = calls[p].cycle
    BY <1>4 DEF Call, SameCall
  <1>6. Key(d) = k
    BY <1>2, <1>5, KeySame
  <1> DEFINE Late(q) == [calls[q] EXCEPT !.late = @ \/ calls[q].built]
  <1>7. \A q \in Procs \ {p} : /\ Late(q) \in Call /\ SameCall(Late(q), calls[q])
                              /\ Late(q).alone = calls[q].alone
                              /\ Late(q).late = (calls[q].late \/ calls[q].built)
    BY <1>0 DEF Call, SameCall
  <1>8. /\ calls' \in [Procs -> Call] /\ calls'[p] = d
        /\ \A q \in Procs \ {p} : /\ SameCall(calls'[q], calls[q]) /\ calls'[q].alone = calls[q].alone
                                  /\ calls'[q].late = (calls[q].late \/ calls[q].built)
    <2>0. calls' = [q \in Procs |-> IF q = p THEN d ELSE Late(q)]
      BY <1>1, <1>4
    <2> HIDE DEF Late
    <2>1. calls'[p] = d /\ \A q \in Procs \ {p} : calls'[q] = Late(q)
      BY <2>0
    <2>2. calls' \in [Procs -> Call]
      BY <2>0, <1>7
    <2> QED
      BY <1>7, <2>1, <2>2
  <1>9. Grows => CallOK(d)'
    BY <1>0, <1>5, OpenFits DEF Opened, Holding, SameCall
  <1>10. /\ history' \in [commands : 0..MaxCommands, deaths : 0..MaxDeaths, faults : SUBSET Faults]
         /\ history'.faults = (history.faults \ cured) \cup lost
    <2>1. cured \in SUBSET Faults /\ lost \in SUBSET Faults
      BY DEF Faults
    <2> HIDE DEF cured, lost
    <2> QED
      BY <1>1, <2>1 DEF TypeInv, TypeOK
  <1>11. TypeInv'
    <2>1. /\ DOMAIN candidates' \subseteq Keys /\ file' \in Content
          /\ \A j \in DOMAIN candidates' : candidates'[j] \in Content
          /\ \A j \in DOMAIN ops : ops'[j] \in Op
      BY <1>1 DEF TypeInv, TypeOK
    <2> QED
      BY <1>8, <1>9, <1>10, <2>1, ReconcileOK
  <1>12. Replaced(p)
    <2>1. history'.faults = (history.faults \ (IF calls[p].built /\ calls[p].alone THEN {"interrupted"} ELSE {}))
                         \cup (IF ~calls[p].built THEN {"resumed"} ELSE {})
                         \cup (IF calls[p].late THEN {"overtaken"} ELSE {})
      BY <1>10 DEF SameCall
    <2>2. calls[p].pc \in {"install", "replace"} /\ k \in DOMAIN candidates /\ file' = candidates[k]
      BY <1>1 DEF SameCall
    <2>3. /\ calls'[p].pc = "mark" /\ ~calls'[p].built /\ calls'[p].cmd = calls[p].cmd
          /\ calls'[p].ids = calls[p].ids /\ calls'[p].given = calls[p].given /\ Key(calls'[p]) = k
      BY <1>5, <1>6, <1>8
    <2> HIDE DEF k
    <2> QED
      BY <1>2, <1>8, <2>1, <2>2, <2>3 DEF Replaced
  <1> QED
    BY <1>11, <1>12

LEMMA InstallsTo ==
    ASSUME TypeInv, NEW p \in Procs, Installs(p) \/ InstallsRebuilt(p)
    PROVE  /\ TypeInv'
           /\ \/ Replaced(p)
              \/ \E d \in Call : /\ Moves(p, d) /\ calls[p].pc = "install" /\ d.pc = "build"
                                 /\ d.cmd = calls[p].cmd /\ d.ids = calls[p].ids /\ d.given = calls[p].given
                                 /\ Key(d) = Key(calls[p])
  <1>0. calls[p] \in Call /\ CallOK(calls[p]) /\ calls \in [Procs -> Call]
    BY CallAt DEF TypeInv, TypeOK
  <1>1. CASE Installs(p)
    <2>1. calls[p].pc = "install" /\ Key(calls[p]) \in DOMAIN ops
      BY <1>0, <1>1 DEF Installs, At, CallOK, Opened
    <2>2. ops[Key(calls[p])].sha \in Content
      BY <2>1 DEF TypeInv, TypeOK, Op
    <2>3. [calls[p] EXCEPT !.sha = ops[Key(calls[p])].sha] \in Call
      BY <1>0, <2>2 DEF Call
    <2>4. PICK c \in Call : c = [calls[p] EXCEPT !.sha = ops[Key(calls[p])].sha]
      BY <2>3
    <2>5. SameCall(c, calls[p]) /\ c.late = calls[p].late /\ c.alone = calls[p].alone /\ c.pc = "install"
      BY <1>0, <2>1, <2>4 DEF SameCall, Call
    <2>6. /\ IF Key(c) \in DOMAIN candidates /\ candidates[Key(c)] = c.sha THEN Replaces(p, c)
             ELSE /\ calls' = [calls EXCEPT ![p] = [c EXCEPT !.pc = "build", !.again = TRUE]]
                  /\ UNCHANGED <<file, history>>
          /\ UNCHANGED <<cycles, escalated, findings, todos, adoptions, ops, candidates>>
      BY <1>1, <2>4 DEF Installs
    <2>7. CASE Key(c) \in DOMAIN candidates /\ candidates[Key(c)] = c.sha
      BY <2>5, <2>6, <2>7, ReplacesTo
    <2>8. CASE ~(Key(c) \in DOMAIN candidates /\ candidates[Key(c)] = c.sha)
      <3>1. [c EXCEPT !.pc = "build", !.again = TRUE] \in Call
        BY DEF Call, Steps
      <3>2. PICK d \in Call : d = [c EXCEPT !.pc = "build", !.again = TRUE]
        BY <3>1
      <3>3. /\ d.pc = "build" /\ d.cmd = calls[p].cmd /\ d.ids = calls[p].ids /\ d.given = calls[p].given
            /\ d.cycle = calls[p].cycle
        BY <2>5, <3>2 DEF Call, SameCall
      <3>4. Key(d) = Key(calls[p])
        BY <3>3, KeySame
      <3>5. Moves(p, d)
        BY <2>6, <2>8, <3>2 DEF Moves
      <3>6. Grows => CallOK(d)'
        BY <1>0, <2>1, <3>3, OpenFits DEF Opened, Holding
      <3>7. TypeInv'
        <4>1. calls' \in [Procs -> Call] /\ calls'[p] = d /\ \A q \in Procs \ {p} : SameCall(calls'[q], calls[q])
          BY <1>0, <3>5 DEF Moves, SameCall
        <4>2. /\ DOMAIN candidates' \subseteq Keys /\ file' \in Content
              /\ \A j \in DOMAIN candidates' : candidates'[j] \in Content
              /\ \A j \in DOMAIN ops : ops'[j] \in Op
              /\ history' \in [commands : 0..MaxCommands, deaths : 0..MaxDeaths, faults : SUBSET Faults]
          BY <3>5 DEF TypeInv, TypeOK, Moves
        <4> QED
          BY <3>5, <3>6, <4>1, <4>2, ReconcileOK DEF Moves
      <3> QED
        BY <2>1, <3>3, <3>4, <3>5, <3>7
    <2> QED
      BY <2>7, <2>8
  <1>2. CASE InstallsRebuilt(p)
    <2>1. calls[p].pc = "replace" /\ Key(calls[p]) \in DOMAIN candidates
      BY <1>0, <1>2 DEF InstallsRebuilt, At, CallOK, Holding
    <2>2. PICK c \in Call : c = calls[p]
      BY <1>0
    <2> QED
      BY <1>2, <2>1, <2>2, ReplacesTo DEF InstallsRebuilt, SameCall
  <1> QED
    BY <1>1, <1>2

LEMMA MarksTo ==
    ASSUME TypeInv, NEW p \in Procs, Marks(p)
    PROVE  LET k == Key(calls[p]) IN
           /\ TypeInv' /\ calls[p].pc = "mark" /\ ~calls[p].built /\ k \in DOMAIN ops
           /\ UNCHANGED <<cycles, escalated, findings, todos, adoptions, candidates, file, history>>
           /\ DOMAIN ops' = DOMAIN ops /\ ops'[k].status = "installed"
           /\ \A j \in DOMAIN ops : j # k => ops'[j] = ops[j]
           /\ \E d \in Call : /\ calls' = [calls EXCEPT ![p] = d] /\ d.pc = "verify" /\ ~d.built
                              /\ d.cmd = calls[p].cmd /\ d.ids = calls[p].ids /\ d.given = calls[p].given
                              /\ Key(d) = k
  <1> DEFINE c == calls[p]
             k == Key(c)
  <1>0. c \in Call /\ CallOK(c) /\ calls \in [Procs -> Call]
    BY CallAt DEF TypeInv, TypeOK
  <1>1. /\ c.pc = "mark" /\ ~c.built /\ k \in DOMAIN ops
        /\ UNCHANGED <<cycles, escalated, findings, todos, adoptions, candidates, file, history>>
        /\ ops' = [ops EXCEPT ![k] = [status |-> "installed", sha |-> c.sha]]
        /\ calls' = [calls EXCEPT ![p] = [c EXCEPT !.pc = "verify", !.sha = Empty, !.again = FALSE]]
    BY <1>0 DEF Marks, At, CallOK, Opened, Holding
  <1>2. [c EXCEPT !.pc = "verify", !.sha = Empty, !.again = FALSE] \in Call
    BY <1>0 DEF Call, Steps, Empty, Content
  <1>3. PICK d \in Call : d = [c EXCEPT !.pc = "verify", !.sha = Empty, !.again = FALSE]
    BY <1>2
  <1>4. /\ d.pc = "verify" /\ ~d.built /\ d.cmd = c.cmd /\ d.ids = c.ids
        /\ d.given = c.given /\ d.cycle = c.cycle
    BY <1>0, <1>1, <1>3 DEF Call
  <1>5. Key(d) = k
    BY <1>4, KeySame
  <1>6. Grows => CallOK(d)'
    BY <1>0, <1>1, <1>4, OpenFits DEF Opened
  <1>7. calls' = [calls EXCEPT ![p] = d]
    BY <1>1, <1>3
  <1>8. calls' \in [Procs -> Call] /\ calls'[p] = d /\ \A q \in Procs \ {p} : SameCall(calls'[q], calls[q])
    BY <1>0, <1>7 DEF SameCall
  <1> HIDE DEF k
  <1>9. [status |-> "installed", sha |-> c.sha] \in Op
    BY <1>0 DEF Op, Call
  <1>10. /\ DOMAIN ops' = DOMAIN ops /\ ops'[k].status = "installed"
         /\ \A j \in DOMAIN ops : j # k => ops'[j] = ops[j]
         /\ \A j \in DOMAIN ops : ops'[j] \in Op
    BY <1>1, <1>9 DEF TypeInv, TypeOK
  <1>11. TypeInv'
    <2>1. /\ DOMAIN candidates' \subseteq Keys /\ file' \in Content
          /\ \A j \in DOMAIN candidates' : candidates'[j] \in Content
          /\ history' \in [commands : 0..MaxCommands, deaths : 0..MaxDeaths, faults : SUBSET Faults]
      BY <1>1 DEF TypeInv, TypeOK
    <2> QED
      BY <1>1, <1>6, <1>8, <1>10, <2>1, ReconcileOK
  <1> QED
    BY <1>1, <1>4, <1>5, <1>7, <1>10, <1>11 DEF k

\* p fails or dies.
Gone(p, faults) ==
    /\ calls' = [calls EXCEPT ![p] = Idle] /\ history'.faults = history.faults \cup faults
    /\ UNCHANGED <<cycles, escalated, findings, todos, adoptions, ops, candidates, file>>

LEMMA GoneOK ==
    ASSUME TypeInv, NEW p \in Procs, NEW S, Gone(p, S),
           history' \in [commands : 0..MaxCommands, deaths : 0..MaxDeaths, faults : SUBSET Faults]
    PROVE  TypeInv'
  <1>1. /\ UNCHANGED <<cycles, escalated, findings, todos, adoptions, ops, candidates, file>>
        /\ calls' = [calls EXCEPT ![p] = Idle]
    BY DEF Gone
  <1>2. TableOK' /\ CycleInv' /\ TodoInv' /\ OpInv'
    BY <1>1 DEF TypeInv, TypeOK, TableOK, CycleInv, TodoInv, OpInv
  <1>3. Grows
    BY <1>1 DEF Grows, Active
  <1>4. calls' \in [Procs -> Call] /\ calls'[p] = Idle /\ \A q \in Procs \ {p} : SameCall(calls'[q], calls[q])
    BY <1>1, IdleOK DEF SameCall, TypeInv, TypeOK
  <1>5. CallOK(calls[p])'
    BY <1>4, IdleOK DEF CallOK
  <1> QED
    BY <1>2, <1>3, <1>4, <1>5, StepOK

LEMMA VerifiesTo ==
    ASSUME TypeInv, NEW p \in Procs, Verifies(p)
    PROVE  LET c == calls[p]
               k == Key(c)
           IN
           /\ TypeInv' /\ c.pc = "verify" /\ ~c.built /\ k \in DOMAIN ops
           /\ \/ Gone(p, {"interrupted"})
              \/ /\ UNCHANGED <<cycles, escalated, findings, todos, adoptions, candidates, file, history>>
                 /\ DOMAIN ops' = DOMAIN ops /\ ops'[k].status = "verified"
                 /\ \A j \in DOMAIN ops : j # k => ops'[j] = ops[j]
                 /\ DoneAs(c, Done(c)) /\ calls' = [calls EXCEPT ![p] = Done(c)]
  <1> DEFINE c == calls[p]
             k == Key(c)
  <1>0. c \in Call /\ CallOK(c) /\ calls \in [Procs -> Call]
    BY CallAt DEF TypeInv, TypeOK
  <1>1. /\ c.pc = "verify" /\ ~c.built /\ k \in DOMAIN ops
        /\ UNCHANGED <<cycles, escalated, findings, todos, adoptions, candidates, file>>
    BY <1>0 DEF Verifies, At, CallOK, Opened, Holding
  <1>2. \/ Reports(p, {"interrupted"}) /\ UNCHANGED ops
        \/ /\ ops' = [ops EXCEPT ![k].status = "verified"]
           /\ calls' = [calls EXCEPT ![p] = Done(c)] /\ UNCHANGED history
    BY DEF Verifies
  <1>3. CASE Reports(p, {"interrupted"}) /\ UNCHANGED ops
    <2>1. {"interrupted"} \in SUBSET Faults
      BY DEF Faults
    <2>2. history' = Faulty({"interrupted"}) /\ calls' = [calls EXCEPT ![p] = Idle]
      BY <1>3 DEF Reports, Returns
    <2>3. Gone(p, {"interrupted"})
          /\ history' \in [commands : 0..MaxCommands, deaths : 0..MaxDeaths, faults : SUBSET Faults]
      BY <1>1, <1>3, <2>1, <2>2, FaultyOK DEF Gone
    <2> QED
      BY <1>1, <2>3, GoneOK
  <1>4. CASE /\ ops' = [ops EXCEPT ![k].status = "verified"]
             /\ calls' = [calls EXCEPT ![p] = Done(c)] /\ UNCHANGED history
    <2>1. DoneAs(c, Done(c))
      BY <1>0, <1>1, DoneIs
    <2>2. PICK d \in Call : d = Done(c) /\ CallOK(d)
      BY <2>1 DEF DoneAs
    <2> HIDE DEF k
    <2>3. ops[k] \in Op
      BY <1>1 DEF TypeInv, TypeOK
    <2>4. [ops[k] EXCEPT !.status = "verified"] \in Op
      BY <2>3 DEF Op
    <2>5. ops' = [ops EXCEPT ![k] = [ops[k] EXCEPT !.status = "verified"]]
      BY <1>4
    <2>6. /\ DOMAIN ops' = DOMAIN ops /\ ops'[k].status = "verified"
          /\ \A j \in DOMAIN ops : j # k => ops'[j] = ops[j]
          /\ \A j \in DOMAIN ops : ops'[j] \in Op
      BY <1>1, <2>3, <2>4, <2>5 DEF TypeInv, TypeOK, Op
    <2>7. calls' \in [Procs -> Call] /\ calls'[p] = d /\ \A q \in Procs \ {p} : SameCall(calls'[q], calls[q])
      BY <1>0, <1>4, <2>2 DEF SameCall
    <2>8. /\ DOMAIN candidates' \subseteq Keys /\ file' \in Content
          /\ \A j \in DOMAIN candidates' : candidates'[j] \in Content
          /\ history' \in [commands : 0..MaxCommands, deaths : 0..MaxDeaths, faults : SUBSET Faults]
      BY <1>1, <1>4 DEF TypeInv, TypeOK
    <2>9. Grows => CallOK(d)'
      BY <2>2, CallGrows
    <2>10. TypeInv'
      BY <1>1, <2>6, <2>7, <2>8, <2>9, ReconcileOK
    <2> QED
      BY <1>1, <1>4, <2>1, <2>6, <2>10 DEF k
  <1> QED
    BY <1>2, <1>3, <1>4

LEMMA DiesTo ==
    ASSUME TypeInv, NEW p \in Procs, Die(p)
    PROVE  /\ TypeInv' /\ calls[p].pc # "idle"
           /\ Gone(p, IF calls[p].pc \in {"promote", "allocate", "insert", "engine", "settle"}
                      THEN {} ELSE {"interrupted"})
  <1> DEFINE S == IF calls[p].pc \in {"promote", "allocate", "insert", "engine", "settle"}
                  THEN {} ELSE {"interrupted"}
  <1>1. S \in SUBSET Faults
    BY DEF Faults
  <1>2. /\ calls[p].pc # "idle" /\ history.deaths < MaxDeaths
        /\ calls' = [calls EXCEPT ![p] = Idle] /\ history' = [Faulty(S) EXCEPT !.deaths = @ + 1]
        /\ UNCHANGED <<cycles, escalated, findings, todos, adoptions, ops, candidates, file>>
    BY DEF Die, At, Returns
  <1> HIDE DEF S
  <1>3. history.deaths + 1 \in 0..MaxDeaths
    BY <1>2, Bounds DEF TypeInv, TypeOK
  <1>4. history' \in [commands : 0..MaxCommands, deaths : 0..MaxDeaths, faults : SUBSET Faults]
        /\ history'.faults = history.faults \cup S
    BY <1>1, <1>2, <1>3, FaultyOK
  <1>5. Gone(p, S)
    BY <1>2, <1>4 DEF Gone
  <1> QED
    BY <1>2, <1>4, <1>5, GoneOK DEF S

\* p ends the active cycle, or leaves it.
LEMMA EndsTo ==
    ASSUME TypeInv, NEW p \in Procs, End(p)
    PROVE  LET c == calls[p] IN
           /\ TypeInv' /\ c.pc \in {"engine", "settle"}
           /\ calls' = [calls EXCEPT ![p] = Idle]
           /\ UNCHANGED <<findings, todos, adoptions, ops, candidates, file, history>>
           /\ Active' \subseteq Active
           /\ \/ cycles' = cycles
              \/ \E a \in Cycles, status \in {"cancelled", "finished", "deferred"} :
                   /\ Active = {a} /\ cycles' = [cycles EXCEPT ![a] = status]
                   /\ status = "deferred" <=> c.pc = "settle"
                   /\ status # "deferred" => c.cmd \in Ending
  <1> DEFINE c == calls[p]
             a == Pick(Active)
  <1>0. c \in Call /\ CallOK(c) /\ calls \in [Procs -> Call] /\ cycles \in [Cycles -> CycleStatuses]
    BY CallAt DEF TypeInv, TypeOK
  <1>1. /\ c.pc \in {"engine", "settle"} /\ calls' = [calls EXCEPT ![p] = Idle]
        /\ UNCHANGED <<findings, todos, adoptions, ops, candidates, file, history>>
        /\ escalated' = escalated \/ escalated' = FALSE
        /\ c.pc = "engine" => c.cmd \in Ending
    BY <1>0 DEF End, Engine, Settles, At, Returns, CallOK
  <1>2. \/ cycles' = cycles
        \/ \E status \in {"cancelled", "finished", "deferred"} :
             /\ Active # {} /\ cycles' = [cycles EXCEPT ![a] = status]
             /\ status = "deferred" <=> c.pc = "settle"
    <2>1. CASE Engine(p)
      <3>1. c.pc = "engine"
        BY <2>1 DEF Engine, At
      <3>2. CASE cycles' = [cycles EXCEPT ![a] = IF c.cmd = "cancel" THEN "cancelled" ELSE "finished"] /\ Active # {}
        <4>1. CASE c.cmd = "cancel"
          BY <3>1, <3>2, <4>1
        <4>2. CASE c.cmd # "cancel"
          BY <3>1, <3>2, <4>2
        <4> QED
          BY <4>1, <4>2
      <3> QED
        BY <2>1, <3>2 DEF Engine
    <2>2. CASE Settles(p)
      BY <2>2 DEF Settles, At
    <2> QED
      BY <2>1, <2>2 DEF End
  <1>3. \/ cycles' = cycles
        \/ \E b \in Cycles, status \in {"cancelled", "finished", "deferred"} :
             /\ Active = {b} /\ cycles' = [cycles EXCEPT ![b] = status]
             /\ status = "deferred" <=> c.pc = "settle"
    BY <1>2, OneActive DEF TypeInv
  <1>4. Active' \subseteq Active /\ CycleInv' /\ cycles' \in [Cycles -> CycleStatuses]
        /\ \A o \in Cycles : cycles[o] # "none" => cycles'[o] # "none"
    <2>1. CASE cycles' = cycles
      BY <1>0, <2>1 DEF Active, TypeInv, CycleInv
    <2>2. ASSUME NEW b \in Cycles, NEW status \in {"cancelled", "finished", "deferred"},
                 Active = {b}, cycles' = [cycles EXCEPT ![b] = status]
          PROVE  Active' \subseteq Active /\ CycleInv' /\ cycles' \in [Cycles -> CycleStatuses]
                 /\ \A o \in Cycles : cycles[o] # "none" => cycles'[o] # "none"
      <3>1. cycles[b] = "active"
        BY <2>2 DEF Active
      <3>2. \A o \in Cycles : cycles'[o] = IF o = b THEN status ELSE cycles[o]
        BY <1>0, <2>2
      <3>3. cycles' \in [Cycles -> CycleStatuses]
        BY <1>0, <2>2 DEF CycleStatuses
      <3>4. Active' \subseteq Active
        BY <3>2 DEF Active
      <3>5. CycleInv'
        BY <3>1, <3>2, Bounds DEF TypeInv, CycleInv
      <3> QED
        BY <3>1, <3>2, <3>3, <3>4, <3>5
    <2> QED
      BY <1>3, <2>1, <2>2
  <1>5. Grows
    BY <1>1, <1>4 DEF Grows
  <1>6. TableOK' /\ TodoInv' /\ OpInv'
    BY <1>1, <1>4 DEF TypeInv, TypeOK, TableOK, TodoInv, OpInv, Todo
  <1>7. calls' \in [Procs -> Call] /\ calls'[p] = Idle /\ \A q \in Procs \ {p} : SameCall(calls'[q], calls[q])
    BY <1>0, <1>1, IdleOK DEF SameCall
  <1>8. CallOK(calls[p])'
    BY <1>7, IdleOK DEF CallOK
  <1>9. TypeInv'
    BY <1>4, <1>5, <1>6, <1>7, <1>8, StepOK
  <1> QED
    BY <1>1, <1>3, <1>4, <1>9

\* What happens between commands.
Between == NewCycle \/ Report \/ Escalate \/ Clean

LEMMA BetweenOK ==
    ASSUME TypeInv, Between
    PROVE  /\ TypeInv' /\ \A p \in Procs : calls[p].pc = "idle"
           /\ UNCHANGED <<todos, adoptions, ops, file, calls, history>>
           /\ candidates' = candidates \/ DOMAIN candidates' = {}
           /\ \A c \in Cycles : /\ cycles[c] # "none" => cycles'[c] # "none"
                                /\ cycles'[c] # cycles[c] => cycles'[c] \in {"active", "abandoned"}
  <1>0. /\ cycles \in [Cycles -> CycleStatuses] /\ escalated \in BOOLEAN
        /\ findings \in [Cycles -> [Findings -> FindingStatuses]] /\ calls \in [Procs -> Call]
    BY DEF TypeInv, TypeOK
  <1>1. /\ \A p \in Procs : calls[p].pc = "idle"
        /\ UNCHANGED <<todos, adoptions, ops, file, calls, history>>
    BY DEF Between, NewCycle, Report, Escalate, Clean, Quiet, At
  <1>2. candidates' = candidates \/ DOMAIN candidates' = {}
    <2>1. candidates' = candidates \/ candidates' = <<>>
      BY DEF Between, NewCycle, Report, Escalate, Clean
    <2> QED
      BY <2>1
  <1>3. /\ cycles' \in [Cycles -> CycleStatuses] /\ CycleInv'
        /\ \A c \in Cycles : /\ cycles[c] # "none" => cycles'[c] # "none"
                             /\ cycles'[c] # cycles[c] => cycles'[c] \in {"active", "abandoned"}
    <2>1. CASE cycles' = cycles
      BY <1>0, <2>1 DEF TypeInv, CycleInv
    <2>2. CASE NewCycle
      <3>1. PICK c \in Cycles :
              /\ cycles[c] = "none" /\ \A o \in 1..(c - 1) : cycles[o] # "none"
              /\ cycles' = [o \in Cycles |-> IF o = c THEN "active"
                                             ELSE IF cycles[o] = "active" THEN "abandoned"
                                             ELSE cycles[o]]
        BY <2>2 DEF NewCycle
      <3>2. \A o \in Cycles : cycles'[o] = IF o = c THEN "active"
                                            ELSE IF cycles[o] = "active" THEN "abandoned"
                                            ELSE cycles[o]
        BY <3>1
      <3>3. cycles' \in [Cycles -> CycleStatuses]
        BY <1>0, <3>1 DEF CycleStatuses
      <3>4. \A o \in Cycles : cycles[o] = "none" => o >= c
        <4> SUFFICES ASSUME NEW o \in Cycles, cycles[o] = "none", o < c
                     PROVE  FALSE
          BY Bounds
        <4>1. o \in 1..(c - 1)
          BY Bounds
        <4> QED
          BY <3>1, <4>1
      <3>5. CycleInv'
        <4> SUFFICES ASSUME NEW o \in Cycles, cycles'[o] \in {"none", "active"},
                            NEW l \in Cycles, l > o
                     PROVE  cycles'[l] = "none"
          BY DEF CycleInv
        <4>1. o >= c /\ l # c
          BY <3>2, <3>4, Bounds
        <4>2. cycles[l] = "none"
          BY <3>1, <4>1, Bounds DEF TypeInv, CycleInv
        <4> QED
          BY <3>2, <4>1, <4>2
      <3> QED
        BY <3>2, <3>3, <3>5
    <2> QED
      BY <2>1, <2>2 DEF Between, Report, Escalate, Clean
  <1>4. escalated' \in BOOLEAN /\ findings' \in [Cycles -> [Findings -> FindingStatuses]]
    <2>1. escalated' \in BOOLEAN
      BY <1>0 DEF Between, NewCycle, Report, Escalate, Clean
    <2>2. CASE Report
      <3>1. PICK c \in Active, f \in Findings, new \in FindingStatuses : findings' = [findings EXCEPT ![c][f] = new]
        BY <2>2 DEF Report
      <3> QED
        BY <1>0, <2>1, <3>1
    <2> QED
      BY <1>0, <2>1, <2>2 DEF Between, NewCycle, Escalate, Clean
  <1>5. TableOK' /\ TodoInv' /\ OpInv'
    <2>1. DOMAIN candidates' \subseteq Keys /\ \A k \in DOMAIN candidates' : candidates'[k] \in Content
      BY <1>2 DEF TypeInv, TypeOK
    <2> QED
      BY <1>1, <1>3, <1>4, <2>1 DEF TypeInv, TypeOK, TableOK, TodoInv, OpInv, Todo
  <1>6. \A p \in Procs : CallOK(calls[p])'
    <2> SUFFICES ASSUME NEW p \in Procs PROVE CallOK(calls[p])'
      OBVIOUS
    <2>1. CallOK(calls[p]) /\ calls[p].ids \subseteq Ids
      BY CallAt
    <2> QED
      BY <1>1, <2>1 DEF CallOK, Opened, Looking, Holding, Key
  <1>7. TypeOK'
    BY <1>0, <1>1, <1>5 DEF TypeOK, TableOK
  <1> QED
    BY <1>1, <1>2, <1>3, <1>5, <1>6, <1>7 DEF TypeInv

\* A command starts: only its call is new, and the others are no longer alone.
LEMMA StartsTo ==
    ASSUME TypeInv, NEW p \in Procs, Start(p)
    PROVE  /\ TypeInv' /\ calls[p].pc = "idle"
           /\ UNCHANGED <<cycles, escalated, findings, todos, adoptions, ops, candidates, file>>
           /\ history'.faults = history.faults
           /\ \E c \in Call : /\ c.pc \in {"adopt", "promote", "complete", "defer", "engine", "resolve", "release"}
                              /\ ~c.built /\ (c.cmd = "defer" => c.given = c.ids)
                              /\ c.cmd \in Ending /\ c.pc = "engine" => AdoptedBy(c.cycle) = {} /\ Active \subseteq {c.cycle}
                              /\ calls'[p] = c
           /\ \A q \in Procs \ {p} : /\ SameCall(calls'[q], calls[q]) /\ calls'[q].late = calls[q].late
                                     /\ ~calls'[q].alone
  <1>1. PICK c \in Call : /\ Starts(p, c) /\ CallOK(c)
                          /\ c.pc \in {"adopt", "promote", "complete", "defer", "engine", "resolve", "release"}
                          /\ ~c.built /\ (c.cmd = "defer" => c.given = c.ids)
                          /\ c.cmd \in Ending /\ c.pc = "engine" => AdoptedBy(c.cycle) = {}
    BY StartsOne
  <1>2. TypeInv'
    BY <1>1, StartOK
  <1>3. /\ calls[p].pc = "idle" /\ history'.faults = history.faults
        /\ UNCHANGED <<cycles, escalated, findings, todos, adoptions, ops, candidates, file>>
    BY <1>1 DEF Starts, At, TypeInv, TypeOK
  <1>4. c.cmd \in Ending /\ c.pc = "engine" => Active \subseteq {c.cycle}
    BY <1>1 DEF CallOK
  <1>5. /\ calls'[p] = c
        /\ \A q \in Procs \ {p} : /\ SameCall(calls'[q], calls[q]) /\ calls'[q].late = calls[q].late
                                  /\ ~calls'[q].alone
    <2>1. calls' = [q \in Procs |-> IF q = p THEN c ELSE [calls[q] EXCEPT !.alone = FALSE]]
      BY <1>1 DEF Starts
    <2>2. \A q \in Procs : LET e == [calls[q] EXCEPT !.alone = FALSE]
                           IN  SameCall(e, calls[q]) /\ e.late = calls[q].late /\ ~e.alone
      BY DEF TypeInv, TypeOK, Call, SameCall
    <2>3. calls'[p] = c /\ \A q \in Procs \ {p} : calls'[q] = [calls[q] EXCEPT !.alone = FALSE]
      BY <2>1
    <2> QED
      BY <2>2, <2>3
  <1> QED
    BY <1>1, <1>2, <1>3, <1>4, <1>5

Proceeds(p) == Promotes(p) \/ Allocates(p) \/ Loads(p)

LEMMA NextCases ==
    ASSUME Next
    PROVE  \/ Between
           \/ \E p \in Procs :
                \/ Start(p) \/ Proceeds(p) \/ Inserts(p) \/ Adopts(p) \/ Releases(p) \/ Completes(p) \/ Defers(p)
                \/ Upserts(p) \/ Builds(p) \/ Readies(p) \/ Installs(p) \/ InstallsRebuilt(p)
                \/ Marks(p) \/ Verifies(p) \/ End(p) \/ Die(p)
  BY DEF Next, Change, Reconcile, Between, Proceeds

LEMMA StaysTo ==
    ASSUME TypeInv, NEW p \in Procs, Proceeds(p)
    PROVE  TypeInv' /\ \E d \in Call : Moves(p, d) /\ CallOK(d)
  <1>1. \E d \in Call : Moves(p, d) /\ CallOK(d)
    BY PromotesTo, LoadsTo DEF Proceeds, Moves
  <1> QED
    BY <1>1, MoveOK DEF Moves

LEMMA TypeNext == TypeInv /\ [Next]_vars => TypeInv'
  <1> SUFFICES ASSUME TypeInv, [Next]_vars PROVE TypeInv'
    OBVIOUS
  <1>1. CASE UNCHANGED vars
    <2>1. TypeOK' /\ CycleInv' /\ TodoInv' /\ OpInv'
      BY <1>1 DEF vars, TypeInv, TypeOK, CycleInv, TodoInv, OpInv
    <2>2. \A p \in Procs : CallOK(calls[p])'
      BY <1>1 DEF vars, TypeInv, CallOK, Active, Key
    <2> QED
      BY <2>1, <2>2 DEF TypeInv
  <1>2. CASE Between
    BY <1>2, BetweenOK
  <1>3. ASSUME NEW p \in Procs,
               \/ Start(p) \/ Proceeds(p) \/ Inserts(p) \/ Adopts(p) \/ Releases(p) \/ Completes(p) \/ Defers(p)
               \/ Upserts(p) \/ Builds(p) \/ Readies(p) \/ Installs(p) \/ InstallsRebuilt(p)
               \/ Marks(p) \/ Verifies(p) \/ End(p) \/ Die(p)
        PROVE  TypeInv'
    BY <1>3, StartsTo, StaysTo, InsertsTo, AdoptsTo, ReleasesTo, CompletesTo, DefersTo, UpsertsTo, BuildsTo,
       ReadiesTo, InstallsTo, MarksTo, VerifiesTo, EndsTo, DiesTo
  <1> QED
    BY <1>1, <1>2, <1>3, NextCases

\* Every variable keeps its type, and every call fits its command.
THEOREM TypeCorrect == Spec => []TypeOK
  <1>1. TypeInv => TypeOK
    BY DEF TypeInv
  <1> QED
    BY TypeInit, TypeNext, <1>1, PTL DEF Spec
-----------------------------------------------------------------------------
(* The adoption history of a ToDo.                                         *)

Entry == [cycle : Cycles, status : {"adopted", "released", "resolved"}]

\* h is an account of the row t.
Balanced(h, t) ==
    /\ \A n \in DOMAIN h :
          /\ (h[n].status = "adopted") <=> (n % 2 = 1)
          /\ n % 2 = 0 => h[n].cycle = h[n - 1].cycle
          /\ h[n].status = "resolved" => n = Len(h) /\ t.status = "resolved"
    /\ (t.status = "adopted") <=> (Len(h) % 2 = 1)
    /\ t.status = "adopted" => t.by = h[Len(h)].cycle

LEMMA AllBalanced == AdoptionsAreBalanced <=> \A i \in Ids : Balanced(adoptions[i], todos[i])
  BY DEF AdoptionsAreBalanced, Balanced

LEMMA Parity ==
    \A n \in Nat : n % 2 \in {0, 1} /\ (n % 2 = 0 <=> (n + 1) % 2 = 1) /\ (n % 2 = 1 => n # 0)
  OBVIOUS

LEMMA BalancedRow ==
    ASSUME NEW h \in Seq(Entry), NEW t, NEW u, Balanced(h, t),
           \/ u.status = t.status /\ u.by = t.by
           \/ t.status \notin {"adopted", "resolved"} /\ u.status # "adopted"
           \/ t.status = "resolved" /\ u.status = "resolved"
    PROVE  Balanced(h, u)
  BY DEF Balanced

\* Appending an entry turns who has the ToDo.
LEMMA BalancedAppend ==
    ASSUME NEW h \in Seq(Entry), NEW t, NEW u, Balanced(h, t), t.status # "resolved",
           NEW c \in Cycles, NEW status \in {"adopted", "released", "resolved"},
           \/ status = "adopted" /\ t.status # "adopted" /\ u.status = "adopted" /\ u.by = c
           \/ /\ status # "adopted" /\ t.status = "adopted" /\ t.by = c /\ u.status # "adopted"
              /\ status = "resolved" => u.status = "resolved"
    PROVE  Balanced(Append(h, [cycle |-> c, status |-> status]), u)
  <1> DEFINE e == [cycle |-> c, status |-> status]
             g == Append(h, e)
  <1>1. e \in Entry /\ e.status = status /\ e.cycle = c
    BY DEF Entry
  <1> HIDE DEF e
  <1>2. /\ Len(h) \in Nat /\ Len(g) = Len(h) + 1 /\ DOMAIN h = 1..Len(h) /\ DOMAIN g = 1..(Len(h) + 1)
        /\ g[Len(h) + 1] = e /\ \A n \in 1..Len(h) : g[n] = h[n]
    BY <1>1
  <1>3. Len(h) % 2 \in {0, 1} /\ (Len(h) % 2 = 0 <=> (Len(h) + 1) % 2 = 1) /\ (Len(h) % 2 = 1 => Len(h) # 0)
        /\ (Len(h) + 1) % 2 \in {0, 1}
    BY <1>2, Parity
  <1>4. (t.status = "adopted") <=> (Len(h) % 2 = 1)
    BY DEF Balanced
  <1>5. (status = "adopted") <=> ((Len(h) + 1) % 2 = 1)
    BY <1>3, <1>4
  <1>6. ASSUME NEW n \in DOMAIN g
        PROVE  /\ (g[n].status = "adopted") <=> (n % 2 = 1)
               /\ n % 2 = 0 => g[n].cycle = g[n - 1].cycle
               /\ g[n].status = "resolved" => n = Len(g) /\ u.status = "resolved"
    <2>1. CASE n \in 1..Len(h)
      <3>1. g[n] = h[n] /\ n \in DOMAIN h /\ n \in Nat /\ n # 0
        BY <1>2, <2>1
      <3>2. g[n].status # "resolved"
        BY <3>1 DEF Balanced
      <3>3. n % 2 = 0 => g[n - 1] = h[n - 1]
        <4>1. n % 2 = 0 => n - 1 \in 1..Len(h)
          BY <1>2, <2>1
        <4> QED
          BY <1>2, <4>1
      <3> HIDE DEF g
      <3> QED
        BY <3>1, <3>2, <3>3 DEF Balanced
    <2>2. CASE n = Len(h) + 1
      <3>1. n % 2 = 0 => Len(h) \in 1..Len(h) /\ n - 1 = Len(h) /\ t.by = h[Len(h)].cycle
        BY <1>2, <1>3, <1>4, <2>2 DEF Balanced
      <3>2. g[n] = e
        BY <1>2, <2>2
      <3>3. n % 2 = 0 => g[n - 1] = h[Len(h)] /\ status # "adopted"
        BY <1>2, <1>5, <2>2, <3>1
      <3> HIDE DEF g
      <3> QED
        BY <1>1, <1>2, <1>5, <2>2, <3>1, <3>2, <3>3
    <2> QED
      BY <1>2, <2>1, <2>2
  <1>7. (u.status = "adopted") <=> (Len(g) % 2 = 1)
    BY <1>2, <1>5
  <1>8. u.status = "adopted" => u.by = g[Len(g)].cycle
    BY <1>1, <1>2
  <1> HIDE DEF g
  <1> QED
    BY <1>6, <1>7, <1>8 DEF Balanced, g, e

\* What a step makes of the ToDos: one is created, adopted or completed, or a
\* cycle gives up what it holds.
Rest(i) == \A j \in Ids \ {i} : todos'[j] = todos[j]

Made(i, o) ==
    /\ todos[i].status = "none" /\ Rest(i)
    /\ todos'[i].status = "pending" /\ todos'[i].by = None /\ todos'[i].origin = o

Taken(i, c) ==
    /\ todos[i].status = "pending" /\ Rest(i)
    /\ todos'[i].status = "adopted" /\ todos'[i].by = c /\ todos'[i].origin = todos[i].origin

Closed(i) ==
    /\ todos[i].status \in {"pending", "resolved"} /\ Rest(i)
    /\ todos'[i].status = "resolved" /\ todos'[i].by = None /\ todos'[i].origin = todos[i].origin

GivenUp(c, status) ==
    /\ \A i \in Ids \ AdoptedBy(c) : todos'[i] = todos[i]
    /\ \A i \in AdoptedBy(c) : /\ todos'[i].status = (IF status = "released" THEN "pending" ELSE "resolved")
                               /\ todos'[i].by = None /\ todos'[i].origin = todos[i].origin

LEMMA TodoCases ==
    ASSUME TypeInv, NEW p \in Procs
    PROVE  /\ Inserts(p) => /\ UNCHANGED adoptions
                            /\ UNCHANGED todos \/ \E i \in LegacyIds : Made(i, None)
           /\ Adopts(p) => \/ UNCHANGED <<todos, adoptions>>
                           \/ \E i \in Ids : /\ Taken(i, calls[p].cycle) /\ calls[p].cycle \in Cycles
                                             /\ cycles[calls[p].cycle] # "none"
                                             /\ adoptions' = Appended({i}, calls[p].cycle, "adopted")
           /\ Releases(p) => \/ UNCHANGED <<todos, adoptions>>
                             \/ \E c \in Cycles, status \in {"released", "resolved"} :
                                  /\ Active = {c} /\ GivenUp(c, status)
                                  /\ adoptions' = Appended(AdoptedBy(c), c, status)
           /\ Completes(p) => /\ UNCHANGED adoptions
                              /\ UNCHANGED todos \/ \E i \in Ids : Closed(i)
           /\ Defers(p) => /\ UNCHANGED adoptions
                           /\ UNCHANGED todos \/ \E f \in Findings, a \in Cycles : Made(f, a) /\ Active = {a}
  <1>0. todos \in [Ids -> Todo]
    BY DEF TypeInv, TypeOK
  <1>1. ASSUME NEW i \in Ids, NEW o, todos[i].status = "none",
               todos' = [todos EXCEPT ![i] = [NoTodo EXCEPT !.status = "pending", !.origin = o]]
        PROVE  Made(i, o)
    BY <1>0, <1>1 DEF Made, Rest, NoTodo
  <1>2. ASSUME Inserts(p)
        PROVE  UNCHANGED adoptions /\ (UNCHANGED todos \/ \E i \in LegacyIds : Made(i, None))
    <2>1. CASE Moves(p, Idle)
      BY <2>1 DEF Moves
    <2>2. ASSUME NEW i \in LegacyIds, todos[i].status = "none",
                 todos' = [todos EXCEPT ![i] = [NoTodo EXCEPT !.status = "pending"]]
          PROVE  Made(i, None)
      BY <1>0, <2>2, Bounds DEF Made, Rest, NoTodo
    <2> QED
      BY <1>2, <2>1, <2>2, InsertsTo
  <1>3. ASSUME Adopts(p)
        PROVE  \/ UNCHANGED <<todos, adoptions>>
               \/ \E i \in Ids : /\ Taken(i, calls[p].cycle) /\ calls[p].cycle \in Cycles
                                 /\ cycles[calls[p].cycle] # "none"
                                 /\ adoptions' = Appended({i}, calls[p].cycle, "adopted")
    <2>1. CASE Moves(p, Idle)
      BY <2>1 DEF Moves
    <2>2. ASSUME NEW i \in Ids, todos[i].status = "pending",
                 todos' = [todos EXCEPT ![i] = [todos[i] EXCEPT !.status = "adopted", !.by = calls[p].cycle]]
          PROVE  Taken(i, calls[p].cycle)
      BY <1>0, <2>2 DEF Taken, Rest, Todo
    <2> QED
      BY <1>3, <2>1, <2>2, AdoptsTo
  <1>4. ASSUME Releases(p)
        PROVE  \/ UNCHANGED <<todos, adoptions>>
               \/ \E c \in Cycles, status \in {"released", "resolved"} :
                    /\ Active = {c} /\ GivenUp(c, status)
                    /\ adoptions' = Appended(AdoptedBy(c), c, status)
    <2>1. CASE Moves(p, Idle)
      BY <2>1 DEF Moves
    <2>2. ASSUME NEW c \in Cycles, NEW status \in {"released", "resolved"},
                 todos' = [i \in Ids |->
                   IF i \in AdoptedBy(c)
                   THEN [todos[i] EXCEPT !.by = None,
                           !.status = IF status = "released" THEN "pending" ELSE "resolved"]
                   ELSE todos[i]]
          PROVE  GivenUp(c, status)
      BY <1>0, <2>2 DEF GivenUp, AdoptedBy, Todo
    <2>3. CASE ~Moves(p, Idle)
      <3>1. PICK c \in Cycles, status \in {"released", "resolved"} :
              /\ Active = {c} /\ adoptions' = Appended(AdoptedBy(c), c, status)
              /\ todos' = [i \in Ids |->
                   IF i \in AdoptedBy(c)
                   THEN [todos[i] EXCEPT !.by = None,
                           !.status = IF status = "released" THEN "pending" ELSE "resolved"]
                   ELSE todos[i]]
        BY <1>4, <2>3, ReleasesTo
      <3>2. GivenUp(c, status)
        BY <2>2, <3>1
      <3> QED
        BY <3>1, <3>2
    <2> QED
      BY <2>1, <2>3
  <1>5. ASSUME Completes(p)
        PROVE  UNCHANGED adoptions /\ (UNCHANGED todos \/ \E i \in Ids : Closed(i))
    <2> DEFINE i == Pick(calls[p].ids)
    <2>1. i \in Ids /\ UNCHANGED adoptions
      BY <1>5, CompletesTo
    <2>2. \/ UNCHANGED todos
          \/ /\ todos[i].status \in {"pending", "resolved"}
             /\ todos' = [todos EXCEPT ![i] = [todos[i] EXCEPT !.status = "resolved", !.noted = TRUE]]
      BY <1>5, CompletesTo DEF Moves
    <2> HIDE DEF i
    <2>3. ASSUME todos[i].status \in {"pending", "resolved"},
                 todos' = [todos EXCEPT ![i] = [todos[i] EXCEPT !.status = "resolved", !.noted = TRUE]]
          PROVE  Closed(i)
      <3>1. todos[i].by = None
        BY <2>1, <2>3 DEF TypeInv, TodoInv
      <3> QED
        BY <1>0, <2>1, <2>3, <3>1 DEF Closed, Rest, Todo
    <2> QED
      BY <2>1, <2>2, <2>3
  <1>6. ASSUME Defers(p)
        PROVE  UNCHANGED adoptions /\ (UNCHANGED todos \/ \E f \in Findings, a \in Cycles : Made(f, a) /\ Active = {a})
    <2> DEFINE f == Pick(calls[p].ids)
    <2>1. f \in Findings /\ f \in Ids /\ UNCHANGED adoptions
      BY <1>6, DefersTo, Bounds
    <2>2. \/ UNCHANGED todos
          \/ \E a \in Cycles : /\ Active = {a} /\ todos[f].status = "none"
                               /\ todos' = [todos EXCEPT ![f] = [NoTodo EXCEPT !.status = "pending", !.origin = a]]
      BY <1>6, DefersTo DEF Moves
    <2> HIDE DEF f
    <2> QED
      BY <1>1, <2>1, <2>2
  <1> QED
    BY <1>2, <1>3, <1>4, <1>5, <1>6

\* Who changes ToDos.
LEMMA TodoSteps ==
    ASSUME TypeInv, [Next]_vars
    PROVE  \/ UNCHANGED <<todos, adoptions>>
           \/ \E p \in Procs : Inserts(p) \/ Adopts(p) \/ Releases(p) \/ Completes(p) \/ Defers(p)
  <1>1. CASE UNCHANGED vars
    BY <1>1 DEF vars
  <1>2. CASE Between
    BY <1>2, BetweenOK
  <1>3. ASSUME NEW p \in Procs, Start(p) PROVE UNCHANGED <<todos, adoptions>>
    BY <1>3, StartsTo
  <1>4. ASSUME NEW p \in Procs, Proceeds(p) PROVE UNCHANGED <<todos, adoptions>>
    BY <1>4, StaysTo DEF Moves
  <1>5. ASSUME NEW p \in Procs, Upserts(p) \/ Builds(p) \/ Readies(p) \/ Installs(p) \/ InstallsRebuilt(p)
                                \/ Marks(p) \/ Verifies(p) \/ End(p) \/ Die(p)
        PROVE UNCHANGED <<todos, adoptions>>
    BY <1>5 DEF Upserts, Builds, Readies, Installs, InstallsRebuilt, Marks, Verifies, End, Engine, Settles, Die
  <1> QED
    BY <1>1, <1>2, <1>3, <1>4, <1>5, NextCases

LEMMA TodoMoves ==
    ASSUME TypeInv, [Next]_vars
    PROVE  \/ UNCHANGED <<todos, adoptions>>
           \/ /\ UNCHANGED adoptions
              /\ \/ \E i \in LegacyIds : Made(i, None)
                 \/ \E f \in Findings, a \in Cycles : Made(f, a) /\ Active = {a}
                 \/ \E i \in Ids : Closed(i)
           \/ \E i \in Ids, c \in Cycles : /\ Taken(i, c) /\ cycles[c] # "none"
                                           /\ adoptions' = Appended({i}, c, "adopted")
           \/ \E c \in Cycles, status \in {"released", "resolved"} :
                /\ Active = {c} /\ GivenUp(c, status)
                /\ adoptions' = Appended(AdoptedBy(c), c, status)
  <1>1. CASE UNCHANGED <<todos, adoptions>>
    BY <1>1
  <1>2. ASSUME NEW p \in Procs, Adopts(p)
        PROVE  \/ UNCHANGED <<todos, adoptions>>
               \/ \E i \in Ids, c \in Cycles : /\ Taken(i, c) /\ cycles[c] # "none"
                                               /\ adoptions' = Appended({i}, c, "adopted")
    BY <1>2, TodoCases
  <1> QED
    BY <1>1, <1>2, TodoSteps, TodoCases

\* A ToDo is never taken away, nor is its origin, and a resolved one stays so.
TodosGrow ==
    \A i \in Ids :
        /\ todos[i].status # "none" => todos'[i].status # "none" /\ todos'[i].origin = todos[i].origin
        /\ todos[i].status = "resolved" => todos'[i].status = "resolved"

LEMMA Growing ==
    ASSUME TypeInv, [Next]_vars
    PROVE  TodosGrow
  <1>1. ASSUME NEW i \in Ids, NEW o, Made(i, o) PROVE TodosGrow
    BY <1>1 DEF Made, Rest, TodosGrow
  <1>2. ASSUME NEW i \in Ids, Closed(i) PROVE TodosGrow
    BY <1>2 DEF Closed, Rest, TodosGrow
  <1>3. ASSUME NEW i \in Ids, NEW c, Taken(i, c) PROVE TodosGrow
    BY <1>3 DEF Taken, Rest, TodosGrow
  <1>4. ASSUME NEW c, NEW status, GivenUp(c, status) PROVE TodosGrow
    BY <1>4 DEF GivenUp, AdoptedBy, TodosGrow
  <1>5. CASE UNCHANGED todos
    BY <1>5 DEF TodosGrow
  <1> QED
    BY <1>1, <1>2, <1>3, <1>4, <1>5, TodoMoves, Bounds

LEMMA BalanceStep ==
    ASSUME TypeInv, AdoptionsAreBalanced, [Next]_vars
    PROVE  AdoptionsAreBalanced'
  <1>0. \A i \in Ids : adoptions[i] \in Seq(Entry) /\ Balanced(adoptions[i], todos[i])
    BY AllBalanced DEF TypeInv, TypeOK, Entry
  <1>1. ASSUME \A i \in Ids : Balanced(adoptions'[i], todos'[i])
        PROVE  AdoptionsAreBalanced'
    BY <1>1 DEF AdoptionsAreBalanced, Balanced
  <1>2. ASSUME adoptions' = adoptions,
               \A i \in Ids : \/ todos'[i].status = todos[i].status /\ todos'[i].by = todos[i].by
                              \/ todos[i].status \notin {"adopted", "resolved"} /\ todos'[i].status # "adopted"
                              \/ todos[i].status = "resolved" /\ todos'[i].status = "resolved"
        PROVE  AdoptionsAreBalanced'
    BY <1>0, <1>1, <1>2, BalancedRow
  <1>3. CASE UNCHANGED <<todos, adoptions>>
    BY <1>2, <1>3
  <1>4. ASSUME NEW i \in Ids, NEW o, Made(i, o), adoptions' = adoptions PROVE AdoptionsAreBalanced'
    BY <1>2, <1>4 DEF Made, Rest
  <1>5. ASSUME NEW i \in Ids, Closed(i), adoptions' = adoptions PROVE AdoptionsAreBalanced'
    BY <1>2, <1>5 DEF Closed, Rest
  <1>6. ASSUME NEW S \in SUBSET Ids, NEW c \in Cycles, NEW status \in {"adopted", "released", "resolved"},
               adoptions' = Appended(S, c, status), \A i \in Ids \ S : todos'[i] = todos[i],
               \A i \in S : /\ todos[i].status # "resolved"
                            /\ \/ /\ status = "adopted" /\ todos[i].status # "adopted"
                                  /\ todos'[i].status = "adopted" /\ todos'[i].by = c
                               \/ /\ status # "adopted" /\ todos[i].status = "adopted" /\ todos[i].by = c
                                  /\ todos'[i].status # "adopted"
                                  /\ status = "resolved" => todos'[i].status = "resolved"
        PROVE  AdoptionsAreBalanced'
    <2>1. ASSUME NEW i \in Ids \ S PROVE Balanced(adoptions'[i], todos'[i])
      BY <1>0, <1>6, <2>1 DEF Appended
    <2>2. ASSUME NEW i \in S PROVE Balanced(adoptions'[i], todos'[i])
      <3>0. i \in Ids
        OBVIOUS
      <3>1. adoptions'[i] = Append(adoptions[i], [cycle |-> c, status |-> status])
        BY <1>6, <3>0 DEF Appended
      <3>2. Balanced(Append(adoptions[i], [cycle |-> c, status |-> status]), todos'[i])
        <4>1. adoptions[i] \in Seq(Entry) /\ Balanced(adoptions[i], todos[i]) /\ todos[i].status # "resolved"
          BY <1>0, <1>6, <3>0
        <4>2. \/ status = "adopted" /\ todos[i].status # "adopted" /\ todos'[i].status = "adopted" /\ todos'[i].by = c
              \/ /\ status # "adopted" /\ todos[i].status = "adopted" /\ todos[i].by = c /\ todos'[i].status # "adopted"
                 /\ status = "resolved" => todos'[i].status = "resolved"
          BY <1>6
        <4> QED
          BY <4>1, <4>2, BalancedAppend
      <3> QED
        BY <3>1, <3>2
    <2> QED
      BY <1>1, <2>1, <2>2
  <1>7. ASSUME NEW i \in Ids, NEW c \in Cycles, Taken(i, c), adoptions' = Appended({i}, c, "adopted")
        PROVE  AdoptionsAreBalanced'
    BY <1>6, <1>7 DEF Taken, Rest
  <1>8. ASSUME NEW c \in Cycles, NEW status \in {"released", "resolved"}, GivenUp(c, status),
               adoptions' = Appended(AdoptedBy(c), c, status)
        PROVE  AdoptionsAreBalanced'
    <2>1. /\ AdoptedBy(c) \in SUBSET Ids
          /\ \A i \in AdoptedBy(c) : /\ todos[i].status = "adopted" /\ todos[i].by = c
                                     /\ todos'[i].status # "adopted"
                                     /\ status = "resolved" => todos'[i].status = "resolved"
      BY <1>8 DEF GivenUp, AdoptedBy
    <2>2. \A i \in Ids \ AdoptedBy(c) : todos'[i] = todos[i]
      BY <1>8 DEF GivenUp
    <2>3. status \in {"adopted", "released", "resolved"} /\ status # "adopted"
      OBVIOUS
    <2>4. \A i \in AdoptedBy(c) : todos[i].status # "resolved"
      BY <2>1
    <2> QED
      BY <1>6, <1>8, <2>1, <2>2, <2>3, <2>4
  <1> QED
    BY <1>3, <1>4, <1>5, <1>7, <1>8, TodoMoves, Bounds

LEMMA BalanceInit == Init => AdoptionsAreBalanced
  BY DEF Init, AdoptionsAreBalanced, NoTodo

\* Through retries, deaths and overlapping commands every adoption is given up
\* or resolved at most once, by the cycle that made it.
THEOREM Accounts == Spec => []AdoptionsAreBalanced
  <1>1. TypeInv /\ AdoptionsAreBalanced /\ [Next]_vars => (TypeInv /\ AdoptionsAreBalanced)'
    BY TypeNext, BalanceStep
  <1> QED
    BY TypeInit, BalanceInit, <1>1, PTL DEF Spec
-----------------------------------------------------------------------------
(* What every step keeps.                                                  *)

\* A fault is remembered, unless it is cured.
LEMMA FaultsStay ==
    ASSUME TypeInv, [Next]_vars
    PROVE  \A f \in history.faults \ {"interrupted"} : f \in history'.faults
  <1>1. CASE UNCHANGED history
    BY <1>1
  <1>2. ASSUME NEW p \in Procs, Start(p) PROVE history'.faults = history.faults
    BY <1>2, StartsTo
  <1>3. ASSUME NEW p \in Procs, Inserts(p) \/ Adopts(p)
        PROVE  history.faults \subseteq history'.faults
    BY <1>3, InsertsTo, AdoptsTo DEF Moves
  <1>4. ASSUME NEW p \in Procs, Upserts(p) PROVE history.faults \subseteq history'.faults
    BY <1>4, UpsertsTo
  <1>5. ASSUME NEW p \in Procs, Installs(p) \/ InstallsRebuilt(p)
        PROVE  history.faults \ {"interrupted"} \subseteq history'.faults
    BY <1>5, InstallsTo DEF Replaced, Moves
  <1>6. ASSUME NEW p \in Procs, Verifies(p) \/ Die(p) PROVE history.faults \subseteq history'.faults
    BY <1>6, VerifiesTo, DiesTo DEF Gone
  <1>7. ASSUME NEW p \in Procs,
               Proceeds(p) \/ Releases(p) \/ Completes(p) \/ Defers(p) \/ Builds(p) \/ Readies(p) \/ Marks(p) \/ End(p)
        PROVE  UNCHANGED history
    BY <1>7 DEF Proceeds, Promotes, Allocates, Loads, Releases, Completes, Defers, Builds, Readies, Marks,
                End, Engine, Settles
  <1>8. CASE Between
    BY <1>8, BetweenOK
  <1> QED
    BY <1>1, <1>2, <1>3, <1>4, <1>5, <1>6, <1>7, <1>8, NextCases DEF vars

\* A step of a command leaves the others to go on.
Acts(p) ==
    \/ Start(p) \/ Proceeds(p) \/ Inserts(p) \/ Adopts(p) \/ Releases(p) \/ Completes(p) \/ Defers(p)
    \/ Upserts(p) \/ Builds(p) \/ Readies(p) \/ Installs(p) \/ InstallsRebuilt(p)
    \/ Marks(p) \/ Verifies(p) \/ End(p) \/ Die(p)

Left(q) ==
    /\ SameCall(calls'[q], calls[q])
    /\ calls[q].late => calls'[q].late
    /\ calls'[q].alone => calls[q].alone

LEMMA OwnStep ==
    ASSUME TypeInv, NEW p \in Procs, Acts(p)
    PROVE  \A q \in Procs \ {p} : Left(q)
  <1>0. calls \in [Procs -> Call]
    BY DEF TypeInv, TypeOK
  <1>2. ASSUME Start(p) PROVE \A q \in Procs \ {p} : Left(q)
    BY <1>2, StartsTo DEF Left
  <1>3. ASSUME NEW d, calls' = [calls EXCEPT ![p] = d]
        PROVE  \A q \in Procs \ {p} : Left(q)
    BY <1>0, <1>3 DEF SameCall, Left
  <1>4. ASSUME \/ Proceeds(p) \/ Inserts(p) \/ Adopts(p) \/ Releases(p) \/ Completes(p) \/ Defers(p)
        PROVE  \A q \in Procs \ {p} : Left(q)
    <2>1. CASE Proceeds(p) BY <1>3, <2>1, StaysTo DEF Moves
    <2>2. CASE Inserts(p) BY <1>3, <2>2, InsertsTo DEF Moves
    <2>3. CASE Adopts(p) BY <1>3, <2>3, AdoptsTo DEF Moves
    <2>4. CASE Releases(p) BY <1>3, <2>4, ReleasesTo DEF Moves
    <2>5. CASE Completes(p)
      <3>1. \E e : calls' = [calls EXCEPT ![p] = e]
        BY <2>5, CompletesTo DEF Moves
      <3> QED
        BY <1>3, <3>1
    <2>6. CASE Defers(p)
      <3>1. \E e : calls' = [calls EXCEPT ![p] = e]
        BY <2>6, DefersTo DEF Moves
      <3> QED
        BY <1>3, <3>1
    <2> QED
      BY <1>4, <2>1, <2>2, <2>3, <2>4, <2>5, <2>6
  <1>5. ASSUME \/ Upserts(p) \/ Builds(p) \/ Readies(p) \/ Marks(p) \/ Verifies(p) \/ End(p) \/ Die(p)
        PROVE  \A q \in Procs \ {p} : Left(q)
    <2>1. CASE Upserts(p) BY <1>3, <2>1, UpsertsTo
    <2>2. CASE Builds(p)
      <3>1. \E e : calls' = [calls EXCEPT ![p] = e]
        BY <2>2, BuildsTo
      <3> QED
        BY <1>3, <3>1
    <2>3. CASE Readies(p) BY <1>3, <2>3, ReadiesTo
    <2>4. CASE Marks(p) BY <1>3, <2>4, MarksTo
    <2>5. CASE Verifies(p) BY <1>3, <2>5, VerifiesTo DEF Gone
    <2>6. CASE End(p) BY <1>3, <2>6, EndsTo
    <2>7. CASE Die(p) BY <1>3, <2>7, DiesTo DEF Gone
    <2> QED
      BY <1>5, <2>1, <2>2, <2>3, <2>4, <2>5, <2>6, <2>7
  <1>6. ASSUME Installs(p) \/ InstallsRebuilt(p)
        PROVE  \A q \in Procs \ {p} : Left(q)
    <2>1. CASE Replaced(p)
      BY <2>1 DEF Replaced, Left
    <2>2. CASE ~Replaced(p)
      <3>1. \E e : calls' = [calls EXCEPT ![p] = e]
        BY <1>6, <2>2, InstallsTo DEF Moves
      <3> QED
        BY <1>3, <3>1
    <2> QED
      BY <2>1, <2>2
  <1> QED
    BY <1>2, <1>4, <1>5, <1>6 DEF Acts
-----------------------------------------------------------------------------
(* A deferred finding has a ToDo.                                          *)

\* The active cycle is the last one, so no ToDo comes from a later one.
LEMMA OriginBound ==
    ASSUME TypeInv, NEW a \in Active, NEW i \in Ids
    PROVE  todos[i].origin <= a
  <1>1. a \in Cycles /\ cycles[a] = "active" /\ todos[i].origin \in Cycles \cup {None}
    BY DEF Active, TypeInv, TypeOK, Todo
  <1>2. CASE todos[i].origin = None
    BY <1>1, <1>2, Bounds
  <1>3. CASE todos[i].origin \in Cycles
    <2>1. cycles[todos[i].origin] # "none"
      BY <1>3, Bounds DEF TypeInv, TodoInv
    <2>2. ~(todos[i].origin > a)
      BY <1>1, <1>3, <2>1 DEF TypeInv, CycleInv
    <2>3. a \in Nat /\ todos[i].origin \in Nat
      BY <1>1, <1>3, Bounds
    <2> QED
      BY <2>2, <2>3
  <1> QED
    BY <1>1, <1>2, <1>3

LEMMA DeferredStep ==
    ASSUME TypeInv, DeferredIsKept, [Next]_vars
    PROVE  DeferredIsKept'
  <1>0. findings \in [Cycles -> [Findings -> FindingStatuses]] /\ Findings \subseteq Ids
    BY Bounds DEF TypeInv, TypeOK
  <1>1. ASSUME \A c \in Cycles, f \in Findings :
                 findings'[c][f] = "deferred_todo" => findings[c][f] = "deferred_todo"
        PROVE  DeferredIsKept'
    BY <1>0, <1>1, Growing DEF TodosGrow, DeferredIsKept
  <1>2. CASE UNCHANGED findings
    BY <1>1, <1>2
  <1>3. CASE Report
    <2>1. PICK c \in Active, f \in Findings, new \in FindingStatuses :
            Reported(findings[c][f], new) /\ findings' = [findings EXCEPT ![c][f] = new]
      BY <1>3 DEF Report
    <2>2. new # "deferred_todo" /\ c \in Cycles
      BY <2>1 DEF Reported, Active
    <2> QED
      BY <1>0, <1>1, <2>1, <2>2
  <1>4. ASSUME NEW p \in Procs, Defers(p) PROVE DeferredIsKept'
    <2> DEFINE f == Pick(calls[p].ids)
    <2>1. f \in Findings
      BY <1>4, DefersTo
    <2>2. \/ UNCHANGED findings
          \/ \E a \in Cycles :
               /\ Active = {a} /\ findings' = [findings EXCEPT ![a][f] = "deferred_todo"]
               /\ \/ todos[f].status # "none" /\ todos' = todos
                  \/ todos[f].status = "none"
                     /\ todos' = [todos EXCEPT ![f] = [NoTodo EXCEPT !.status = "pending", !.origin = a]]
      BY <1>4, DefersTo DEF Moves
    <2> HIDE DEF f
    <2>3. ASSUME NEW a \in Cycles, Active = {a}, findings' = [findings EXCEPT ![a][f] = "deferred_todo"],
                 \/ todos[f].status # "none" /\ todos' = todos
                 \/ todos[f].status = "none"
                    /\ todos' = [todos EXCEPT ![f] = [NoTodo EXCEPT !.status = "pending", !.origin = a]]
          PROVE  DeferredIsKept'
      <3>1. todos'[f].status # "none" /\ todos'[f].origin <= a
        <4>1. todos \in [Ids -> Todo]
          BY DEF TypeInv, TypeOK
        <4>2. a \in Nat /\ a \in Active
          BY <2>3, Bounds
        <4>3. f \in Ids
          BY <1>0, <2>1
        <4>4. CASE todos[f].status # "none" /\ todos' = todos
          BY <4>2, <4>3, <4>4, OriginBound
        <4>5. CASE todos' = [todos EXCEPT ![f] = [NoTodo EXCEPT !.status = "pending", !.origin = a]]
          BY <4>1, <4>2, <4>3, <4>5 DEF NoTodo
        <4> QED
          BY <2>3, <4>4, <4>5
      <3>2. \A c \in Cycles, g \in Findings :
              findings'[c][g] = "deferred_todo" => findings[c][g] = "deferred_todo" \/ (c = a /\ g = f)
        BY <1>0, <2>1, <2>3
      <3> QED
        BY <1>0, <3>1, <3>2, Growing DEF TodosGrow, DeferredIsKept
    <2> QED
      BY <1>2, <2>2, <2>3
  <1>5. ASSUME NEW p \in Procs,
               \/ Start(p) \/ Proceeds(p) \/ Inserts(p) \/ Adopts(p) \/ Releases(p) \/ Completes(p)
        PROVE  UNCHANGED findings
    BY <1>5, StartsTo, StaysTo, InsertsTo, AdoptsTo, ReleasesTo, CompletesTo DEF Moves
  <1>6. ASSUME NEW p \in Procs,
               \/ Upserts(p) \/ Builds(p) \/ Readies(p) \/ Installs(p) \/ InstallsRebuilt(p)
               \/ Marks(p) \/ Verifies(p) \/ End(p) \/ Die(p)
        PROVE  UNCHANGED findings
    BY <1>6 DEF Upserts, Builds, Readies, Installs, InstallsRebuilt, Marks, Verifies, End, Engine, Settles, Die
  <1>7. CASE Between
    BY <1>2, <1>3, <1>7 DEF Between, NewCycle, Escalate, Clean
  <1> QED
    BY <1>2, <1>4, <1>5, <1>6, <1>7, NextCases DEF vars

\* A finding that was deferred is kept by a ToDo under its id.
THEOREM DeferralIsKept == Spec => []DeferredIsKept
  <1>1. Init => DeferredIsKept
    BY DEF Init, DeferredIsKept
  <1>2. TypeInv /\ DeferredIsKept /\ [Next]_vars => (TypeInv /\ DeferredIsKept)'
    BY TypeNext, DeferredStep
  <1> QED
    BY TypeInit, <1>1, <1>2, PTL DEF Spec
-----------------------------------------------------------------------------
(* Cycles that end hold no ToDo.                                           *)

\* A command goes on as it was started.
LEMMA Onward ==
    ASSUME TypeInv, [Next]_vars, NEW q \in Procs, calls'[q].cmd \in Ending,
           calls'[q].pc \notin {"idle", "release", "resolve"}
    PROVE  \/ calls[q].cmd = calls'[q].cmd /\ calls[q].pc \notin {"idle", "release", "resolve"}
           \/ Releases(q)
           \/ Start(q) /\ calls'[q].pc = "engine"
  <1> DEFINE c == calls[q]
             d == calls'[q]
             Goal == \/ c.cmd = d.cmd /\ c.pc \notin {"idle", "release", "resolve"}
                     \/ Releases(q)
                     \/ Start(q) /\ d.pc = "engine"
  <1>0. calls \in [Procs -> Call]
    BY DEF TypeInv, TypeOK
  <1>1. CASE SameCall(d, c)
    BY <1>1 DEF SameCall
  <1>2. CASE UNCHANGED calls
    BY <1>2
  <1>3. ASSUME Start(q) PROVE Goal
    <2>1. CallOK(calls[q])' /\ d.pc \in {"adopt", "promote", "complete", "defer", "engine", "resolve", "release"}
      BY <1>3, StartsTo DEF TypeInv
    <2> QED
      BY <1>3, <2>1 DEF CallOK, Ending, Looking
  <1>4. ASSUME NEW e, calls' = [calls EXCEPT ![q] = e],
               e.cmd \in Ending => e.cmd = c.cmd /\ c.pc \notin {"idle", "release", "resolve"}
        PROVE  Goal
    BY <1>0, <1>4
  <1>5. ASSUME NEW e, calls' = [calls EXCEPT ![q] = e], e = Idle
        PROVE  Goal
    BY <1>0, <1>5 DEF Idle
  <1> HIDE DEF Goal
  <1>6. ASSUME Proceeds(q) PROVE Goal
    <2>1. CASE Loads(q)
      <3>1. PICK e \in Call : /\ calls' = [calls EXCEPT ![q] = e] /\ c.pc = "load"
                              /\ e.cmd = c.cmd \/ DoneAs(c, e)
        BY <2>1, LoadsTo
      <3> QED
        BY <1>4, <3>1 DEF DoneAs
    <2>2. CASE Promotes(q) \/ Allocates(q)
      <3>1. PICK e \in Call : calls' = [calls EXCEPT ![q] = e] /\ e.cmd \in {"adopt", "complete"}
        BY <2>2, PromotesTo
      <3> QED
        BY <1>4, <3>1 DEF Ending
    <2> QED
      BY <1>6, <2>1, <2>2 DEF Proceeds
  <1>7. ASSUME Inserts(q) \/ Adopts(q) \/ Completes(q) \/ Defers(q) PROVE Goal
    <2>1. \/ calls' = [calls EXCEPT ![q] = Idle]
          \/ \E e : calls' = [calls EXCEPT ![q] = e] /\ e.cmd \in {"adopt", "complete", "defer"}
      <3>1. CASE Inserts(q)
        BY <3>1, InsertsTo DEF Moves
      <3>2. CASE Adopts(q)
        BY <3>2, AdoptsTo DEF Moves
      <3>3. CASE Completes(q)
        BY <3>3, CompletesTo DEF Moves
      <3>4. CASE Defers(q)
        BY <3>4, DefersTo DEF Moves
      <3> QED
        BY <1>7, <3>1, <3>2, <3>3, <3>4
    <2> QED
      BY <1>4, <1>5, <2>1 DEF Ending
  <1>8. ASSUME Upserts(q) \/ Builds(q) \/ Readies(q) \/ Marks(q) PROVE Goal
    <2>1. \E e : /\ calls' = [calls EXCEPT ![q] = e] /\ e.cmd = c.cmd
                 /\ c.pc \in {"upsert", "build", "ready", "mark"}
      <3>1. CASE Upserts(q)
        BY <3>1, UpsertsTo
      <3>2. CASE Builds(q)
        BY <3>2, BuildsTo
      <3>3. CASE Readies(q)
        BY <3>3, ReadiesTo
      <3>4. CASE Marks(q)
        BY <3>4, MarksTo
      <3> QED
        BY <1>8, <3>1, <3>2, <3>3, <3>4
    <2> QED
      BY <1>4, <2>1
  <1>9. ASSUME Installs(q) \/ InstallsRebuilt(q) PROVE Goal
    <2>1. CASE Replaced(q)
      BY <2>1 DEF Replaced, Goal
    <2>2. CASE ~Replaced(q)
      <3>1. PICK e \in Call : calls' = [calls EXCEPT ![q] = e] /\ c.pc = "install" /\ e.cmd = c.cmd
        BY <1>9, <2>2, InstallsTo DEF Moves
      <3> QED
        BY <1>4, <3>1
    <2> QED
      BY <2>1, <2>2
  <1>10. ASSUME Verifies(q) PROVE Goal
    <2>1. \/ calls' = [calls EXCEPT ![q] = Idle]
          \/ calls' = [calls EXCEPT ![q] = Done(c)] /\ DoneAs(c, Done(c)) /\ c.pc = "verify"
      BY <1>10, VerifiesTo DEF Gone
    <2> QED
      BY <1>4, <1>5, <2>1 DEF DoneAs
  <1>11. ASSUME End(q) \/ Die(q) PROVE Goal
    BY <1>5, <1>11, EndsTo, DiesTo DEF Gone
  <1>12. CASE Next
    <2>1. CASE Between
      BY <1>2, <2>1, BetweenOK
    <2>2. ASSUME NEW p \in Procs, p # q,
                 Acts(p)
          PROVE  SameCall(d, c)
      BY <2>2, OwnStep DEF Left
    <2>3. CASE Acts(q)
      BY <1>3, <1>6, <1>7, <1>8, <1>9, <1>10, <1>11, <2>3 DEF Goal, Acts
    <2>4. Between \/ \E p \in Procs : Acts(p)
      BY <1>12, NextCases DEF Acts
    <2>5. SameCall(d, c) => Goal
      BY <1>1 DEF Goal
    <2>6. ASSUME NEW p \in Procs, Acts(p) PROVE Goal
      <3>1. CASE p = q
        BY <2>3, <2>6, <3>1 DEF Goal
      <3>2. CASE p # q
        BY <2>2, <2>5, <2>6, <3>2
      <3> QED
        BY <3>1, <3>2
    <2>7. Goal
      BY <2>1, <2>4, <2>6 DEF Goal
    <2> QED
      BY <2>7 DEF Goal
  <1> QED
    BY <1>2, <1>12 DEF vars, Goal

\* Who ends cycles, and when one begins.
LEMMA CycleSteps ==
    ASSUME TypeInv, [Next]_vars
    PROVE  \/ UNCHANGED cycles
           \/ Between
           \/ /\ UNCHANGED <<findings, todos, adoptions, ops, candidates, file, history>> /\ Active' \subseteq Active
              /\ \E p \in Procs, a \in Cycles, status \in {"cancelled", "finished", "deferred"} :
                   /\ End(p) /\ Active = {a} /\ cycles' = [cycles EXCEPT ![a] = status]
                   /\ status = "deferred" <=> calls[p].pc = "settle"
                   /\ status # "deferred" => calls[p].cmd \in Ending
  <1>1. ASSUME NEW p \in Procs, End(p)
        PROVE  \/ UNCHANGED cycles
               \/ /\ UNCHANGED <<findings, todos, adoptions, ops, candidates, file, history>> /\ Active' \subseteq Active
                  /\ \E a \in Cycles, status \in {"cancelled", "finished", "deferred"} :
                       /\ Active = {a} /\ cycles' = [cycles EXCEPT ![a] = status]
                       /\ status = "deferred" <=> calls[p].pc = "settle"
                       /\ status # "deferred" => calls[p].cmd \in Ending
    BY <1>1, EndsTo
  <1>2. ASSUME NEW p \in Procs, Acts(p), ~End(p) PROVE UNCHANGED cycles
    <2>1. CASE Start(p) \/ Proceeds(p)
      BY <2>1, StartsTo, StaysTo DEF Moves
    <2>2. CASE ~(Start(p) \/ Proceeds(p))
      BY <1>2, <2>2 DEF Acts, Inserts, Adopts, Releases, Completes, Defers, Upserts, Builds, Readies, Installs,
                        InstallsRebuilt, Marks, Verifies, Die
    <2> QED
      BY <2>1, <2>2
  <1>3. CASE UNCHANGED vars
    BY <1>3 DEF vars
  <1>4. CASE Next
    <2>1. Between \/ \E p \in Procs : Acts(p)
      BY <1>4, NextCases DEF Acts
    <2> QED
      BY <1>1, <1>2, <2>1
  <1> QED
    BY <1>3, <1>4

\* A ToDo comes to a cycle by an adoption; what a command that ends cycles has
\* still to take, or an ended cycle, makes that a fault.
LEMMA AdoptedNew ==
    ASSUME TypeInv, [Next]_vars, NEW c \in Cycles, NEW i \in AdoptedBy(c)', i \notin AdoptedBy(c),
           "crossed" \notin history'.faults
    PROVE  /\ c \in Active
           /\ \A q \in Procs : calls'[q].cmd \in Ending => calls'[q].pc = "idle"
           /\ UNCHANGED cycles
  <1>0. todos \in [Ids -> Todo] /\ i \in Ids /\ todos'[i].status = "adopted" /\ todos'[i].by = c
    BY DEF AdoptedBy, TypeInv, TypeOK
  <1>1. PICK p \in Procs : Adopts(p)
    <2>1. ASSUME UNCHANGED todos PROVE FALSE
      BY <2>1 DEF AdoptedBy
    <2>2. ASSUME NEW j \in Ids, NEW o, Made(j, o) \/ Closed(j) PROVE FALSE
      BY <1>0, <2>2 DEF Made, Closed, Rest, AdoptedBy
    <2>3. ASSUME NEW a, NEW status, GivenUp(a, status) PROVE FALSE
      <3>1. CASE i \in AdoptedBy(a)
        BY <1>0, <2>3, <3>1, Bounds DEF GivenUp
      <3>2. CASE i \notin AdoptedBy(a)
        BY <1>0, <2>3, <3>2 DEF GivenUp, AdoptedBy
      <3> QED
        BY <3>1, <3>2
    <2>4. ASSUME NEW p \in Procs, Inserts(p) \/ Releases(p) \/ Completes(p) \/ Defers(p) PROVE FALSE
      <3>1. \/ UNCHANGED todos \/ \E j \in Ids : Closed(j) \/ \E o : Made(j, o)
            \/ \E a, status : GivenUp(a, status)
        BY <2>4, TodoCases, Bounds
      <3> QED
        BY <2>1, <2>2, <2>3, <3>1
    <2> QED
      BY <2>1, <2>4, TodoSteps
  <1>2. todos' # todos
    BY DEF AdoptedBy
  <1>3. PICK j \in Ids, d \in Call :
          /\ calls' = [calls EXCEPT ![p] = d] /\ calls[p].pc = "adopt" /\ calls[p].cycle \in Cycles
          /\ d.pc = "upsert" /\ d.cmd = "adopt" /\ ~d.built
          /\ todos[j].status = "pending" /\ cycles[calls[p].cycle] # "none"
          /\ todos' = [todos EXCEPT ![j] = [todos[j] EXCEPT !.status = "adopted", !.by = calls[p].cycle]]
          /\ adoptions' = Appended({j}, calls[p].cycle, "adopted")
          /\ history'.faults = history.faults \cup
               (IF \/ \E q \in Procs \ {p} : calls[q].pc # "idle" /\ calls[q].cmd \notin {"adopt", "complete"}
                   \/ calls[p].cycle \notin Active
                THEN {"crossed"} ELSE {})
          /\ UNCHANGED <<cycles, escalated, findings, ops, candidates, file>>
    <2>1. ~Moves(p, Idle)
      BY <1>2 DEF Moves
    <2> QED
      BY <1>1, <2>1, AdoptsTo
  <1>4. calls[p].cycle = c
    <2>1. i = j
      BY <1>0, <1>3 DEF AdoptedBy
    <2> QED
      BY <1>0, <1>3, <2>1 DEF Todo
  <1>5. ~\E q \in Procs \ {p} : calls[q].pc # "idle" /\ calls[q].cmd \notin {"adopt", "complete"}
    BY <1>3
  <1>6. calls[p].cycle \in Active
    BY <1>3
  <1>7. ASSUME NEW q \in Procs, calls'[q].cmd \in Ending PROVE calls'[q].pc = "idle"
    <2>1. calls \in [Procs -> Call]
      BY DEF TypeInv, TypeOK
    <2>2. q # p /\ calls'[q] = calls[q]
      BY <1>3, <1>7, <2>1 DEF Ending
    <2> QED
      BY <1>5, <1>7, <2>2 DEF Ending
  <1> QED
    BY <1>3, <1>4, <1>6, <1>7

LEMMA EndStep ==
    ASSUME TypeInv, EndInv, [Next]_vars
    PROVE  EndInv'
  <1> SUFFICES ASSUME "crossed" \notin history'.faults
               PROVE  /\ \A c \in Cycles : cycles'[c] \in {"cancelled", "finished"} => AdoptedBy(c)' = {}
                      /\ \A p \in Procs :
                           calls'[p].cmd \in Ending /\ calls'[p].pc \notin {"idle", "release", "resolve"}
                           => \A a \in Active' : AdoptedBy(a)' = {}
    BY DEF EndInv
  <1>0. "crossed" \notin history.faults /\ cycles \in [Cycles -> CycleStatuses]
    BY FaultsStay DEF TypeInv, TypeOK
  <1>1. ASSUME NEW c \in Cycles, cycles'[c] \in {"cancelled", "finished"}, NEW i \in AdoptedBy(c)'
        PROVE  FALSE
    <2>1. CASE i \notin AdoptedBy(c)
      BY <1>1, <2>1, AdoptedNew DEF Active
    <2>2. CASE i \in AdoptedBy(c)
      <3>1. cycles[c] \notin {"cancelled", "finished"}
        BY <1>0, <2>2 DEF EndInv
      <3>2. ~Between
        BY <1>1, <3>1, BetweenOK
      <3>3. PICK p \in Procs, a \in Cycles, status \in {"cancelled", "finished", "deferred"} :
              /\ End(p) /\ Active = {a} /\ cycles' = [cycles EXCEPT ![a] = status]
              /\ status = "deferred" <=> calls[p].pc = "settle"
              /\ status # "deferred" => calls[p].cmd \in Ending
        BY <1>1, <3>1, <3>2, CycleSteps
      <3>4. a = c /\ status # "deferred"
        BY <1>0, <1>1, <3>1, <3>3
      <3>5. calls[p].pc = "engine" /\ calls[p].cmd \in Ending
        BY <3>3, <3>4, EndsTo
      <3> QED
        BY <1>0, <2>2, <3>3, <3>4, <3>5 DEF EndInv
    <2> QED
      BY <2>1, <2>2
  <1>2. ASSUME NEW p \in Procs, calls'[p].cmd \in Ending, calls'[p].pc \notin {"idle", "release", "resolve"},
               NEW a \in Active', NEW i \in AdoptedBy(a)'
        PROVE  FALSE
    <2>0. a \in Cycles
      BY DEF Active
    <2>1. i \in AdoptedBy(a)
      BY <1>2, <2>0, AdoptedNew
    <2>2. ~Between
      BY <1>2, BetweenOK
    <2>3. a \in Active
      BY <2>2, CycleSteps DEF Active
    <2>4. CASE Releases(p)
      <3>1. ~Moves(p, Idle)
        BY <1>2 DEF Moves, Idle, TypeInv, TypeOK
      <3>2. PICK c \in Cycles, status \in {"released", "resolved"}, d \in Call :
              /\ calls' = [calls EXCEPT ![p] = d] /\ calls[p].pc \in {"release", "resolve"}
              /\ Active = {c} /\ d.pc = "upsert" /\ d.cmd \in Ending /\ ~d.built
              /\ todos' = [j \in Ids |->
                   IF j \in AdoptedBy(c)
                   THEN [todos[j] EXCEPT !.by = None,
                           !.status = IF status = "released" THEN "pending" ELSE "resolved"]
                   ELSE todos[j]]
              /\ adoptions' = Appended(AdoptedBy(c), c, status)
              /\ UNCHANGED <<cycles, escalated, findings, ops, candidates, file, history>>
        BY <2>4, <3>1, ReleasesTo
      <3>3. a = c /\ i \in Ids /\ todos[i] \in Todo
        BY <2>1, <2>3, <3>2 DEF AdoptedBy, TypeInv, TypeOK
      <3>4. todos'[i].by = None
        BY <2>1, <3>2, <3>3 DEF Todo
      <3> QED
        BY <2>0, <3>4, Bounds DEF AdoptedBy
    <2>5. CASE calls[p].cmd = calls'[p].cmd /\ calls[p].pc \notin {"idle", "release", "resolve"}
      BY <1>0, <1>2, <2>1, <2>3, <2>5 DEF EndInv
    <2>6. CASE Start(p) /\ calls'[p].pc = "engine"
      <3>1. AdoptedBy(calls'[p].cycle) = {} /\ Active \subseteq {calls'[p].cycle}
        BY <1>2, <2>6, StartsTo
      <3> QED
        BY <2>1, <2>3, <3>1
    <2> QED
      BY <1>2, <2>4, <2>5, <2>6, Onward
  <1> QED
    BY <1>1, <1>2

\* A cancelled or finished cycle holds no ToDo.
THEOREM EndedCyclesGaveUp == Spec => []EndedCycleHoldsNoTodo
  <1>1. Init => EndInv
    BY DEF Init, EndInv, AdoptedBy, NoTodo, Idle
  <1>2. TypeInv /\ EndInv /\ [Next]_vars => (TypeInv /\ EndInv)'
    BY TypeNext, EndStep
  <1>3. EndInv => EndedCycleHoldsNoTodo
    BY DEF EndInv, EndedCycleHoldsNoTodo
  <1> QED
    BY TypeInit, <1>1, <1>2, <1>3, PTL DEF Spec
-----------------------------------------------------------------------------
(* Legacy lines.                                                           *)

\* Only an insertion puts a legacy ToDo on display.
LEMMA LegacySteps ==
    ASSUME TypeInv, [Next]_vars
    PROVE  \/ /\ LegacyTodos' = LegacyTodos
              /\ \A i \in LegacyIds : Projected(i)' => Projected(i)
           \/ \E p \in Procs, i \in LegacyIds :
                /\ Inserts(p) /\ Made(i, None)
  <1>1. CASE UNCHANGED todos
    BY <1>1 DEF LegacyTodos, Projected
  <1>2. ASSUME NEW i \in Ids, Closed(i)
        PROVE  /\ LegacyTodos' = LegacyTodos
               /\ \A j \in LegacyIds : Projected(j)' => Projected(j)
    BY <1>2, Bounds DEF Closed, Rest, LegacyTodos, Projected
  <1>3. ASSUME NEW i \in Ids, NEW c, Taken(i, c)
        PROVE  /\ LegacyTodos' = LegacyTodos
               /\ \A j \in LegacyIds : Projected(j)' => Projected(j)
    BY <1>3, Bounds DEF Taken, Rest, LegacyTodos, Projected
  <1>4. ASSUME NEW c, NEW status, GivenUp(c, status)
        PROVE  /\ LegacyTodos' = LegacyTodos
               /\ \A j \in LegacyIds : Projected(j)' => Projected(j)
    <2>1. \A i \in Ids : /\ todos[i].status # "none" <=> todos'[i].status # "none"
                         /\ Projected(i)' => Projected(i)
      BY <1>4 DEF GivenUp, AdoptedBy, Projected
    <2> QED
      BY <2>1, Bounds DEF LegacyTodos
  <1>5. ASSUME NEW f \in Findings, NEW a, Made(f, a)
        PROVE  /\ LegacyTodos' = LegacyTodos
               /\ \A j \in LegacyIds : Projected(j)' => Projected(j)
    BY <1>5, Bounds DEF Made, Rest, LegacyTodos, Projected
  <1>6. ASSUME NEW p \in Procs, Inserts(p) \/ Adopts(p) \/ Releases(p) \/ Completes(p) \/ Defers(p)
        PROVE  \/ UNCHANGED todos
               \/ \E i \in LegacyIds : Inserts(p) /\ Made(i, None)
               \/ \E i \in Ids : Closed(i) \/ \E c : Taken(i, c)
               \/ \E c, status : GivenUp(c, status)
               \/ \E f \in Findings : \E a : Made(f, a)
    BY <1>6, TodoCases
  <1> QED
    BY <1>1, <1>2, <1>3, <1>4, <1>5, <1>6, TodoSteps

\* An insertion counts.
LEMMA InsertCounts ==
    ASSUME NEW i \in LegacyIds, Made(i, None)
    PROVE  LegacyTodos' = LegacyTodos \cup {i} /\ Cardinality(LegacyTodos') = Cardinality(LegacyTodos) + 1
  <1>1. LegacyTodos' = LegacyTodos \cup {i} /\ i \notin LegacyTodos
    BY Bounds DEF Made, Rest, LegacyTodos
  <1> QED
    BY <1>1, LegacyCount, FS_AddElement

LEMMA LegacyGrows ==
    ASSUME TypeInv, [Next]_vars
    PROVE  /\ LegacyTodos \subseteq LegacyTodos'
           /\ Cardinality(LegacyTodos) <= Cardinality(LegacyTodos')
           /\ Cardinality(LegacyTodos) = Cardinality(LegacyTodos') =>
                LegacyTodos' = LegacyTodos /\ \A i \in LegacyIds : Projected(i)' => Projected(i)
  <1>1. Cardinality(LegacyTodos) \in Nat
    BY LegacyCount, Bounds
  <1> QED
    BY <1>1, LegacySteps, InsertCounts

\* A command looks for its line, then inserts.
LEMMA LooksFirst ==
    ASSUME TypeInv, [Next]_vars, NEW p \in Procs, calls'[p].pc \in {"allocate", "insert"}
    PROVE  \/ calls[p].pc \in {"allocate", "insert"} /\ calls'[p].seen = calls[p].seen
           \/ /\ calls'[p].seen = Cardinality(LegacyTodos) /\ UNCHANGED todos
              /\ \A i \in LegacyIds : ~Projected(i)
  <1>0. calls \in [Procs -> Call]
    BY DEF TypeInv, TypeOK
  <1>1. CASE SameCall(calls'[p], calls[p])
    BY <1>1 DEF SameCall
  <1>2. CASE UNCHANGED calls
    BY <1>2
  <1>3. CASE Proceeds(p)
    <2>1. CASE Promotes(p) \/ Allocates(p)
      <3>1. PICK d \in Call :
              /\ calls' = [calls EXCEPT ![p] = d]
              /\ d.pc = "allocate" => d.seen = Cardinality(LegacyTodos) /\ \A i \in LegacyIds : ~Projected(i)
              /\ d.pc = "insert" => calls[p].pc = "allocate" /\ d.seen = calls[p].seen
              /\ UNCHANGED todos
        BY <2>1, PromotesTo
      <3>2. calls'[p] = d
        BY <1>0, <3>1
      <3> QED
        BY <3>1, <3>2
    <2>2. CASE Loads(p)
      <3>1. PICK d \in Call :
              /\ calls' = [calls EXCEPT ![p] = d]
              /\ DoneAs(calls[p], d) \/ d.pc \in {"build", "install", "verify"}
        BY <2>2, LoadsTo
      <3>2. calls'[p] = d
        BY <1>0, <3>1
      <3> QED
        BY <3>1, <3>2 DEF DoneAs
    <2> QED
      BY <1>3, <2>1, <2>2 DEF Proceeds
  <1>4. ASSUME Acts(p), ~Proceeds(p) PROVE calls'[p].pc \notin {"allocate", "insert"}
    <2>1. CASE Start(p)
      BY <2>1, StartsTo
    <2>2. ASSUME NEW d, calls' = [calls EXCEPT ![p] = d], d.pc \notin {"allocate", "insert"}
          PROVE  calls'[p].pc \notin {"allocate", "insert"}
      BY <1>0, <2>2
    <2>3. Idle.pc \notin {"allocate", "insert"}
      BY DEF Idle
    <2>4. CASE Inserts(p)
      BY <2>2, <2>3, <2>4, InsertsTo DEF Moves
    <2>5. CASE Adopts(p)
      BY <2>2, <2>3, <2>5, AdoptsTo DEF Moves
    <2>6. CASE Releases(p)
      BY <2>2, <2>3, <2>6, ReleasesTo DEF Moves
    <2>7. CASE Completes(p)
      <3>1. \/ calls' = [calls EXCEPT ![p] = Idle]
            \/ \E d : calls' = [calls EXCEPT ![p] = d] /\ d.pc = "load"
        BY <2>7, CompletesTo DEF Moves
      <3> QED
        BY <2>2, <2>3, <3>1
    <2>8. CASE Defers(p)
      <3>1. \/ calls' = [calls EXCEPT ![p] = Idle]
            \/ \E d : calls' = [calls EXCEPT ![p] = d] /\ d.pc = "load"
        BY <2>8, DefersTo DEF Moves
      <3> QED
        BY <2>2, <2>3, <3>1
    <2>9. CASE Upserts(p)
      BY <2>2, <2>9, UpsertsTo
    <2>10. CASE Builds(p)
      <3>1. \E d : calls' = [calls EXCEPT ![p] = d] /\ d.pc = "ready"
        BY <2>10, BuildsTo
      <3> QED
        BY <2>2, <3>1
    <2>11. CASE Readies(p)
      <3>1. \E d : calls' = [calls EXCEPT ![p] = d] /\ d.pc \in {"install", "replace"}
        BY <2>11, ReadiesTo
      <3> QED
        BY <2>2, <3>1
    <2>12. CASE Installs(p) \/ InstallsRebuilt(p)
      <3>1. \/ calls'[p].pc = "mark"
            \/ \E d : calls' = [calls EXCEPT ![p] = d] /\ d.pc = "build"
        BY <2>12, InstallsTo DEF Moves, Replaced
      <3> QED
        BY <2>2, <3>1
    <2>13. CASE Marks(p)
      BY <2>2, <2>13, MarksTo
    <2>14. CASE Verifies(p)
      <3>1. \/ calls' = [calls EXCEPT ![p] = Idle]
            \/ \E d : calls' = [calls EXCEPT ![p] = d] /\ DoneAs(calls[p], d)
        BY <2>14, VerifiesTo DEF Gone
      <3> QED
        BY <2>2, <2>3, <3>1 DEF DoneAs
    <2>15. CASE End(p) \/ Die(p)
      <3>1. calls' = [calls EXCEPT ![p] = Idle]
        BY <2>15, EndsTo, DiesTo DEF Gone
      <3> QED
        BY <2>2, <2>3, <3>1
    <2> QED
      BY <1>4, <2>1, <2>4, <2>5, <2>6, <2>7, <2>8, <2>9, <2>10, <2>11, <2>12, <2>13, <2>14, <2>15 DEF Acts
  <1>5. ASSUME NEW q \in Procs, Acts(q), q # p PROVE SameCall(calls'[p], calls[p])
    BY <1>5, OwnStep DEF Left
  <1>6. CASE Next
    <2>1. Between \/ \E q \in Procs : Acts(q)
      BY <1>6, NextCases DEF Acts
    <2>2. CASE Between
      BY <1>2, <2>2, BetweenOK
    <2> QED
      BY <1>1, <1>3, <1>4, <1>5, <2>1, <2>2
  <1> QED
    BY <1>2, <1>6 DEF vars

LEMMA PromotionStep ==
    ASSUME TypeInv, PromotionInv, [Next]_vars
    PROVE  PromotionInv'
  <1>0. Cardinality(LegacyTodos) \in Nat /\ Cardinality(LegacyTodos') \in Nat
        /\ \A p \in Procs : calls[p].seen \in Nat
    <2>1. Cardinality(LegacyTodos) \in Nat
      BY LegacyCount, Bounds
    <2>2. Cardinality(LegacyTodos') \in Nat
      BY <2>1, LegacySteps, InsertCounts
    <2> QED
      BY <2>1, <2>2, Bounds DEF TypeInv, TypeOK, Call
  <1>1. ASSUME NEW p \in Procs, calls'[p].pc \in {"allocate", "insert"}
        PROVE  /\ calls'[p].seen <= Cardinality(LegacyTodos')
               /\ calls'[p].seen = Cardinality(LegacyTodos') => \A i \in LegacyIds : ~Projected(i)'
    <2>1. CASE calls[p].pc \in {"allocate", "insert"} /\ calls'[p].seen = calls[p].seen
      <3>1. /\ calls[p].seen <= Cardinality(LegacyTodos)
            /\ calls[p].seen = Cardinality(LegacyTodos) => \A i \in LegacyIds : ~Projected(i)
        BY <2>1 DEF PromotionInv
      <3> QED
        BY <1>0, <2>1, <3>1, LegacyGrows
    <2>2. CASE /\ calls'[p].seen = Cardinality(LegacyTodos) /\ UNCHANGED todos
               /\ \A i \in LegacyIds : ~Projected(i)
      <3>1. LegacyTodos' = LegacyTodos /\ \A i \in LegacyIds : ~Projected(i)'
        BY <2>2 DEF LegacyTodos, Projected
      <3> QED
        BY <1>0, <2>2, <3>1
    <2> QED
      BY <1>1, <2>1, <2>2, LooksFirst
  <1>2. ASSUME "promoted" \notin history'.faults, NEW i \in LegacyIds, NEW j \in LegacyIds,
               Projected(i)', Projected(j)'
        PROVE  i = j
    <2>1. "promoted" \notin history.faults
      BY <1>2, FaultsStay
    <2>2. CASE \A l \in LegacyIds : Projected(l)' => Projected(l)
      BY <1>2, <2>1, <2>2 DEF PromotionInv
    <2>3. ASSUME NEW p \in Procs, NEW l \in LegacyIds, Inserts(p), Made(l, None)
          PROVE  i = j
      <3>1. calls[p].pc = "insert"
        BY <2>3 DEF Inserts, At
      <3>2. Cardinality(LegacyTodos) = calls[p].seen
        <4>1. todos' # todos
          BY <2>3 DEF Made
        <4>2. \E m \in LegacyIds, d \in Call :
                    /\ calls' = [calls EXCEPT ![p] = d] /\ calls[p].pc = "insert"
                    /\ d.pc \in {"adopt", "complete"} /\ d.cmd = d.pc /\ d.ids = {m} /\ ~d.built
                    /\ todos[m].status = "none"
                    /\ todos' = [todos EXCEPT ![m] = [NoTodo EXCEPT !.status = "pending"]]
                    /\ history'.faults = history.faults \cup
                         (IF Cardinality(LegacyTodos) # calls[p].seen THEN {"promoted"} ELSE {})
                    /\ UNCHANGED <<cycles, escalated, findings, adoptions, ops, candidates, file>>
          <5>1. ~Moves(p, Idle)
            BY <4>1 DEF Moves
          <5> QED
            BY <2>3, <5>1, InsertsTo
        <4> QED
          BY <1>2, <4>2
      <3>3. \A m \in LegacyIds : ~Projected(m)
        BY <3>1, <3>2 DEF PromotionInv
      <3>4. \A m \in LegacyIds : Projected(m)' => m = l
        BY <2>3, <3>3, Bounds DEF Made, Rest, Projected
      <3> QED
        BY <1>2, <3>4
    <2> QED
      BY <2>2, <2>3, LegacySteps
  <1> QED
    BY <1>1, <1>2 DEF PromotionInv

\* However promotions are retried, a line of the user's has one ToDo.
THEOREM OneTodoPerLine == Spec => []LegacyLineOnce
  <1>1. Init => PromotionInv
    BY DEF Init, PromotionInv, Projected, NoTodo, Idle, LegacyIds, Ids
  <1>2. TypeInv /\ PromotionInv /\ [Next]_vars => (TypeInv /\ PromotionInv)'
    BY TypeNext, PromotionStep
  <1>3. PromotionInv => LegacyLineOnce
    <2> SUFFICES ASSUME PromotionInv, "promoted" \notin history.faults
                 PROVE  Cardinality({i \in LegacyIds : Projected(i)}) <= 1
      BY DEF LegacyLineOnce
    <2> DEFINE S == {i \in LegacyIds : Projected(i)}
    <2>1. \A i, j \in S : i = j
      BY DEF PromotionInv
    <2>2. CASE S = {}
      BY <2>2, FS_EmptySet
    <2>3. ASSUME NEW i \in S PROVE Cardinality(S) = 1
      <3>1. S = {i}
        BY <2>1
      <3> QED
        BY <3>1, FS_Singleton
    <2> HIDE DEF S
    <2>4. Cardinality(S) \in {0, 1}
      BY <2>2, <2>3, FS_EmptySet
    <2> QED
      BY <2>4 DEF S
  <1> QED
    BY TypeInit, <1>1, <1>2, <1>3, PTL DEF Spec

\* Who writes candidates and the file.
LEMMA FileSteps ==
    ASSUME TypeInv, [Next]_vars
    PROVE  \/ UNCHANGED <<file, candidates>>
           \/ \E p \in Procs : Builds(p)
           \/ \E p \in Procs : Replaced(p)
           \/ Between /\ UNCHANGED file /\ DOMAIN candidates' = {}
  <1>1. ASSUME NEW p \in Procs, Installs(p) \/ InstallsRebuilt(p)
        PROVE  UNCHANGED <<file, candidates>> \/ Replaced(p)
    BY <1>1, InstallsTo DEF Moves
  <1>2. ASSUME NEW p \in Procs, Start(p) \/ Proceeds(p) PROVE UNCHANGED <<file, candidates>>
    BY <1>2, StartsTo, StaysTo DEF Moves
  <1>3. ASSUME NEW p \in Procs,
               \/ Inserts(p) \/ Adopts(p) \/ Releases(p) \/ Completes(p) \/ Defers(p) \/ Upserts(p)
               \/ Readies(p) \/ Marks(p) \/ Verifies(p) \/ End(p) \/ Die(p)
        PROVE  UNCHANGED <<file, candidates>>
    BY <1>3 DEF Inserts, Adopts, Releases, Completes, Defers, Upserts, Readies, Marks, Verifies, End, Engine,
                Settles, Die
  <1>4. CASE Between
    BY <1>4, BetweenOK
  <1>5. CASE UNCHANGED vars
    BY <1>5 DEF vars
  <1>6. CASE Next
    BY <1>1, <1>2, <1>3, <1>4, <1>6, NextCases
  <1> QED
    BY <1>5, <1>6

LEMMA LegacyStep ==
    ASSUME TypeInv, LegacyInv, [Next]_vars
    PROVE  LegacyInv'
  <1> SUFFICES ASSUME LegacyTodos' = {}
               PROVE  file'.legacy /\ \A k \in DOMAIN candidates' : candidates'[k].legacy
    BY DEF LegacyInv
  <1>1. LegacyTodos = {} /\ file.legacy /\ \A k \in DOMAIN candidates : candidates[k].legacy
    BY LegacyGrows DEF LegacyInv
  <1>2. ASSUME NEW p \in Procs, Builds(p)
        PROVE  file'.legacy /\ \A k \in DOMAIN candidates' : candidates'[k].legacy
    <2> DEFINE key == Key(calls[p])
    <2>1. /\ UNCHANGED file /\ DOMAIN candidates' = DOMAIN candidates \cup {key}
          /\ candidates'[key].legacy = (file.legacy /\ LegacyTodos = {})
          /\ \A j \in DOMAIN candidates : j # key => candidates'[j] = candidates[j]
      BY <1>2, BuildsTo
    <2> HIDE DEF key
    <2> QED
      BY <1>1, <2>1
  <1>3. ASSUME NEW p \in Procs, Replaced(p)
        PROVE  file'.legacy /\ \A k \in DOMAIN candidates' : candidates'[k].legacy
    BY <1>1, <1>3 DEF Replaced
  <1> QED
    BY <1>1, <1>2, <1>3, FileSteps

\* The user's line is never lost.
THEOREM LineIsKept == Spec => []LegacyLineIsKept
  <1>1. Init => LegacyInv
    BY DEF Init, LegacyInv, Empty
  <1>2. TypeInv /\ LegacyInv /\ [Next]_vars => (TypeInv /\ LegacyInv)'
    BY TypeNext, LegacyStep
  <1>3. LegacyInv => LegacyLineIsKept
    BY DEF LegacyInv, LegacyLineIsKept
  <1> QED
    BY TypeInit, <1>1, <1>2, <1>3, PTL DEF Spec
-----------------------------------------------------------------------------
(* TodoProjection implements TodoLifecycle.                                *)

LEMMA ShownCurrent ==
    ASSUME TypeInv
    PROVE  Shown(Current) = Lifecycle!List
  <1>1. \A i \in Ids : Projected(i) =>
          <<Line(i)[1], IF Line(i)[2] = "adopted" THEN Line(i)[3] ELSE None>> = <<i, todos[i].by>>
    BY DEF Line, TypeInv, TodoInv
  <1>2. Lifecycle!List = {<<i, todos[i].by>> : i \in {j \in Ids : Projected(j)}}
    BY DEF Lifecycle!List, Projected
  <1>3. Shown(Current) = {<<Line(i)[1], IF Line(i)[2] = "adopted" THEN Line(i)[3] ELSE None>> :
                            i \in {j \in Ids : Projected(j)}}
    BY DEF Shown, Current
  <1> QED
    BY <1>1, <1>2, <1>3

\* A step that changes ToDos is one change of the lifecycle.
LEMMA ChangesImplement ==
    ASSUME TypeInv, [Next]_vars, todos' # todos
    PROVE  Lifecycle!Next
  <1>1. UNCHANGED <<cycles, candidates, file>>
    <2>1. PICK p \in Procs : Inserts(p) \/ Adopts(p) \/ Releases(p) \/ Completes(p) \/ Defers(p)
      BY TodoSteps
    <2> QED
      BY <2>1 DEF Inserts, Adopts, Releases, Completes, Defers
  <1>2. /\ UNCHANGED cycles
        /\ UNCHANGED {Shown(candidates[k].lines) : k \in DOMAIN candidates}
        /\ UNCHANGED Shown(file.lines)
    BY <1>1 DEF Shown
  <1>3. ASSUME NEW i \in Ids, NEW o, Made(i, o) PROVE Lifecycle!Create(i)
    BY <1>3 DEF Made, Rest, Lifecycle!Create, Lifecycle!Set
  <1>4. ASSUME NEW i \in Ids, Closed(i) PROVE Lifecycle!Complete(i)
    BY <1>4 DEF Closed, Rest, Lifecycle!Complete, Lifecycle!Set
  <1>5. ASSUME NEW i \in Ids, NEW c \in Cycles, Taken(i, c), cycles[c] # "none" PROVE Lifecycle!Adopt(i, c)
    BY <1>5 DEF Taken, Rest, Lifecycle!Adopt, Lifecycle!Set
  <1>6. ASSUME NEW c \in Cycles, NEW status \in {"released", "resolved"}, Active = {c}, GivenUp(c, status)
        PROVE  Lifecycle!GiveUp(c)
    <2>1. cycles[c] = "active" /\ Lifecycle!Held(c) = AdoptedBy(c)
      BY <1>6 DEF Active, Lifecycle!Held, AdoptedBy
    <2>2. CASE status = "released"
      BY <1>6, <2>1, <2>2 DEF GivenUp, Lifecycle!GiveUp, Lifecycle!Set
    <2>3. CASE status = "resolved"
      BY <1>6, <2>1, <2>3 DEF GivenUp, Lifecycle!GiveUp, Lifecycle!Set
    <2> QED
      BY <2>2, <2>3
  <1>7. \/ \E i \in Ids : Lifecycle!Create(i) \/ Lifecycle!Complete(i)
        \/ \E c \in Cycles : Lifecycle!GiveUp(c) \/ \E i \in Ids : Lifecycle!Adopt(i, c)
    BY <1>3, <1>4, <1>5, <1>6, TodoMoves, Bounds
  <1> QED
    BY <1>2, <1>7 DEF Lifecycle!Next, Lifecycle!Change

\* A step that changes cycles is a turn.
LEMMA TurnsImplement ==
    ASSUME TypeInv, [Next]_vars, cycles' # cycles
    PROVE  Lifecycle!Next
  <1>0. cycles \in [Cycles -> CycleStatuses]
    BY DEF TypeInv, TypeOK
  <1>1. UNCHANGED <<todos, candidates, file>>
    <2>1. CASE Between
      <3>1. NewCycle
        BY <2>1 DEF Between, Report, Escalate, Clean
      <3> QED
        BY <3>1 DEF NewCycle
    <2> QED
      BY <2>1, CycleSteps
  <1>2. /\ UNCHANGED todos
        /\ UNCHANGED {Shown(candidates[k].lines) : k \in DOMAIN candidates}
        /\ UNCHANGED Shown(file.lines)
    BY <1>1 DEF Shown
  <1>3. \A c \in Cycles : cycles'[c] # cycles[c] =>
          \/ cycles[c] = "none" /\ cycles'[c] = "active"
          \/ cycles[c] = "active" /\ cycles'[c] # "none"
    <2>1. CASE Between
      <3>1. NewCycle
        BY <2>1 DEF Between, Report, Escalate, Clean
      <3> QED
        BY <3>1 DEF NewCycle
    <2>2. ASSUME NEW a \in Cycles, NEW status \in {"cancelled", "finished", "deferred"},
                 Active = {a}, cycles' = [cycles EXCEPT ![a] = status]
          PROVE  \A c \in Cycles : cycles'[c] # cycles[c] => cycles[c] = "active" /\ cycles'[c] # "none"
      BY <1>0, <2>2 DEF Active
    <2>3. CASE ~Between
      <3>1. \E a \in Cycles, status \in {"cancelled", "finished", "deferred"} :
               Active = {a} /\ cycles' = [cycles EXCEPT ![a] = status]
        BY <2>3, CycleSteps
      <3> QED
        BY <2>2, <3>1
    <2> QED
      BY <2>1, <2>3
  <1> QED
    BY <1>2, <1>3 DEF Lifecycle!Next, Lifecycle!Turn

\* A candidate is built from the ToDos as they are.
LEMMA DraftsImplement ==
    ASSUME TypeInv, NEW p \in Procs, Builds(p)
    PROVE  Lifecycle!Draft
  <1> DEFINE k == Key(calls[p])
  <1>1. /\ UNCHANGED <<todos, cycles, file>> /\ DOMAIN candidates' = DOMAIN candidates \cup {k}
        /\ candidates'[k].lines = Current /\ \A j \in DOMAIN candidates : j # k => candidates'[j] = candidates[j]
    BY BuildsTo
  <1> HIDE DEF k
  <1>2. \A j \in DOMAIN candidates' :
          Shown(candidates'[j].lines) \in {Shown(candidates[i].lines) : i \in DOMAIN candidates} \cup {Lifecycle!List}
    BY <1>1, ShownCurrent
  <1>3. {Shown(candidates[j].lines) : j \in DOMAIN candidates}'
          \subseteq {Shown(candidates[i].lines) : i \in DOMAIN candidates} \cup {Lifecycle!List}
    BY <1>2 DEF Shown
  <1>4. UNCHANGED Shown(file.lines)
    BY <1>1 DEF Shown
  <1> QED
    BY <1>1, <1>3, <1>4 DEF Lifecycle!Draft

LEMMA InstallsImplement ==
    ASSUME TypeInv, NEW p \in Procs, Replaced(p)
    PROVE  Lifecycle!Install
  <1>1. /\ UNCHANGED <<todos, cycles, candidates>> /\ Key(calls[p]) \in DOMAIN candidates
        /\ file' = candidates[Key(calls[p])]
    BY DEF Replaced
  <1>2. Shown(file.lines)' \in {Shown(candidates[k].lines) : k \in DOMAIN candidates}
    BY <1>1 DEF Shown
  <1>3. UNCHANGED {Shown(candidates[k].lines) : k \in DOMAIN candidates}
    BY <1>1 DEF Shown
  <1> QED
    BY <1>1, <1>2, <1>3 DEF Lifecycle!Install

LEMMA StepsImplement ==
    ASSUME TypeInv, [Next]_vars
    PROVE  [Lifecycle!Next]_(Lifecycle!vars)
  <1>1. CASE todos' # todos \/ cycles' # cycles
    BY <1>1, ChangesImplement, TurnsImplement
  <1>2. CASE UNCHANGED <<todos, cycles, file, candidates>>
    BY <1>2 DEF Lifecycle!vars, Shown
  <1>3. CASE UNCHANGED <<todos, cycles, file>> /\ DOMAIN candidates' = {}
    <2>1. {Shown(candidates[k].lines) : k \in DOMAIN candidates}' = {}
      BY <1>3
    <2>2. UNCHANGED Shown(file.lines)
      BY <1>3 DEF Shown
    <2> QED
      BY <1>3, <2>1, <2>2 DEF Lifecycle!Next, Lifecycle!Draft
  <1>4. ASSUME NEW p \in Procs, Builds(p) \/ Replaced(p) PROVE Lifecycle!Next
    BY <1>4, DraftsImplement, InstallsImplement DEF Lifecycle!Next
  <1> QED
    BY <1>1, <1>2, <1>3, <1>4, FileSteps

LEMMA InitImplements == Init => Lifecycle!Init
  <1> SUFFICES ASSUME Init PROVE Lifecycle!Init
    OBVIOUS
  <1>1. \A i \in Ids : todos[i].status = "none" /\ todos[i].by = None
    BY DEF Init, NoTodo
  <1>2. \E c \in Cycles : \A o \in Cycles : cycles[o] = IF o = c THEN "active" ELSE "none"
    BY Bounds DEF Init
  <1>3. {Shown(candidates[k].lines) : k \in DOMAIN candidates} = {}
    BY DEF Init
  <1>4. Shown(file.lines) = {}
    BY DEF Init, Empty, Shown
  <1> QED
    BY <1>1, <1>2, <1>3, <1>4 DEF Lifecycle!Init

\* Commands that interleave, die and are repeated keep the promises of
\* TodoLifecycle.
THEOREM Implementation == Spec => ImplementsLifecycle
  <1>1. TypeInv /\ [Next]_vars => [Lifecycle!Next]_(Lifecycle!vars)
    BY StepsImplement
  <1> QED
    BY TypeInit, TypeNext, InitImplements, <1>1, PTL DEF Spec, ImplementsLifecycle, Lifecycle!Spec
-----------------------------------------------------------------------------
(* The file is current between commands.                                   *)

LEMMA SameCurrent ==
    ASSUME UNCHANGED todos
    PROVE  Current' = Current
  BY DEF Current, Line, Projected

\* The file is current, and so is what will be installed over it.
Fresh == /\ file.lines = Current
         /\ \A p \in Procs : Timely(p) => candidates[Key(calls[p])].lines = Current

Later == Opened \ {"load"}

\* A step of p that leaves the other commands what they owe.
Calm(p) ==
    /\ Current' = Current
    /\ \A i \in Ids : todos[i].status = "pending" => todos'[i].status = "pending"
    /\ \A k \in DOMAIN ops :
          k \in DOMAIN ops' /\ (ops[k].status = "intent_persisted" =>
                                  \/ ops'[k].status = "intent_persisted"
                                  \/ calls[p].pc \in Later /\ Key(calls[p]) = k)
    /\ calls'[p].pc \in Later =>
          \/ calls[p].pc \in Later /\ Key(calls'[p]) = Key(calls[p])
          \/ calls'[p].pc = "build"
          \/ Key(calls'[p]) \in DOMAIN ops /\ ops[Key(calls'[p])].status # "intent_persisted"
    /\ \A k \in DOMAIN candidates :
          k \in DOMAIN candidates' /\ (candidates'[k] = candidates[k] \/ candidates'[k].lines = Current)

LEMMA WillStays ==
    ASSUME TypeInv, NEW p \in Procs, Calm(p), \A q \in Procs \ {p} : Left(q),
           NEW q \in Procs \ {p}, Will(q)
    PROVE  Will(q)' \/ Will(p)'
  <1> DEFINE c == calls[q]
             d == calls'[q]
  <1>0. c \in Call /\ CallOK(c) /\ c.ids \subseteq Ids
    BY CallAt
  <1>1. /\ d.pc = c.pc /\ d.ids = c.ids /\ d.built = c.built /\ Key(d) = Key(c)
    BY KeySame DEF Left, SameCall
  <1>2. CASE c.pc \in {"upsert", "build"}
    BY <1>1, <1>2 DEF Will
  <1>3. CASE /\ c.pc = "load" /\ ops[Key(c)].status = "intent_persisted"
             /\ \A r \in Procs : calls[r].pc \in Opened \ {"load"} => Key(calls[r]) # Key(c)
    <2>1. Key(c) \in DOMAIN ops
      BY <1>0, <1>3 DEF CallOK, Opened
    <2>2. ops'[Key(c)].status = "intent_persisted"
      BY <1>3, <2>1 DEF Calm, Later
    <2>3. CASE calls'[p].pc = "build"
      BY <2>3 DEF Will
    <2>4. CASE calls'[p].pc # "build"
      <3>1. calls'[p].pc \in Later => Key(calls'[p]) # Key(c)
        BY <1>3, <2>4 DEF Calm, Later
      <3>2. ASSUME NEW r \in Procs \ {p} PROVE calls'[r].pc \in Later => Key(calls'[r]) # Key(c)
        <4>1. calls'[r].pc = calls[r].pc /\ Key(calls'[r]) = Key(calls[r])
          BY KeySame DEF Left, SameCall
        <4> QED
          BY <1>3, <4>1 DEF Later
      <3>3. \A r \in Procs : calls'[r].pc \in Later => Key(calls'[r]) # Key(d)
        BY <1>1, <3>1, <3>2
      <3> QED
        BY <1>1, <1>3, <2>2, <3>3 DEF Will, Later
    <2> QED
      BY <2>3, <2>4
  <1>4. CASE c.pc \in {"adopt", "complete"} /\ todos[Pick(c.ids)].status = "pending"
    <2>1. Pick(c.ids) \in Ids
      BY <1>0, <1>4, PickIn DEF CallOK
    <2> QED
      BY <1>1, <1>4, <2>1 DEF Will, Calm
  <1>5. CASE Holds(q) /\ candidates[Key(c)].lines = Current
    <2>1. Key(c) \in DOMAIN candidates
      BY <1>0, <1>5 DEF CallOK, Holds
    <2>2. candidates'[Key(d)].lines = Current'
      BY <1>1, <1>5, <2>1 DEF Calm
    <2> QED
      BY <1>1, <1>5, <2>2 DEF Will, Holds
  <1> QED
    BY <1>2, <1>3, <1>4, <1>5 DEF Will

LEMMA FreshStays ==
    ASSUME TypeInv, NEW p \in Procs, Calm(p), \A q \in Procs \ {p} : Left(q), UNCHANGED file, Fresh,
           Timely(p)' => candidates'[Key(calls'[p])].lines = Current
    PROVE  Fresh'
  <1>1. ASSUME NEW q \in Procs \ {p}, Timely(q)'
        PROVE  candidates'[Key(calls'[q])].lines = Current'
    <2>1. Timely(q) /\ Key(calls'[q]) = Key(calls[q])
      BY <1>1, KeySame DEF Timely, Holds, Left, SameCall
    <2>2. Key(calls[q]) \in DOMAIN candidates /\ candidates[Key(calls[q])].lines = Current
      BY <2>1, CallAt DEF CallOK, Fresh, Timely, Holds
    <2> QED
      BY <2>1, <2>2 DEF Calm
  <1>2. Timely(p)' => candidates'[Key(calls'[p])].lines = Current'
    BY DEF Calm
  <1>3. file'.lines = Current'
    BY DEF Calm, Fresh
  <1> QED
    BY <1>1, <1>2, <1>3 DEF Fresh

\* A calm step of a command that owes nothing.
LEMMA CalmKeeps ==
    ASSUME TypeInv, NEW p \in Procs, Calm(p), \A q \in Procs \ {p} : Left(q), UNCHANGED file,
           ~Will(p), ~Holds(p)', Fresh \/ \E q \in Procs : Will(q)
    PROVE  Fresh' \/ \E q \in Procs : Will(q)'
  <1>1. CASE Fresh
    BY <1>1, FreshStays DEF Timely
  <1>2. ASSUME NEW q \in Procs, Will(q)
        PROVE  \E r \in Procs : Will(r)'
    <2>1. q \in Procs \ {p}
      BY <1>2
    <2> QED
      BY <1>2, <2>1, WillStays
  <1> QED
    BY <1>1, <1>2

\* A step that only moves p on, and not into the work on a projection.
LEMMA MoveKeeps ==
    ASSUME TypeInv, NEW p \in Procs, ~Will(p), \A q \in Procs \ {p} : Left(q),
           UNCHANGED <<todos, ops, candidates, file>>, calls'[p].pc \notin Later,
           Fresh \/ \E q \in Procs : Will(q)
    PROVE  Fresh' \/ \E q \in Procs : Will(q)'
  <1>1. Calm(p)
    BY SameCurrent DEF Calm
  <1>2. ~Holds(p)'
    BY DEF Holds, Holding, Later, Opened
  <1> QED
    BY <1>1, <1>2, CalmKeeps

\* Commands that have not come to the projection.
LEMMA StartKeeps ==
    ASSUME TypeInv, NEW p \in Procs, Start(p) \/ Promotes(p) \/ Allocates(p) \/ End(p),
           Fresh \/ \E q \in Procs : Will(q)
    PROVE  Fresh' \/ \E q \in Procs : Will(q)'
  <1>0. calls \in [Procs -> Call] /\ calls[p] \in Call /\ CallOK(calls[p])
    BY CallAt DEF TypeInv, TypeOK
  <1>1. \A q \in Procs \ {p} : Left(q)
    BY OwnStep DEF Acts, Proceeds
  <1>2. /\ UNCHANGED <<todos, ops, candidates, file>>
        /\ calls[p].pc \in {"idle", "promote", "allocate", "engine", "settle"} /\ calls'[p].pc \notin Later
    <2>1. CASE Start(p)
      BY <2>1, StartsTo DEF Later, Opened
    <2>2. CASE Promotes(p) \/ Allocates(p)
      <3>1. PICK d \in Call :
              /\ calls' = [calls EXCEPT ![p] = d]
              /\ d.pc \in {"idle", "adopt", "complete", "allocate", "insert"}
              /\ calls[p].pc \in {"promote", "allocate"}
              /\ UNCHANGED <<todos, ops, candidates, file>>
        BY <2>2, PromotesTo
      <3>2. calls'[p] = d
        BY <1>0, <3>1
      <3> QED
        BY <3>1, <3>2 DEF Later, Opened
    <2>3. CASE End(p)
      <3>1. calls'[p] = Idle
        BY <1>0, <2>3, EndsTo
      <3> QED
        BY <2>3, <3>1, EndsTo DEF Later, Opened, Idle
    <2> QED
      BY <2>1, <2>2, <2>3
  <1>3. ~Will(p)
    BY <1>0, <1>2 DEF Will, Holds, Holding
  <1> QED
    BY <1>1, <1>2, <1>3, MoveKeeps

LEMMA LoadKeeps ==
    ASSUME TypeInv, NEW p \in Procs, Loads(p), Fresh \/ \E q \in Procs : Will(q)
    PROVE  Fresh' \/ \E q \in Procs : Will(q)'
  <1> DEFINE c == calls[p]
             k == Key(c)
  <1>0. calls \in [Procs -> Call] /\ c \in Call /\ CallOK(c)
    BY CallAt DEF TypeInv, TypeOK
  <1>1. PICK d \in Call :
          /\ calls' = [calls EXCEPT ![p] = d] /\ c.pc = "load" /\ ~c.built
          /\ \/ ops[k].status = "verified" /\ DoneAs(c, d)
             \/ /\ ~d.built /\ Key(d) = k
                /\ \/ ops[k].status = "intent_persisted" /\ d.pc = "build"
                   \/ ops[k].status = "candidate_ready" /\ d.pc = "install"
                   \/ ops[k].status = "installed" /\ d.pc = "verify"
          /\ UNCHANGED <<todos, ops, candidates, file>>
    BY LoadsTo
  <1>2. calls'[p] = d /\ k \in DOMAIN ops
    BY <1>0, <1>1 DEF CallOK, Opened
  <1>3. CASE d.pc = "build"
    BY <1>2, <1>3 DEF Will
  <1>4. CASE d.pc # "build"
    <2>1. ops[k].status # "intent_persisted"
      BY <1>1, <1>4
    <2>2. ~Will(p) /\ ~Holds(p)'
      <3>1. ~Will(p)
        BY <1>1, <2>1 DEF Will, Holds, Holding
      <3>2. ~d.built
        BY <1>1 DEF DoneAs
      <3> QED
        BY <1>2, <3>1, <3>2 DEF Holds
    <2>3. d.pc \in Later => Key(d) = k
      BY <1>1 DEF DoneAs, Later, Opened
    <2>4. Calm(p)
      <3> HIDE DEF k, c
      <3> QED
        BY <1>1, <1>2, <2>1, <2>3, SameCurrent DEF Calm
    <2>5. \A q \in Procs \ {p} : Left(q)
      BY OwnStep DEF Acts, Proceeds
    <2> QED
      BY <1>1, <2>2, <2>4, <2>5, CalmKeeps
  <1> QED
    BY <1>3, <1>4

\* Commands that change ToDos owe the file the change.
LEMMA ChangeKeeps ==
    ASSUME TypeInv, NEW p \in Procs, Inserts(p) \/ Adopts(p) \/ Releases(p),
           Fresh \/ \E q \in Procs : Will(q)
    PROVE  Fresh' \/ \E q \in Procs : Will(q)'
  <1>0. calls \in [Procs -> Call] /\ todos \in [Ids -> Todo]
    BY DEF TypeInv, TypeOK
  <1>1. ASSUME Moves(p, Idle), ~Will(p) PROVE Fresh' \/ \E q \in Procs : Will(q)'
    <2>1. \A q \in Procs \ {p} : Left(q)
      BY OwnStep DEF Acts
    <2>2. calls'[p].pc \notin Later
      BY <1>0, <1>1 DEF Moves, Idle, Later, Opened
    <2> QED
      BY <1>1, <2>1, <2>2, MoveKeeps DEF Moves
  <1>2. ASSUME NEW d, calls' = [calls EXCEPT ![p] = d], d.pc = "upsert"
        PROVE  Will(p)'
    BY <1>0, <1>2 DEF Will
  <1>3. CASE Inserts(p)
    <2>1. calls[p].pc = "insert"
      BY <1>3 DEF Inserts, At
    <2>2. ~Will(p)
      BY <2>1 DEF Will, Holds, Holding
    <2>3. CASE ~Moves(p, Idle)
      <3>1. PICK i \in LegacyIds, d \in Call :
              /\ calls' = [calls EXCEPT ![p] = d] /\ d.pc \in {"adopt", "complete"} /\ d.ids = {i}
              /\ todos' = [todos EXCEPT ![i] = [NoTodo EXCEPT !.status = "pending"]]
        BY <1>3, <2>3, InsertsTo
      <3>2. calls'[p] = d /\ todos'[i].status = "pending" /\ Pick({i}) = i
        BY <1>0, <3>1, Bounds, PickIn DEF NoTodo
      <3>3. Will(p)'
        BY <3>1, <3>2 DEF Will
      <3> QED
        BY <3>3
    <2> QED
      BY <1>1, <2>2, <2>3
  <1>4. CASE Adopts(p)
    <2>1. CASE Moves(p, Idle) /\ todos[Pick(calls[p].ids)].status # "pending" /\ calls[p].pc = "adopt"
      BY <1>1, <2>1 DEF Will, Holds, Holding
    <2>2. CASE \E d : calls' = [calls EXCEPT ![p] = d] /\ d.pc = "upsert"
      BY <1>2, <2>2
    <2> QED
      BY <1>4, <2>1, <2>2, AdoptsTo
  <1>5. CASE Releases(p)
    <2>1. CASE Moves(p, Idle)
      <3>1. calls[p].pc \in {"release", "resolve"}
        BY <1>5 DEF Releases, At
      <3> QED
        BY <1>1, <2>1, <3>1 DEF Will, Holds, Holding
    <2>2. CASE \E d : calls' = [calls EXCEPT ![p] = d] /\ d.pc = "upsert"
      BY <1>2, <2>2
    <2> QED
      BY <1>5, <2>1, <2>2, ReleasesTo
  <1> QED
    BY <1>3, <1>4, <1>5

\* A new operation is its command's own.
LEMMA NewOpWill ==
    ASSUME TypeInv, NEW p \in Procs, NEW d, calls' = [calls EXCEPT ![p] = d], d.pc = "load",
           Key(d) \notin DOMAIN ops, ops'[Key(d)].status = "intent_persisted"
    PROVE  Will(p)'
  <1>1. calls'[p] = d /\ \A q \in Procs \ {p} : calls'[q] = calls[q]
    BY DEF TypeInv, TypeOK
  <1>2. \A q \in Procs : calls[q].pc \in Opened => Key(calls[q]) \in DOMAIN ops
    BY CallAt DEF CallOK
  <1>3. \A q \in Procs : calls'[q].pc \in Opened \ {"load"} => Key(calls'[q]) # Key(d)
    BY <1>1, <1>2
  <1> QED
    BY <1>1, <1>3 DEF Will

LEMMA CompleteKeeps ==
    ASSUME TypeInv, NEW p \in Procs, Completes(p), Fresh \/ \E q \in Procs : Will(q)
    PROVE  Fresh' \/ \E q \in Procs : Will(q)'
  <1> DEFINE i == Pick(calls[p].ids)
             k == Key(calls[p])
  <1>0. /\ calls \in [Procs -> Call] /\ todos \in [Ids -> Todo]
        /\ calls[p].pc = "complete" /\ i \in Ids /\ UNCHANGED <<candidates, file>>
    BY CompletesTo DEF TypeInv, TypeOK
  <1>1. \A q \in Procs \ {p} : Left(q)
    BY OwnStep DEF Acts
  <1>2. CASE Moves(p, Idle) /\ todos[i].status # "pending"
    <2>1. calls'[p].pc \notin Later
      BY <1>0, <1>2 DEF Moves, Idle, Later, Opened
    <2>2. ~Will(p)
      BY <1>0, <1>2 DEF Will, Holds, Holding
    <2> QED
      BY <1>1, <1>2, <2>1, <2>2, MoveKeeps DEF Moves
  <1>3. ASSUME NEW d \in Call,
               calls' = [calls EXCEPT ![p] = d], d.pc = "load", ~d.built, Key(d) = k,
               DOMAIN ops' = DOMAIN ops \cup {k}, \A j \in DOMAIN ops : j # k => ops'[j] = ops[j],
               k \in DOMAIN ops => todos[i].status = "resolved",
               \/ k \in DOMAIN ops /\ UNCHANGED <<todos, ops>>
               \/ /\ ops'[k].status = "intent_persisted"
                  /\ todos[i].status \in {"pending", "resolved"}
                  /\ todos' = [todos EXCEPT ![i] = [todos[i] EXCEPT !.status = "resolved", !.noted = TRUE]]
        PROVE  Fresh' \/ \E q \in Procs : Will(q)'
    <2> HIDE DEF i, k
    <2>1. CASE todos[i].status = "pending"
      <3>1. Will(p)'
        BY <1>3, <2>1, NewOpWill
      <3> QED
        BY <3>1
    <2>2. CASE todos[i].status = "resolved"
      <3>1. \A j \in Ids : /\ Projected(j)' = Projected(j) /\ (Projected(j) => todos'[j] = todos[j])
                           /\ todos[j].status = "pending" => todos'[j].status = "pending"
        BY <1>0, <1>3, <2>2 DEF Projected, Todo
      <3>2. Current' = Current
        <4>1. {j \in Ids : Projected(j)}' = {j \in Ids : Projected(j)}
          BY <3>1
        <4>2. \A j \in {l \in Ids : Projected(l)} : Line(j)' = Line(j)
          BY <3>1 DEF Line
        <4> QED
          BY <4>1, <4>2 DEF Current
      <3>3. \A j \in DOMAIN ops : j \in DOMAIN ops' /\ (ops[j].status = "intent_persisted" =>
                                                          ops'[j].status = "intent_persisted")
        BY <1>3
      <3>4. calls'[p] = d
        BY <1>0, <1>3
      <3>5. Calm(p)
        BY <1>0, <1>3, <3>1, <3>2, <3>3, <3>4 DEF Calm, Later
      <3>6. ~Holds(p)'
        BY <1>3, <3>4 DEF Holds
      <3>7. ~Will(p)
        BY <1>0, <2>2 DEF Will, Holds, Holding, i
      <3> QED
        BY <1>0, <1>1, <3>5, <3>6, <3>7, CalmKeeps
    <2> QED
      BY <1>3, <2>1, <2>2
  <1>4. \/ Moves(p, Idle) /\ todos[i].status # "pending"
        \/ \E d \in Call :
             /\ calls' = [calls EXCEPT ![p] = d] /\ d.pc = "load" /\ ~d.built
             /\ Key(d) = k /\ DOMAIN ops' = DOMAIN ops \cup {k}
             /\ \A j \in DOMAIN ops : j # k => ops'[j] = ops[j]
             /\ k \in DOMAIN ops => todos[i].status = "resolved"
             /\ \/ k \in DOMAIN ops /\ UNCHANGED <<todos, ops>>
                \/ /\ ops'[k].status = "intent_persisted"
                   /\ todos[i].status \in {"pending", "resolved"}
                   /\ todos' = [todos EXCEPT ![i] = [todos[i] EXCEPT !.status = "resolved", !.noted = TRUE]]
    BY CompletesTo
  <1> HIDE DEF i, k
  <1> QED
    BY <1>2, <1>3, <1>4

LEMMA DeferKeeps ==
    ASSUME TypeInv, NEW p \in Procs, Defers(p), Fresh \/ \E q \in Procs : Will(q)
    PROVE  Fresh' \/ \E q \in Procs : Will(q)'
  <1> DEFINE f == Pick(calls[p].ids)
             k == Key(calls[p])
  <1>0. /\ calls \in [Procs -> Call] /\ calls[p].pc = "defer" /\ f \in Ids /\ UNCHANGED <<candidates, file>>
    BY DefersTo, Bounds DEF TypeInv, TypeOK
  <1>1. \A q \in Procs \ {p} : Left(q)
    BY OwnStep DEF Acts
  <1>2. ~Will(p)
    BY <1>0 DEF Will, Holds, Holding
  <1>3. CASE Moves(p, Idle)
    <2>1. calls'[p].pc \notin Later
      BY <1>0, <1>3 DEF Moves, Idle, Later, Opened
    <2> QED
      BY <1>1, <1>2, <1>3, <2>1, MoveKeeps DEF Moves
  <1>4. ASSUME NEW d \in Call,
               calls' = [calls EXCEPT ![p] = d], d.pc = "load", ~d.built, Key(d) = k,
               ops' = Intended(k), k \in DOMAIN ops => todos[f].status # "none"
        PROVE  Fresh' \/ \E q \in Procs : Will(q)'
    <2> HIDE DEF k, f
    <2>1. CASE UNCHANGED todos
      <3>1. calls'[p] = d
        BY <1>0, <1>4
      <3>2. \A j \in DOMAIN ops : j \in DOMAIN ops' /\ ops'[j] = ops[j]
        BY <1>4, IntendedOf
      <3>3. Calm(p)
        BY <1>0, <1>4, <2>1, <3>1, <3>2, SameCurrent DEF Calm, Later
      <3>4. ~Holds(p)'
        BY <1>4, <3>1 DEF Holds
      <3> QED
        BY <1>0, <1>1, <1>2, <3>3, <3>4, CalmKeeps
    <2>2. CASE todos[f].status = "none"
      <3>1. k \notin DOMAIN ops /\ ops'[k].status = "intent_persisted"
        <4>1. k \notin DOMAIN ops
          BY <1>4, <2>2
        <4>2. Intended(k)[k] = [status |-> "intent_persisted", sha |-> Empty]
          BY <4>1, IntendedOf
        <4> QED
          BY <1>4, <4>1, <4>2
      <3>2. Will(p)'
        BY <1>4, <3>1, NewOpWill
      <3> QED
        BY <3>2
    <2>3. UNCHANGED todos \/ todos[f].status = "none"
      BY DefersTo DEF f, Moves
    <2> QED
      BY <2>1, <2>2, <2>3
  <1>5. \/ Moves(p, Idle)
        \/ \E d \in Call :
             /\ calls' = [calls EXCEPT ![p] = d] /\ d.pc = "load" /\ ~d.built /\ Key(d) = k
             /\ ops' = Intended(k) /\ (k \in DOMAIN ops => todos[f].status # "none")
    BY DefersTo
  <1> HIDE DEF k, f
  <1> QED
    BY <1>3, <1>4, <1>5

\* A key used for the first time.
LEMMA UpsertKeeps ==
    ASSUME TypeInv, NEW p \in Procs, Upserts(p), "reused" \notin history'.faults
    PROVE  Will(p)'
  <1> DEFINE k == Key(calls[p])
  <1>1. PICK d \in Call : calls' = [calls EXCEPT ![p] = d] /\ d.pc = "load" /\ Key(d) = k
    BY UpsertsTo
  <1>2. ops' = Intended(k) /\ history'.faults = history.faults \cup (IF k \in DOMAIN ops THEN {"reused"} ELSE {})
    BY UpsertsTo
  <1> HIDE DEF k
  <1>3. k \notin DOMAIN ops
    BY <1>2
  <1>4. Intended(k)[k] = [status |-> "intent_persisted", sha |-> Empty]
    BY <1>3, IntendedOf
  <1>5. ops'[k].status = "intent_persisted"
    BY <1>2, <1>4
  <1> QED
    BY <1>1, <1>3, <1>5, NewOpWill

LEMMA BuildKeeps ==
    ASSUME TypeInv, NEW p \in Procs, Builds(p)
    PROVE  Will(p)' /\ Current' = Current
  <1> DEFINE k == Key(calls[p])
  <1>1. UNCHANGED todos /\ candidates'[k].lines = Current
    BY BuildsTo
  <1>2. PICK d \in Call : calls' = [calls EXCEPT ![p] = d] /\ d.pc = "ready" /\ d.built /\ Key(d) = k
    BY BuildsTo
  <1>3. calls'[p] = d
    BY <1>2 DEF TypeInv, TypeOK
  <1> HIDE DEF k
  <1>4. Current' = Current
    BY <1>1, SameCurrent
  <1> QED
    BY <1>1, <1>2, <1>3, <1>4 DEF Will, Holds, Holding

\* An operation moves on under the command that works on it.
LEMMA OpKeeps ==
    ASSUME TypeInv, NEW p \in Procs, UNCHANGED <<todos, candidates, file>>, calls[p].pc \in Later,
           DOMAIN ops' = DOMAIN ops, \A j \in DOMAIN ops : j # Key(calls[p]) => ops'[j] = ops[j],
           calls'[p].pc \in Later => Key(calls'[p]) = Key(calls[p]),
           Holds(p)' => Holds(p) /\ Key(calls'[p]) = Key(calls[p]) /\ calls'[p].late = calls[p].late,
           Will(p) => Will(p)',
           \A q \in Procs \ {p} : Left(q), Fresh \/ \E q \in Procs : Will(q)
    PROVE  Fresh' \/ \E q \in Procs : Will(q)'
  <1>1. Current' = Current
    BY SameCurrent
  <1>2. Calm(p)
    BY <1>1 DEF Calm
  <1>3. CASE Fresh
    <2>1. Timely(p)' => candidates'[Key(calls'[p])].lines = Current
      BY <1>3 DEF Fresh, Timely
    <2> QED
      BY <1>2, <1>3, <2>1, FreshStays
  <1>4. ASSUME NEW q \in Procs, Will(q) PROVE \E r \in Procs : Will(r)'
    <2>1. CASE q = p
      BY <1>4, <2>1
    <2>2. CASE q # p
      BY <1>2, <1>4, <2>2, WillStays
    <2> QED
      BY <2>1, <2>2
  <1> QED
    BY <1>3, <1>4

LEMMA ReadyKeeps ==
    ASSUME TypeInv, NEW p \in Procs, Readies(p), Fresh \/ \E q \in Procs : Will(q)
    PROVE  Fresh' \/ \E q \in Procs : Will(q)'
  <1> DEFINE k == Key(calls[p])
  <1>0. /\ UNCHANGED <<todos, candidates, file>> /\ calls[p].pc = "ready"
        /\ DOMAIN ops' = DOMAIN ops /\ \A j \in DOMAIN ops : j # k => ops'[j] = ops[j]
    BY ReadiesTo
  <1>1. PICK d \in Call :
          /\ calls' = [calls EXCEPT ![p] = d] /\ d.pc \in {"install", "replace"}
          /\ d.built /\ d.late = calls[p].late /\ Key(d) = k
    BY ReadiesTo
  <1>2. calls'[p] = d /\ calls[p].built
    BY <1>0, <1>1, CallAt DEF TypeInv, TypeOK, CallOK
  <1>3. \A q \in Procs \ {p} : Left(q)
    BY OwnStep DEF Acts
  <1>4. Current' = Current
    BY <1>0, SameCurrent
  <1> HIDE DEF k
  <1>5. Holds(p) /\ Holds(p)'
    BY <1>0, <1>1, <1>2 DEF Holds, Holding
  <1>6. Will(p) => Will(p)'
    <2> SUFFICES ASSUME Will(p) PROVE Will(p)'
      OBVIOUS
    <2>1. candidates[k].lines = Current
      BY <1>0 DEF Will, k
    <2> QED
      BY <1>0, <1>1, <1>2, <1>4, <1>5, <2>1 DEF Will
  <1> QED
    BY <1>0, <1>1, <1>2, <1>3, <1>5, <1>6, OpKeeps DEF Later, Opened, k

LEMMA MarkKeeps ==
    ASSUME TypeInv, NEW p \in Procs, Marks(p), Fresh \/ \E q \in Procs : Will(q)
    PROVE  Fresh' \/ \E q \in Procs : Will(q)'
  <1> DEFINE k == Key(calls[p])
  <1>0. /\ UNCHANGED <<todos, candidates, file>> /\ calls[p].pc = "mark"
        /\ DOMAIN ops' = DOMAIN ops /\ \A j \in DOMAIN ops : j # k => ops'[j] = ops[j]
    BY MarksTo
  <1>1. PICK d \in Call : calls' = [calls EXCEPT ![p] = d] /\ d.pc = "verify" /\ ~d.built /\ Key(d) = k
    BY MarksTo
  <1>2. calls'[p] = d
    BY <1>1 DEF TypeInv, TypeOK
  <1>3. \A q \in Procs \ {p} : Left(q)
    BY OwnStep DEF Acts
  <1> HIDE DEF k
  <1>4. ~Will(p) /\ ~Holds(p)'
    BY <1>0, <1>1, <1>2 DEF Will, Holds, Holding
  <1> QED
    BY <1>0, <1>1, <1>2, <1>3, <1>4, OpKeeps DEF Later, Opened, k

LEMMA VerifyKeeps ==
    ASSUME TypeInv, NEW p \in Procs, Verifies(p), "interrupted" \notin history'.faults,
           Fresh \/ \E q \in Procs : Will(q)
    PROVE  Fresh' \/ \E q \in Procs : Will(q)'
  <1> DEFINE c == calls[p]
             k == Key(c)
  <1>0. /\ UNCHANGED <<todos, candidates, file>> /\ c.pc = "verify"
        /\ DOMAIN ops' = DOMAIN ops /\ \A j \in DOMAIN ops : j # k => ops'[j] = ops[j]
        /\ DoneAs(c, Done(c)) /\ calls' = [calls EXCEPT ![p] = Done(c)]
    <2>1. ~Gone(p, {"interrupted"})
      BY DEF Gone
    <2> QED
      BY <2>1, VerifiesTo
  <1>1. PICK d \in Call : d = Done(c)
    BY <1>0 DEF DoneAs
  <1>2. calls'[p] = d /\ d.pc \notin Later /\ ~d.built
    BY <1>0, <1>1 DEF TypeInv, TypeOK, DoneAs, Later, Opened
  <1>3. \A q \in Procs \ {p} : Left(q)
    BY OwnStep DEF Acts
  <1> HIDE DEF k
  <1>4. ~Will(p) /\ ~Holds(p)'
    BY <1>0, <1>2 DEF Will, Holds, Holding
  <1> QED
    BY <1>0, <1>2, <1>3, <1>4, OpKeeps DEF Later, Opened, k

\* An installation in time brings the file up to date, and makes late what the
\* others have built.
LEMMA ReplaceFresh ==
    ASSUME TypeInv, NEW p \in Procs, Replaced(p), Key(calls[p]) \in DOMAIN candidates,
           candidates[Key(calls[p])].lines = Current
    PROVE  Fresh'
  <1>1. /\ file' = candidates[Key(calls[p])] /\ UNCHANGED todos /\ calls'[p].pc = "mark"
        /\ \A q \in Procs \ {p} : /\ SameCall(calls'[q], calls[q])
                                  /\ calls'[q].late = (calls[q].late \/ calls[q].built)
    BY DEF Replaced
  <1>2. Current' = Current
    BY <1>1, SameCurrent
  <1>3. \A q \in Procs : ~Timely(q)'
    <2>1. ~Timely(p)'
      BY <1>1 DEF Timely, Holds, Holding
    <2>2. ASSUME NEW q \in Procs \ {p} PROVE ~Timely(q)'
      BY <1>1 DEF Timely, Holds, SameCall
    <2> QED
      BY <2>1, <2>2
  <1> QED
    BY <1>1, <1>2, <1>3 DEF Fresh

LEMMA InstallKeeps ==
    ASSUME TypeInv, NEW p \in Procs, Installs(p) \/ InstallsRebuilt(p),
           history'.faults \cap {"resumed", "overtaken"} = {}, Fresh \/ \E q \in Procs : Will(q)
    PROVE  Fresh' \/ \E q \in Procs : Will(q)'
  <1>0. \A q \in Procs \ {p} : Left(q)
    BY OwnStep DEF Acts
  <1>1. CASE Replaced(p)
    <2>1. Timely(p) /\ Holds(p)
      BY <1>1 DEF Replaced, Timely, Holds, Holding
    <2>2. CASE candidates[Key(calls[p])].lines = Current
      BY <1>1, <2>2, ReplaceFresh DEF Replaced
    <2>3. CASE candidates[Key(calls[p])].lines # Current
      <3>1. ~Will(p)
        BY <1>1, <2>3 DEF Will, Replaced
      <3>2. PICK q \in Procs \ {p} : Will(q)
        BY <2>1, <2>3, <3>1 DEF Fresh
      <3>3. Calm(p)
        BY <1>1, SameCurrent DEF Calm, Replaced, Later, Opened
      <3> QED
        BY <1>0, <3>2, <3>3, WillStays
    <2> QED
      BY <2>2, <2>3
  <1>2. CASE ~Replaced(p)
    <2>1. PICK d \in Call : Moves(p, d) /\ d.pc = "build"
      BY <1>2, InstallsTo
    <2>2. Will(p)'
      BY <2>1 DEF Moves, Will, TypeInv, TypeOK
    <2> QED
      BY <2>2
  <1> QED
    BY <1>1, <1>2

LEMMA DieKeeps ==
    ASSUME TypeInv, NEW p \in Procs, Die(p), "interrupted" \notin history'.faults,
           Fresh \/ \E q \in Procs : Will(q)
    PROVE  Fresh' \/ \E q \in Procs : Will(q)'
  <1>1. /\ UNCHANGED <<todos, ops, candidates, file>> /\ calls' = [calls EXCEPT ![p] = Idle]
        /\ calls[p].pc \in {"promote", "allocate", "insert", "engine", "settle"}
    BY DiesTo DEF Gone
  <1>2. ~Will(p)
    BY <1>1 DEF Will, Holds, Holding
  <1>3. calls'[p].pc \notin Later
    BY <1>1 DEF TypeInv, TypeOK, Idle, Later, Opened
  <1>4. \A q \in Procs \ {p} : Left(q)
    BY OwnStep DEF Acts
  <1> QED
    BY <1>1, <1>2, <1>3, <1>4, MoveKeeps

\* A command alone with the project since it built its candidate.
LEMMA AloneStep ==
    ASSUME TypeInv, [Next]_vars, NEW p \in Procs, Holds(p)', calls'[p].alone,
           Holds(p) /\ calls[p].alone =>
             /\ \A q \in Procs \ {p} : calls[q].pc = "idle"
             /\ candidates[Key(calls[p])].lines = Current
    PROVE  /\ \A q \in Procs \ {p} : calls'[q].pc = "idle"
           /\ candidates'[Key(calls'[p])].lines = Current'
  <1> DEFINE Goal == /\ \A q \in Procs \ {p} : calls'[q].pc = "idle"
                     /\ candidates'[Key(calls'[p])].lines = Current'
  <1>0. calls \in [Procs -> Call]
    BY DEF TypeInv, TypeOK
  <1>1. ASSUME UNCHANGED <<calls, todos, candidates>> PROVE Goal
    <2>1. Current' = Current
      BY <1>1, SameCurrent
    <2> QED
      BY <1>1, <2>1 DEF Holds
  <1>2. ASSUME Between PROVE FALSE
    BY <1>2, BetweenOK DEF Holds, Holding
  <1>3. ASSUME NEW q \in Procs \ {p}, Acts(q) PROVE FALSE
    <2>1. Left(p)
      BY <1>3, OwnStep
    <2>2. Holds(p) /\ calls[p].alone
      BY <2>1 DEF Left, SameCall, Holds
    <2>3. calls[q].pc = "idle"
      BY <2>2
    <2>4. CASE Start(q)
      BY <1>3, <2>4, StartsTo
    <2>5. CASE ~Start(q)
      BY <1>3, <2>3, <2>5
         DEF Acts, Proceeds, Promotes, Allocates, Loads, Inserts, Adopts, Releases, Completes, Defers, Upserts, Builds,
             Readies, Installs, InstallsRebuilt, Marks, Verifies, End, Engine, Settles, Die, At
    <2> QED
      BY <2>4, <2>5
  <1>4. ASSUME NEW d, calls' = [calls EXCEPT ![p] = d], ~d.built \/ d.pc = "build" PROVE FALSE
    BY <1>0, <1>4 DEF Holds, Holding
  <1>5. ASSUME NEW d, calls' = [calls EXCEPT ![p] = d], d = Idle PROVE FALSE
    BY <1>4, <1>5 DEF Idle
  <1>6. ASSUME Builds(p) PROVE Goal
    <2>1. PICK d \in Call : /\ calls' = [calls EXCEPT ![p] = d] /\ Key(d) = Key(calls[p])
                            /\ d.alone => \A q \in Procs \ {p} : calls[q].pc = "idle"
      BY <1>6, BuildsTo
    <2>2. candidates'[Key(calls[p])].lines = Current
      BY <1>6, BuildsTo
    <2>3. calls'[p] = d /\ \A q \in Procs \ {p} : calls'[q] = calls[q]
      BY <1>0, <2>1
    <2> QED
      BY <1>6, <2>1, <2>2, <2>3, BuildKeeps
  <1>7. ASSUME Readies(p) PROVE Goal
    <2>1. PICK d \in Call : /\ calls' = [calls EXCEPT ![p] = d] /\ Key(d) = Key(calls[p])
                            /\ d.alone = calls[p].alone
      BY <1>7, ReadiesTo
    <2>2. UNCHANGED <<todos, candidates>> /\ calls[p].pc = "ready"
      BY <1>7, ReadiesTo
    <2>3. calls'[p] = d /\ \A q \in Procs \ {p} : calls'[q] = calls[q]
      BY <1>0, <2>1
    <2>4. Holds(p) /\ calls[p].alone
      BY <2>1, <2>2, <2>3, CallAt DEF CallOK, Holds, Holding
    <2> QED
      BY <2>1, <2>2, <2>3, <2>4, SameCurrent
  <1>8. ASSUME Acts(p), ~Builds(p), ~Readies(p) PROVE FALSE
    <2>1. CASE Start(p)
      BY <2>1, StartsTo DEF Holds
    <2>2. CASE Promotes(p) \/ Allocates(p)
      BY <1>4, <2>2, PromotesTo
    <2>3. CASE Loads(p)
      <3>1. \E d : calls' = [calls EXCEPT ![p] = d] /\ ~d.built
        BY <2>3, LoadsTo DEF DoneAs
      <3> QED
        BY <1>4, <3>1
    <2>4. CASE Inserts(p)
      BY <1>4, <1>5, <2>4, InsertsTo DEF Moves
    <2>5. CASE Adopts(p)
      BY <1>4, <1>5, <2>5, AdoptsTo DEF Moves
    <2>6. CASE Releases(p)
      BY <1>4, <1>5, <2>6, ReleasesTo DEF Moves
    <2>7. CASE Completes(p)
      <3>1. \/ calls' = [calls EXCEPT ![p] = Idle]
            \/ \E d : calls' = [calls EXCEPT ![p] = d] /\ ~d.built
        BY <2>7, CompletesTo DEF Moves
      <3> QED
        BY <1>4, <1>5, <3>1
    <2>8. CASE Defers(p)
      <3>1. \/ calls' = [calls EXCEPT ![p] = Idle]
            \/ \E d : calls' = [calls EXCEPT ![p] = d] /\ ~d.built
        BY <2>8, DefersTo DEF Moves
      <3> QED
        BY <1>4, <1>5, <3>1
    <2>9. CASE Upserts(p)
      BY <1>4, <2>9, UpsertsTo
    <2>10. CASE Installs(p) \/ InstallsRebuilt(p)
      <3>1. CASE Replaced(p)
        BY <3>1 DEF Replaced, Holds
      <3>2. CASE ~Replaced(p)
        <4>1. \E d : calls' = [calls EXCEPT ![p] = d] /\ d.pc = "build"
          BY <2>10, <3>2, InstallsTo DEF Moves
        <4> QED
          BY <1>4, <4>1
      <3> QED
        BY <3>1, <3>2
    <2>11. CASE Marks(p)
      BY <1>4, <2>11, MarksTo
    <2>12. CASE Verifies(p)
      <3>1. \/ calls' = [calls EXCEPT ![p] = Idle]
            \/ \E d : calls' = [calls EXCEPT ![p] = d] /\ ~d.built
        BY <2>12, VerifiesTo DEF Gone, DoneAs
      <3> QED
        BY <1>4, <1>5, <3>1
    <2>13. CASE End(p) \/ Die(p)
      <3>1. calls' = [calls EXCEPT ![p] = Idle]
        BY <2>13, EndsTo, DiesTo DEF Gone
      <3> QED
        BY <1>5, <3>1
    <2> QED
      BY <1>8, <2>1, <2>2, <2>3, <2>4, <2>5, <2>6, <2>7, <2>8, <2>9, <2>10, <2>11, <2>12, <2>13 DEF Acts, Proceeds
  <1>9. CASE Next
    <2>1. Between \/ \E q \in Procs : Acts(q)
      BY <1>9, NextCases DEF Acts
    <2>2. Acts(p)
      BY <1>2, <1>3, <2>1
    <2> QED
      BY <1>6, <1>7, <1>8, <2>2
  <1> QED
    BY <1>1, <1>9 DEF vars

\* Without a fault, before and after.
LEMMA FreshStep ==
    ASSUME TypeInv, [Next]_vars, history'.faults \cap Outdated = {}, Fresh \/ \E q \in Procs : Will(q)
    PROVE  Fresh' \/ \E q \in Procs : Will(q)'
  <1>0. \A f \in Outdated : f \notin history'.faults
    OBVIOUS
  <1>1. ASSUME UNCHANGED <<calls, todos, ops, candidates, file>>
        PROVE  Fresh' \/ \E q \in Procs : Will(q)'
    <2>1. Current' = Current
      BY <1>1, SameCurrent
    <2>2. \A q \in Procs : Will(q) => Will(q)'
      BY <1>1, <2>1 DEF Will, Holds
    <2>3. Fresh => Fresh'
      BY <1>1, <2>1 DEF Fresh, Timely, Holds
    <2> QED
      BY <2>2, <2>3
  <1>2. CASE Between
    <2>1. /\ \A p \in Procs : calls[p].pc = "idle"
          /\ UNCHANGED <<todos, ops, file, calls>>
      BY <1>2, BetweenOK
    <2>2. \A p \in Procs : ~Will(p) /\ ~Holds(p)'
      BY <2>1 DEF Will, Holds, Holding
    <2> QED
      BY <2>1, <2>2, SameCurrent DEF Fresh, Timely
  <1>3. ASSUME NEW p \in Procs, Acts(p)
        PROVE  Fresh' \/ \E q \in Procs : Will(q)'
    <2>1. CASE Start(p) \/ Promotes(p) \/ Allocates(p) \/ End(p)
      BY <2>1, StartKeeps
    <2>2. CASE Loads(p)
      BY <2>2, LoadKeeps
    <2>3. CASE Inserts(p) \/ Adopts(p) \/ Releases(p)
      BY <2>3, ChangeKeeps
    <2>4. CASE Completes(p)
      BY <2>4, CompleteKeeps
    <2>5. CASE Defers(p)
      BY <2>5, DeferKeeps
    <2>6. CASE Upserts(p)
      BY <1>0, <2>6, UpsertKeeps DEF Outdated
    <2>7. CASE Builds(p)
      BY <2>7, BuildKeeps
    <2>8. CASE Readies(p)
      BY <2>8, ReadyKeeps
    <2>9. CASE Installs(p) \/ InstallsRebuilt(p)
      BY <1>0, <2>9, InstallKeeps DEF Outdated
    <2>10. CASE Marks(p)
      BY <2>10, MarkKeeps
    <2>11. CASE Verifies(p)
      BY <1>0, <2>11, VerifyKeeps DEF Outdated
    <2>12. CASE Die(p)
      BY <1>0, <2>12, DieKeeps DEF Outdated
    <2> QED
      BY <1>3, <2>1, <2>2, <2>3, <2>4, <2>5, <2>6, <2>7, <2>8, <2>9, <2>10, <2>11, <2>12 DEF Acts, Proceeds
  <1>4. CASE Next
    <2>1. Between \/ \E q \in Procs : Acts(q)
      BY <1>4, NextCases DEF Acts
    <2> QED
      BY <1>2, <1>3, <2>1
  <1> QED
    BY <1>1, <1>4 DEF vars

\* An interrupted command is made good by one that is alone with the project.
LEMMA CureStep ==
    ASSUME TypeInv, [Next]_vars, history'.faults \cap Outdated = {}, history.faults \cap Outdated # {},
           \A p \in Procs : Holds(p) /\ calls[p].alone => candidates[Key(calls[p])].lines = Current
    PROVE  Fresh'
  <1>1. "interrupted" \in history.faults /\ "interrupted" \notin history'.faults
    BY FaultsStay DEF Outdated
  <1>2. PICK p \in Procs : Installs(p) \/ InstallsRebuilt(p)
    <2>1. ASSUME NEW p \in Procs, Start(p) \/ Inserts(p) \/ Adopts(p) \/ Upserts(p)
          PROVE  history.faults \subseteq history'.faults
      BY <2>1, StartsTo, InsertsTo, AdoptsTo, UpsertsTo DEF Moves
    <2>2. ASSUME NEW p \in Procs, Verifies(p) \/ Die(p)
          PROVE  history.faults \subseteq history'.faults
      BY <2>2, VerifiesTo, DiesTo DEF Gone
    <2>3. ASSUME NEW p \in Procs,
                 Proceeds(p) \/ Releases(p) \/ Completes(p) \/ Defers(p) \/ Builds(p) \/ Readies(p) \/ Marks(p) \/ End(p)
          PROVE  UNCHANGED history
      BY <2>3 DEF Proceeds, Promotes, Allocates, Loads, Releases, Completes, Defers, Builds, Readies, Marks,
                  End, Engine, Settles
    <2>4. CASE UNCHANGED vars
      BY <1>1, <2>4 DEF vars
    <2>5. CASE Next
      <3>1. ~Between
        BY <1>1, BetweenOK
      <3>2. PICK p \in Procs : Acts(p)
        BY <2>5, <3>1, NextCases DEF Acts
      <3>3. Installs(p) \/ InstallsRebuilt(p)
        BY <1>1, <2>1, <2>2, <2>3, <3>2 DEF Acts
      <3> QED
        BY <3>3
    <2> QED
      BY <2>4, <2>5
  <1>3. Replaced(p) /\ calls[p].built /\ calls[p].alone
    <2>1. Replaced(p)
      BY <1>1, <1>2, InstallsTo DEF Moves
    <2> QED
      BY <1>1, <2>1 DEF Replaced
  <1>4. candidates[Key(calls[p])].lines = Current /\ Key(calls[p]) \in DOMAIN candidates
    BY <1>3 DEF Replaced, Holds, Holding
  <1> QED
    BY <1>3, <1>4, ReplaceFresh

LEMMA CurrentStep ==
    ASSUME TypeInv, CurrentInv, [Next]_vars
    PROVE  CurrentInv'
  <1>1. ASSUME NEW p \in Procs, Holds(p)', calls'[p].alone
        PROVE  /\ \A q \in Procs \ {p} : calls'[q].pc = "idle"
               /\ candidates'[Key(calls'[p])].lines = Current'
    BY <1>1, AloneStep DEF CurrentInv
  <1>2. ASSUME history'.faults \cap Outdated = {}
        PROVE  Fresh' \/ \E q \in Procs : Will(q)'
    <2>1. CASE history.faults \cap Outdated = {}
      <3>1. Fresh \/ \E q \in Procs : Will(q)
        BY <2>1 DEF CurrentInv, Fresh
      <3> QED
        BY <1>2, <3>1, FreshStep
    <2>2. CASE history.faults \cap Outdated # {}
      BY <1>2, <2>2, CureStep DEF CurrentInv
    <2> QED
      BY <2>1, <2>2
  <1> QED
    BY <1>1, <1>2 DEF CurrentInv, Fresh

\* Between commands the file shows the ToDos as they are.
THEOREM CurrentFile == Spec => []ProjectionIsCurrent
  <1>1. Init => CurrentInv
    <2> SUFFICES ASSUME Init PROVE CurrentInv
      OBVIOUS
    <2>1. \A p \in Procs : ~Holds(p)
      BY DEF Init, Holds, Idle
    <2>2. Current = {} /\ file.lines = {}
      BY DEF Init, Current, Projected, NoTodo, Empty
    <2> QED
      BY <2>1, <2>2 DEF CurrentInv, Timely
  <1>2. TypeInv /\ CurrentInv /\ [Next]_vars => (TypeInv /\ CurrentInv)'
    BY TypeNext, CurrentStep
  <1>3. CurrentInv => ProjectionIsCurrent
    <2> SUFFICES ASSUME CurrentInv, Quiet, history.faults \cap Outdated = {}
                 PROVE  file.lines = Current
      BY DEF ProjectionIsCurrent, Outdated, Current
    <2>1. \A p \in Procs : ~Will(p)
      BY DEF Quiet, At, Will, Holds, Holding
    <2> QED
      BY <2>1 DEF CurrentInv
  <1> QED
    BY TypeInit, <1>1, <1>2, <1>3, PTL DEF Spec
-----------------------------------------------------------------------------
(* A cycle ends with deferred ToDos once the file shows them.              *)

\* A candidate built from the ToDos as they are shows those on display.
LEMMA CurrentNames ==
    ASSUME NEW i \in Ids, Projected(i)
    PROVE  i \in Names(Current)
  <1>1. Line(i) \in Current /\ Line(i)[1] = i
    BY DEF Current, Line
  <1> QED
    BY <1>1 DEF Names

\* Who holds a candidate that is in time.
LEMMA TimelySteps ==
    ASSUME TypeInv, [Next]_vars, NEW p \in Procs, Timely(p)'
    PROVE  \/ Timely(p) /\ Key(calls'[p]) = Key(calls[p])
           \/ Builds(p) /\ Key(calls'[p]) = Key(calls[p])
  <1> DEFINE Goal == \/ Timely(p) /\ Key(calls'[p]) = Key(calls[p])
                     \/ Builds(p) /\ Key(calls'[p]) = Key(calls[p])
  <1>0. calls \in [Procs -> Call] /\ calls'[p].built /\ calls'[p].pc \in Holding /\ ~calls'[p].late
    BY DEF TypeInv, TypeOK, Timely, Holds
  <1>1. CASE UNCHANGED calls
    BY <1>1 DEF Timely, Holds
  <1>2. ASSUME NEW q \in Procs \ {p}, Acts(q) PROVE Goal
    <2>1. Left(p)
      BY <1>2, OwnStep
    <2> QED
      BY <1>0, <2>1, KeySame DEF Left, SameCall, Timely, Holds
  <1>3. ASSUME NEW d, calls' = [calls EXCEPT ![p] = d], ~d.built \/ d.pc \notin Holding PROVE FALSE
    BY <1>0, <1>3
  <1>4. ASSUME NEW d, calls' = [calls EXCEPT ![p] = d], d = Idle PROVE FALSE
    BY <1>3, <1>4 DEF Idle
  <1>5. ASSUME Builds(p) PROVE Goal
    <2>1. PICK d \in Call : calls' = [calls EXCEPT ![p] = d] /\ Key(d) = Key(calls[p])
      BY <1>5, BuildsTo
    <2> QED
      BY <1>0, <1>5, <2>1
  <1>6. ASSUME Readies(p) PROVE Goal
    <2>1. PICK d \in Call : /\ calls' = [calls EXCEPT ![p] = d] /\ Key(d) = Key(calls[p])
                            /\ d.late = calls[p].late
      BY <1>6, ReadiesTo
    <2>2. calls[p].pc = "ready" /\ calls[p].built
      BY <1>6, ReadiesTo, CallAt DEF CallOK
    <2> QED
      BY <1>0, <2>1, <2>2 DEF Timely, Holds, Holding
  <1>8. ASSUME Acts(p), ~Builds(p), ~Readies(p) PROVE FALSE
    <2>1. CASE Start(p)
      BY <1>0, <2>1, StartsTo
    <2>2. CASE Promotes(p) \/ Allocates(p)
      BY <1>3, <2>2, PromotesTo
    <2>3. CASE Loads(p)
      <3>1. \E d : calls' = [calls EXCEPT ![p] = d] /\ ~d.built
        BY <2>3, LoadsTo DEF DoneAs
      <3> QED
        BY <1>3, <3>1
    <2>4. CASE Inserts(p)
      BY <1>3, <1>4, <2>4, InsertsTo DEF Moves
    <2>5. CASE Adopts(p)
      BY <1>3, <1>4, <2>5, AdoptsTo DEF Moves
    <2>6. CASE Releases(p)
      BY <1>3, <1>4, <2>6, ReleasesTo DEF Moves
    <2>7. CASE Completes(p)
      <3>1. \/ calls' = [calls EXCEPT ![p] = Idle]
            \/ \E d : calls' = [calls EXCEPT ![p] = d] /\ ~d.built
        BY <2>7, CompletesTo DEF Moves
      <3> QED
        BY <1>3, <1>4, <3>1
    <2>8. CASE Defers(p)
      <3>1. \/ calls' = [calls EXCEPT ![p] = Idle]
            \/ \E d : calls' = [calls EXCEPT ![p] = d] /\ ~d.built
        BY <2>8, DefersTo DEF Moves
      <3> QED
        BY <1>3, <1>4, <3>1
    <2>9. CASE Upserts(p)
      BY <1>3, <2>9, UpsertsTo
    <2>10. CASE Installs(p) \/ InstallsRebuilt(p)
      <3>1. CASE Replaced(p)
        BY <1>0, <3>1 DEF Replaced
      <3>2. CASE ~Replaced(p)
        <4>1. \E d : calls' = [calls EXCEPT ![p] = d] /\ d.pc = "build"
          BY <2>10, <3>2, InstallsTo DEF Moves
        <4> QED
          BY <1>3, <4>1 DEF Holding
      <3> QED
        BY <3>1, <3>2
    <2>11. CASE Marks(p)
      BY <1>3, <2>11, MarksTo
    <2>12. CASE Verifies(p)
      <3>1. \/ calls' = [calls EXCEPT ![p] = Idle]
            \/ \E d : calls' = [calls EXCEPT ![p] = d] /\ ~d.built
        BY <2>12, VerifiesTo DEF Gone, DoneAs
      <3> QED
        BY <1>3, <1>4, <3>1
    <2>13. CASE End(p) \/ Die(p)
      <3>1. calls' = [calls EXCEPT ![p] = Idle]
        BY <2>13, EndsTo, DiesTo DEF Gone
      <3> QED
        BY <1>4, <3>1
    <2> QED
      BY <1>8, <2>1, <2>2, <2>3, <2>4, <2>5, <2>6, <2>7, <2>8, <2>9, <2>10, <2>11, <2>12, <2>13 DEF Acts, Proceeds
  <1>9. CASE Next
    <2>1. Between \/ \E q \in Procs : Acts(q)
      BY <1>9, NextCases DEF Acts
    <2>2. CASE Between
      BY <1>1, <2>2, BetweenOK
    <2> QED
      BY <1>2, <1>5, <1>6, <1>8, <2>1, <2>2
  <1> QED
    BY <1>1, <1>9 DEF vars

\* What the file shows, and what is about to be installed, it goes on showing.
LEMMA StaysKept ==
    ASSUME TypeInv, [Next]_vars, history'.faults \cap {"resumed", "overtaken"} = {},
           NEW i \in Ids, todos[i].status # "none", Stays(i)
    PROVE  Stays(i)'
  <1> SUFFICES ASSUME Projected(i)'
               PROVE  /\ i \in Names(file'.lines)
                      /\ \A p \in Procs : Timely(p)' => i \in Names(candidates'[Key(calls'[p])].lines)
    BY DEF Stays
  <1>1. Projected(i)
    <2>1. todos[i].status # "resolved"
      BY Growing DEF TodosGrow, Projected
    <2> QED
      BY <2>1 DEF Projected, TypeInv, TypeOK, Todo
  <1>2. /\ i \in Names(file.lines)
        /\ \A p \in Procs : Timely(p) => i \in Names(candidates[Key(calls[p])].lines)
    BY <1>1 DEF Stays
  <1>3. i \in Names(file'.lines)
    <2>1. CASE UNCHANGED file
      BY <1>2, <2>1
    <2>2. ASSUME NEW p \in Procs, Replaced(p) PROVE i \in Names(file'.lines)
      <3>1. Timely(p) /\ file' = candidates[Key(calls[p])]
        BY <2>2 DEF Replaced, Timely, Holds, Holding
      <3> QED
        BY <1>2, <3>1
    <2>3. ASSUME NEW p \in Procs, Builds(p) PROVE UNCHANGED file
      BY <2>3, BuildsTo
    <2> QED
      BY <2>1, <2>2, <2>3, FileSteps
  <1>4. ASSUME NEW p \in Procs, Timely(p)'
        PROVE  i \in Names(candidates'[Key(calls'[p])].lines)
    <2> DEFINE k == Key(calls[p])
    <2>1. Key(calls'[p]) = k /\ (Timely(p) \/ Builds(p))
      BY <1>4, TimelySteps
    <2>2. ASSUME NEW q \in Procs, Builds(q)
          PROVE  \/ candidates'[k].lines = Current
                 \/ k # Key(calls[q]) /\ (k \in DOMAIN candidates => candidates'[k] = candidates[k])
      BY <2>2, BuildsTo
    <2>3. Timely(p) => k \in DOMAIN candidates
      BY CallAt DEF Timely, Holds, CallOK
    <2>4. \/ candidates'[k].lines = Current
          \/ Timely(p) /\ candidates'[k] = candidates[k]
      <3>1. CASE \E q \in Procs : Builds(q)
        <4>1. PICK q \in Procs : Builds(q)
          BY <3>1
        <4>2. CASE Builds(p)
          BY <2>2, <4>2
        <4>3. CASE ~Builds(p)
          BY <2>1, <2>2, <2>3, <4>1, <4>3
        <4> QED
          BY <4>2, <4>3
      <3>2. CASE ~\E q \in Procs : Builds(q)
        <4>1. UNCHANGED candidates \/ Between
          BY <3>2, FileSteps DEF Replaced
        <4>2. CASE Between
          BY <1>4, <4>2, BetweenOK DEF Timely, Holds, Holding
        <4> QED
          BY <2>1, <3>2, <4>1, <4>2
      <3> QED
        BY <3>1, <3>2
    <2> HIDE DEF k
    <2> QED
      BY <1>1, <1>2, <2>1, <2>4, CurrentNames DEF k
  <1> QED
    BY <1>3, <1>4

\* Who marks an operation as installed or verified.
LEMMA OpSteps ==
    ASSUME TypeInv, [Next]_vars, NEW k \in DOMAIN ops', ops'[k].status \in {"installed", "verified"}
    PROVE  \/ k \in DOMAIN ops /\ ops[k].status \in {"installed", "verified"}
           \/ \E p \in Procs : calls[p].pc \in {"mark", "verify"} /\ k = Key(calls[p]) /\ k \in DOMAIN ops
  <1> DEFINE Goal == \/ k \in DOMAIN ops /\ ops[k].status \in {"installed", "verified"}
                     \/ \E p \in Procs : calls[p].pc \in {"mark", "verify"} /\ k = Key(calls[p]) /\ k \in DOMAIN ops
  <1>1. CASE UNCHANGED ops
    BY <1>1
  <1>2. ASSUME NEW key, ops' = Intended(key) PROVE Goal
    <2>1. CASE k \in DOMAIN ops
      BY <1>2, <2>1, IntendedOf
    <2>2. CASE k \notin DOMAIN ops
      <3>1. k = key
        BY <1>2, <2>2, IntendedOf
      <3>2. ops'[k] = [status |-> "intent_persisted", sha |-> Empty]
        BY <1>2, <2>2, <3>1, IntendedOf
      <3> QED
        BY <3>2
    <2> QED
      BY <2>1, <2>2
  <1>3. ASSUME NEW p \in Procs, Completes(p) PROVE Goal
    <2> DEFINE key == Key(calls[p])
    <2>1. \/ UNCHANGED ops
          \/ /\ DOMAIN ops' = DOMAIN ops \cup {key} /\ ops'[key].status = "intent_persisted"
             /\ \A j \in DOMAIN ops : j # key => ops'[j] = ops[j]
      BY <1>3, CompletesTo DEF Moves
    <2> HIDE DEF key
    <2> QED
      BY <1>1, <2>1
  <1>4. ASSUME NEW p \in Procs, Defers(p) PROVE Goal
    <2>1. UNCHANGED ops \/ ops' = Intended(Key(calls[p]))
      BY <1>4, DefersTo DEF Moves
    <2> QED
      BY <1>1, <1>2, <2>1
  <1>5. ASSUME NEW p \in Procs, Upserts(p) PROVE Goal
    BY <1>2, <1>5, UpsertsTo
  <1>6. ASSUME NEW p \in Procs, Readies(p) PROVE Goal
    <2> DEFINE key == Key(calls[p])
    <2>1. /\ DOMAIN ops' = DOMAIN ops /\ ops'[key].status = "candidate_ready"
          /\ \A j \in DOMAIN ops : j # key => ops'[j] = ops[j]
      BY <1>6, ReadiesTo
    <2> HIDE DEF key
    <2> QED
      BY <2>1
  <1>7. ASSUME NEW p \in Procs, Marks(p) PROVE Goal
    <2> DEFINE key == Key(calls[p])
    <2>1. /\ DOMAIN ops' = DOMAIN ops /\ calls[p].pc = "mark"
          /\ \A j \in DOMAIN ops : j # key => ops'[j] = ops[j]
      BY <1>7, MarksTo
    <2> QED
      BY <2>1
  <1>8. ASSUME NEW p \in Procs, Verifies(p) PROVE Goal
    <2> DEFINE key == Key(calls[p])
    <2>1. /\ DOMAIN ops' = DOMAIN ops /\ calls[p].pc = "verify"
          /\ \A j \in DOMAIN ops : j # key => ops'[j] = ops[j]
      BY <1>8, VerifiesTo DEF Gone
    <2> QED
      BY <2>1
  <1>9. ASSUME NEW p \in Procs,
               \/ Start(p) \/ Proceeds(p) \/ Inserts(p) \/ Adopts(p) \/ Releases(p) \/ Builds(p) \/ End(p) \/ Die(p)
        PROVE  UNCHANGED ops
    <2>1. CASE Start(p) \/ Proceeds(p)
      BY <2>1, StartsTo, StaysTo DEF Moves
    <2>2. CASE ~(Start(p) \/ Proceeds(p))
      BY <1>9, <2>2 DEF Inserts, Adopts, Releases, Builds, End, Engine, Settles, Die
    <2> QED
      BY <2>1, <2>2
  <1>10. ASSUME NEW p \in Procs, Installs(p) \/ InstallsRebuilt(p) PROVE UNCHANGED ops
    BY <1>10 DEF Installs, InstallsRebuilt
  <1>11. CASE Next
    <2>1. Between \/ \E q \in Procs : Acts(q)
      BY <1>11, NextCases DEF Acts
    <2>2. CASE Between
      BY <1>1, <2>2, BetweenOK
    <2>3. ASSUME NEW p \in Procs, Acts(p) PROVE Goal
      BY <1>1, <1>3, <1>4, <1>5, <1>6, <1>7, <1>8, <1>9, <1>10, <2>3 DEF Acts
    <2> QED
      BY <2>1, <2>2, <2>3
  <1> QED
    BY <1>1, <1>11 DEF vars

\* What a step makes of a deferral: it starts, goes on with the same ToDos, or
\* is done with one of them.
Begun(p) == calls'[p].given = calls'[p].ids /\ calls'[p].pc \notin {"mark", "verify"}

Continued(p) ==
    LET c == calls[p]
        d == calls'[p]
    IN
    /\ c.cmd = "defer" /\ c.pc # "idle" /\ d.given = c.given /\ d.ids = c.ids
    /\ d.pc \in {"mark", "verify"} =>
         \/ c.pc \in {"mark", "verify"}
         \/ Replaced(p)
         \/ Key(c) \in DOMAIN ops /\ Key(c)[3] = Pick(c.ids) /\ ops[Key(c)].status = "installed"

Finished(p) ==
    LET c == calls[p]
        d == calls'[p]
    IN
    /\ c.cmd = "defer" /\ d.given = c.given /\ d.ids = c.ids \ {Pick(c.ids)} /\ d.pc \notin {"mark", "verify"}
    /\ c.pc # "idle" /\ Key(c) \in DOMAIN ops /\ Key(c)[1] = "defer" /\ Key(c)[3] = Pick(c.ids)
    /\ c.pc = "verify" \/ ops[Key(c)].status = "verified"

LEMMA DeferralSteps ==
    ASSUME TypeInv, [Next]_vars, NEW p \in Procs, calls'[p].cmd = "defer", calls'[p].pc # "idle"
    PROVE  Begun(p) \/ Continued(p) \/ Finished(p)
  <1> DEFINE Goal == Begun(p) \/ Continued(p) \/ Finished(p)
             c == calls[p]
  <1>0. calls \in [Procs -> Call] /\ c \in Call /\ CallOK(c)
    BY CallAt DEF TypeInv, TypeOK
  <1>1. ASSUME UNCHANGED calls PROVE Goal
    BY <1>1 DEF Continued
  <1>2. ASSUME NEW q \in Procs \ {p}, Acts(q) PROVE Goal
    <2>1. Left(p)
      BY <1>2, OwnStep
    <2> QED
      BY <2>1 DEF Left, SameCall, Continued
  <1>3. ASSUME NEW d, calls' = [calls EXCEPT ![p] = d], d.cmd # "defer" \/ d.pc = "idle" PROVE FALSE
    BY <1>0, <1>3
  <1>4. ASSUME NEW d, calls' = [calls EXCEPT ![p] = d], d = Idle PROVE FALSE
    BY <1>3, <1>4 DEF Idle
  <1>5. ASSUME NEW d, calls' = [calls EXCEPT ![p] = d], d.cmd = c.cmd, d.given = c.given, d.ids = c.ids,
               c.pc # "idle", d.pc \notin {"mark", "verify"} \/ c.pc \in {"mark", "verify"}
        PROVE  Goal
    <2>1. calls'[p] = d
      BY <1>0, <1>5
    <2> QED
      BY <1>5, <2>1 DEF Continued
  <1>6. c.cmd = "defer" /\ c.pc \in {"load", "verify"} =>
          /\ Key(c) \in DOMAIN ops /\ Key(c)[1] = "defer" /\ Key(c)[3] = Pick(c.ids)
    BY <1>0, KeyOf DEF CallOK, Opened
  <1>7. ASSUME Start(p) PROVE Goal
    <2>1. /\ calls'[p].pc \in {"adopt", "promote", "complete", "defer", "engine", "resolve", "release"}
          /\ calls'[p].cmd = "defer" => calls'[p].given = calls'[p].ids
      BY <1>7, StartsTo
    <2> QED
      BY <2>1 DEF Begun
  <1>8. ASSUME Loads(p) PROVE Goal
    <2>1. PICK d \in Call :
            /\ calls' = [calls EXCEPT ![p] = d] /\ c.pc = "load"
            /\ \/ ops[Key(c)].status = "verified" /\ DoneAs(c, d)
               \/ /\ d.cmd = c.cmd /\ d.ids = c.ids /\ d.given = c.given
                  /\ d.pc \in {"build", "install"} \/ (ops[Key(c)].status = "installed" /\ d.pc = "verify")
      BY <1>8, LoadsTo
    <2>2. calls'[p] = d
      BY <1>0, <2>1
    <2>3. CASE ops[Key(c)].status = "verified" /\ DoneAs(c, d)
      <3>1. c.cmd = "defer"
        BY <2>2, <2>3 DEF DoneAs
      <3>2. d.given = c.given /\ d.ids = c.ids \ {Pick(c.ids)} /\ d.pc \notin {"mark", "verify"}
        BY <2>2, <2>3 DEF DoneAs
      <3> QED
        BY <1>6, <2>1, <2>2, <2>3, <3>1, <3>2 DEF Finished
    <2>4. CASE /\ d.cmd = c.cmd /\ d.ids = c.ids /\ d.given = c.given
               /\ d.pc \in {"build", "install"} \/ (ops[Key(c)].status = "installed" /\ d.pc = "verify")
      BY <1>6, <2>1, <2>2, <2>4 DEF Continued
    <2> QED
      BY <2>1, <2>3, <2>4
  <1>9. ASSUME Verifies(p) PROVE Goal
    <2>1. CASE Gone(p, {"interrupted"})
      BY <1>4, <2>1 DEF Gone
    <2>2. CASE ~Gone(p, {"interrupted"})
      <3>1. c.pc = "verify" /\ DoneAs(c, Done(c)) /\ calls' = [calls EXCEPT ![p] = Done(c)]
        BY <1>9, <2>2, VerifiesTo
      <3>2. PICK d \in Call : d = Done(c)
        BY <3>1 DEF DoneAs
      <3>3. calls'[p] = d /\ DoneAs(c, d)
        BY <1>0, <3>1, <3>2
      <3>4. c.cmd = "defer"
        BY <3>3 DEF DoneAs
      <3>5. d.given = c.given /\ d.ids = c.ids \ {Pick(c.ids)} /\ d.pc \notin {"mark", "verify"}
        BY <3>3 DEF DoneAs
      <3> QED
        BY <1>6, <3>1, <3>3, <3>4, <3>5 DEF Finished
    <2> QED
      BY <2>1, <2>2
  <1>10. ASSUME Installs(p) \/ InstallsRebuilt(p) PROVE Goal
    <2>1. CASE Replaced(p)
      <3>1. /\ c.pc \in {"install", "replace"} /\ calls'[p].cmd = c.cmd
            /\ calls'[p].ids = c.ids /\ calls'[p].given = c.given
        BY <2>1 DEF Replaced
      <3> QED
        BY <2>1, <3>1 DEF Continued
    <2>2. CASE ~Replaced(p)
      <3>1. \E d : /\ calls' = [calls EXCEPT ![p] = d] /\ c.pc = "install" /\ d.pc = "build"
                   /\ d.cmd = c.cmd /\ d.ids = c.ids /\ d.given = c.given
        BY <1>10, <2>2, InstallsTo DEF Moves
      <3> QED
        BY <1>5, <3>1
    <2> QED
      BY <2>1, <2>2
  <1>11. ASSUME Builds(p) \/ Readies(p) \/ Marks(p) PROVE Goal
    <2>1. \E d : /\ calls' = [calls EXCEPT ![p] = d] /\ d.cmd = c.cmd /\ d.ids = c.ids /\ d.given = c.given
                 /\ c.pc # "idle" /\ (d.pc \notin {"mark", "verify"} \/ c.pc \in {"mark", "verify"})
      <3>1. CASE Builds(p)
        BY <3>1, BuildsTo
      <3>2. CASE Readies(p)
        <4>1. \E d \in Call : /\ calls' = [calls EXCEPT ![p] = d] /\ d.pc \in {"install", "replace"}
                              /\ d.cmd = c.cmd /\ d.ids = c.ids /\ d.given = c.given
          BY <3>2, ReadiesTo
        <4>2. c.pc = "ready"
          BY <3>2, ReadiesTo
        <4> QED
          BY <4>1, <4>2
      <3>3. CASE Marks(p)
        <4>1. \E d \in Call : /\ calls' = [calls EXCEPT ![p] = d]
                              /\ d.cmd = c.cmd /\ d.ids = c.ids /\ d.given = c.given
          BY <3>3, MarksTo
        <4>2. c.pc = "mark"
          BY <3>3, MarksTo
        <4> QED
          BY <4>1, <4>2
      <3> QED
        BY <1>11, <3>1, <3>2, <3>3
    <2> QED
      BY <1>5, <1>11, <2>1 DEF Builds, Readies, Marks, At
  <1>12. ASSUME Defers(p) PROVE Goal
    <2>1. CASE Moves(p, Idle)
      BY <1>4, <2>1 DEF Moves
    <2>2. CASE ~Moves(p, Idle)
      <3>1. c.pc = "defer"
        BY <1>12, DefersTo
      <3>2. \E d : /\ calls' = [calls EXCEPT ![p] = d] /\ d.pc = "load" /\ d.cmd = "defer"
                   /\ d.given = c.given /\ d.ids = c.ids
        BY <1>12, <2>2, DefersTo
      <3>3. c.cmd = "defer"
        BY <1>0, <3>1 DEF CallOK
      <3> QED
        BY <1>5, <3>1, <3>2, <3>3
    <2> QED
      BY <2>1, <2>2
  <1>13. ASSUME \/ Promotes(p) \/ Allocates(p) \/ Inserts(p) \/ Adopts(p) \/ Releases(p) \/ Completes(p)
                \/ Upserts(p) \/ End(p) \/ Die(p)
         PROVE  FALSE
    <2>1. CASE Promotes(p) \/ Allocates(p)
      <3>1. \E d \in Call : calls' = [calls EXCEPT ![p] = d] /\ d.cmd \in {"adopt", "complete"}
        BY <2>1, PromotesTo
      <3> QED
        BY <1>3, <3>1
    <2>2. CASE Inserts(p)
      <3>1. \/ calls' = [calls EXCEPT ![p] = Idle]
            \/ \E d : calls' = [calls EXCEPT ![p] = d] /\ d.cmd \in {"adopt", "complete"}
        BY <2>2, InsertsTo DEF Moves
      <3> QED
        BY <1>3, <1>4, <3>1
    <2>3. CASE Adopts(p)
      BY <1>3, <1>4, <2>3, AdoptsTo DEF Moves
    <2>4. CASE Releases(p)
      <3>1. \/ calls' = [calls EXCEPT ![p] = Idle]
            \/ \E d : calls' = [calls EXCEPT ![p] = d] /\ d.cmd \in Ending
        BY <2>4, ReleasesTo DEF Moves
      <3> QED
        BY <1>3, <1>4, <3>1 DEF Ending
    <2>5. CASE Completes(p)
      <3>1. \/ calls' = [calls EXCEPT ![p] = Idle]
            \/ \E d : calls' = [calls EXCEPT ![p] = d] /\ d.cmd = "complete"
        BY <2>5, CompletesTo DEF Moves
      <3> QED
        BY <1>3, <1>4, <3>1
    <2>6. CASE Upserts(p)
      <3>1. \E d : calls' = [calls EXCEPT ![p] = d] /\ d.cmd \notin {"complete", "defer"}
        BY <2>6, UpsertsTo
      <3> QED
        BY <1>3, <3>1
    <2>7. CASE End(p) \/ Die(p)
      <3>1. calls' = [calls EXCEPT ![p] = Idle]
        BY <2>7, EndsTo, DiesTo DEF Gone
      <3> QED
        BY <1>4, <3>1
    <2> QED
      BY <1>13, <2>1, <2>2, <2>3, <2>4, <2>5, <2>6, <2>7
  <1>14. CASE Next
    <2>1. Between \/ \E q \in Procs : Acts(q)
      BY <1>14, NextCases DEF Acts
    <2>2. CASE Between
      BY <1>1, <2>2, BetweenOK
    <2>3. ASSUME Acts(p) PROVE Goal
      BY <1>7, <1>8, <1>9, <1>10, <1>11, <1>12, <1>13, <2>3 DEF Acts, Proceeds
    <2> QED
      BY <1>2, <2>1, <2>2, <2>3
  <1> QED
    BY <1>1, <1>14 DEF vars

\* Candidates for a deferral show its ToDo.
CandidatesShow ==
    \A k \in DOMAIN candidates :
        k[1] = "defer" => todos[k[3]].status # "none" /\ (Projected(k[3]) => k[3] \in Names(candidates[k].lines))

\* What deferrals have installed or done stays on display.
DeferralsStay ==
    /\ \A k \in DOMAIN ops :
         k[1] = "defer" /\ ops[k].status \in {"installed", "verified"} => Stays(k[3])
    /\ \A p \in Procs :
         calls[p].cmd = "defer" =>
           /\ calls[p].pc \in {"mark", "verify"} => \A f : f = Pick(calls[p].ids) => Stays(f)
           /\ calls[p].pc # "idle" => \A f \in calls[p].given \ calls[p].ids :
                                        todos[f].status # "none" /\ Stays(f)

InTime == history.faults \cap {"resumed", "overtaken"} = {}

LEMMA DeferInvIs == DeferInv <=> CandidatesShow /\ (InTime => DeferralsStay)
  <1>1. ASSUME DeferInv PROVE CandidatesShow /\ (InTime => DeferralsStay)
    BY <1>1 DEF DeferInv, CandidatesShow, DeferralsStay, InTime
  <1>2. ASSUME CandidatesShow, InTime => DeferralsStay PROVE DeferInv
    BY <1>2 DEF DeferInv, CandidatesShow, DeferralsStay, InTime
  <1> QED
    BY <1>1, <1>2

LEMMA KeysName == \A k \in Keys : k[3] \in Ids
  BY DEF Keys

LEMMA CandidatesStep ==
    ASSUME TypeInv, CandidatesShow, [Next]_vars
    PROVE  CandidatesShow'
  <1>0. DOMAIN candidates \subseteq Keys /\ todos \in [Ids -> Todo]
    BY DEF TypeInv, TypeOK
  <1>1. ASSUME NEW k \in DOMAIN candidates, k \in DOMAIN candidates', candidates'[k] = candidates[k], k[1] = "defer"
        PROVE  todos'[k[3]].status # "none" /\ (Projected(k[3])' => k[3] \in Names(candidates'[k].lines))
    <2>1. k[3] \in Ids /\ todos[k[3]].status # "none" /\ (Projected(k[3]) => k[3] \in Names(candidates[k].lines))
      BY <1>0, <1>1, KeysName DEF CandidatesShow
    <2>2. todos'[k[3]].status # "none" /\ (todos[k[3]].status = "resolved" => todos'[k[3]].status = "resolved")
      BY <2>1, Growing DEF TodosGrow
    <2>3. Projected(k[3])' => Projected(k[3])
      BY <1>0, <2>1, <2>2 DEF Projected, Todo
    <2> QED
      BY <1>1, <2>1, <2>2, <2>3
  <1>2. ASSUME NEW p \in Procs, Builds(p) PROVE CandidatesShow'
    <2> DEFINE key == Key(calls[p])
    <2>1. /\ DOMAIN candidates' = DOMAIN candidates \cup {key} /\ candidates'[key].lines = Current
          /\ UNCHANGED todos /\ key \in DOMAIN ops /\ key \in Keys
      BY <1>2, BuildsTo
    <2>2. \A j \in DOMAIN candidates : j # key => candidates'[j] = candidates[j]
      BY <1>2, BuildsTo
    <2> HIDE DEF key
    <2>3. key[3] \in Ids /\ (key[1] = "defer" => todos[key[3]].status # "none")
      <3>1. \A k \in DOMAIN ops : k[1] = "defer" => todos[k[3]].status # "none"
        BY DEF TypeInv, OpInv
      <3>2. key[1] = "defer" => todos[key[3]].status # "none"
        BY <2>1, <3>1
      <3>3. key[3] \in Ids
        BY <2>1, KeysName
      <3> QED
        BY <3>2, <3>3
    <2>4. ASSUME NEW i \in Ids, i = key[3], Projected(i)' PROVE i \in Names(candidates'[key].lines)
      <3>1. Projected(i)
        BY <2>1, <2>4 DEF Projected
      <3> QED
        BY <2>1, <3>1, CurrentNames
    <2>5. ASSUME NEW k \in DOMAIN candidates', k[1] = "defer"
          PROVE  todos'[k[3]].status # "none" /\ (Projected(k[3])' => k[3] \in Names(candidates'[k].lines))
      <3>1. CASE k = key
        BY <2>1, <2>3, <2>4, <2>5, <3>1 DEF Projected
      <3>2. CASE k # key
        BY <1>1, <2>1, <2>2, <2>5, <3>2
      <3> QED
        BY <3>1, <3>2
    <2> QED
      BY <2>5 DEF CandidatesShow
  <1>3. CASE UNCHANGED candidates
    BY <1>1, <1>3 DEF CandidatesShow
  <1>4. CASE DOMAIN candidates' = {}
    BY <1>4 DEF CandidatesShow
  <1>5. ASSUME NEW p \in Procs, Replaced(p) PROVE UNCHANGED candidates
    BY <1>5 DEF Replaced
  <1> QED
    BY <1>2, <1>3, <1>4, <1>5, FileSteps

\* Installing the candidate of a deferral displays its ToDo.
LEMMA ReplaceStays ==
    ASSUME TypeInv, CandidatesShow, NEW p \in Procs, Replaced(p), calls[p].cmd = "defer",
           NEW f, f = Pick(calls[p].ids)
    PROVE  Stays(f)'
  <1> DEFINE k == Key(calls[p])
  <1>1. /\ calls'[p].ids = calls[p].ids /\ k \in DOMAIN candidates /\ file' = candidates[k] /\ UNCHANGED todos
        /\ calls[p].pc \in {"install", "replace"} /\ calls'[p].pc = "mark"
        /\ \A q \in Procs \ {p} : /\ SameCall(calls'[q], calls[q])
                                  /\ calls'[q].late = (calls[q].late \/ calls[q].built)
    BY DEF Replaced
  <1>2. k[1] = "defer" /\ k[3] = f
    BY <1>1, CallAt, KeyOf DEF CallOK, Opened
  <1>3. Projected(f)' => f \in Names(file'.lines)
    <2>1. Projected(f) => f \in Names(candidates[k].lines)
      BY <1>1, <1>2 DEF CandidatesShow
    <2>2. ASSUME Projected(f)' PROVE Projected(f)
      BY <1>1, <2>2 DEF Projected
    <2> QED
      BY <1>1, <2>1, <2>2
  <1>4. \A q \in Procs : ~Timely(q)'
    <2>1. ~Timely(p)'
      BY <1>1 DEF Timely, Holds, Holding
    <2>2. ASSUME NEW q \in Procs \ {p} PROVE ~Timely(q)'
      BY <1>1, <2>2 DEF Timely, Holds, SameCall
    <2> QED
      BY <2>1, <2>2
  <1> QED
    BY <1>3, <1>4 DEF Stays

LEMMA DeferralsStep ==
    ASSUME TypeInv, CandidatesShow, DeferralsStay, [Next]_vars, InTime'
    PROVE  DeferralsStay'
  <1>0. /\ DOMAIN ops \subseteq Keys
        /\ \A k \in DOMAIN ops : k[1] = "defer" => k[3] \in Ids /\ todos[k[3]].status # "none"
    BY KeysName DEF TypeInv, TypeOK, OpInv
  <1>1. ASSUME NEW k \in DOMAIN ops', k[1] = "defer", ops'[k].status \in {"installed", "verified"}
        PROVE  Stays(k[3])'
    <2>1. k \in DOMAIN ops /\ Stays(k[3])
      <3>1. CASE k \in DOMAIN ops /\ ops[k].status \in {"installed", "verified"}
        BY <1>1, <3>1 DEF DeferralsStay
      <3>2. ASSUME NEW p \in Procs, calls[p].pc \in {"mark", "verify"}, k = Key(calls[p]), k \in DOMAIN ops
            PROVE  Stays(k[3])
        <4>1. calls[p].cmd = "defer" /\ k[3] = Pick(calls[p].ids)
          BY <1>1, <3>2, CallAt, KeyOf DEF CallOK, Opened
        <4> QED
          BY <3>2, <4>1 DEF DeferralsStay
      <3> QED
        BY <1>1, <3>1, <3>2, OpSteps
    <2> QED
      BY <1>0, <1>1, <2>1, StaysKept DEF InTime
  <1>2. ASSUME NEW f \in Ids, todos[f].status # "none", Stays(f)
        PROVE  todos'[f].status # "none" /\ Stays(f)'
    BY <1>2, StaysKept, Growing DEF TodosGrow, InTime
  <1>3. ASSUME NEW p \in Procs, calls'[p].cmd = "defer", calls'[p].pc # "idle"
        PROVE  /\ calls'[p].pc \in {"mark", "verify"} => \A f : f = Pick(calls'[p].ids) => Stays(f)'
               /\ \A f \in calls'[p].given \ calls'[p].ids : todos'[f].status # "none" /\ Stays(f)'
    <2> DEFINE c == calls[p]
               d == calls'[p]
    <2>0. c \in Call /\ CallOK(c) /\ c.ids \subseteq Ids /\ (c.cmd = "defer" => c.given \subseteq Ids)
      BY CallAt, Bounds DEF CallOK
    <2>1. c.cmd = "defer" /\ c.pc # "idle" => \A f \in c.given \ c.ids : todos'[f].status # "none" /\ Stays(f)'
      <3>1. SUFFICES ASSUME c.cmd = "defer", c.pc # "idle", NEW f \in c.given \ c.ids
                     PROVE  todos'[f].status # "none" /\ Stays(f)'
        OBVIOUS
      <3>2. f \in Ids /\ todos[f].status # "none" /\ Stays(f)
        BY <2>0, <3>1 DEF DeferralsStay
      <3> QED
        BY <1>2, <3>2
    <2>2. CASE Begun(p)
      BY <2>2 DEF Begun
    <2>3. CASE Continued(p)
      <3>1. c.cmd = "defer" /\ c.pc # "idle" /\ d.given = c.given /\ d.ids = c.ids
        BY <2>3 DEF Continued
      <3>2. ASSUME d.pc \in {"mark", "verify"}, NEW f, f = Pick(d.ids) PROVE Stays(f)'
        <4>1. c.ids # {} /\ f = Pick(c.ids) /\ f \in Ids
          <5>1. CallOK(calls[p])'
            BY TypeNext DEF TypeInv
          <5>2. d.ids # {}
            BY <3>2, <5>1 DEF CallOK, Opened
          <5> QED
            BY <2>0, <3>1, <3>2, <5>2, PickIn
        <4>2. CASE Replaced(p)
          BY <3>1, <4>1, <4>2, ReplaceStays
        <4>3. CASE ~Replaced(p)
          <5>1. Key(c)[1] = "defer" /\ Key(c)[3] = f
            BY <2>0, <3>1, <4>1, KeyOf
          <5>2. CASE c.pc \in {"mark", "verify"}
            <6>1. Key(c) \in DOMAIN ops
              BY <2>0, <5>2 DEF CallOK, Opened
            <6>2. todos[f].status # "none"
              BY <1>0, <5>1, <6>1
            <6>3. Stays(f)
              BY <3>1, <4>1, <5>2 DEF DeferralsStay
            <6> QED
              BY <1>2, <4>1, <6>2, <6>3
          <5>3. CASE Key(c) \in DOMAIN ops /\ ops[Key(c)].status = "installed"
            <6>1. todos[f].status # "none" /\ Stays(f)
              BY <1>0, <5>1, <5>3 DEF DeferralsStay
            <6> QED
              BY <1>2, <4>1, <6>1
          <5> QED
            BY <2>3, <3>2, <4>3, <5>2, <5>3 DEF Continued
        <4> QED
          BY <4>2, <4>3
      <3> QED
        BY <2>1, <3>1, <3>2
    <2>4. CASE Finished(p)
      <3>1. /\ c.cmd = "defer" /\ d.given = c.given /\ d.ids = c.ids \ {Pick(c.ids)} /\ d.pc \notin {"mark", "verify"}
            /\ c.pc # "idle" /\ Key(c) \in DOMAIN ops /\ Key(c)[1] = "defer" /\ Key(c)[3] = Pick(c.ids)
            /\ c.pc = "verify" \/ ops[Key(c)].status = "verified"
        BY <2>4 DEF Finished
      <3>2. PICK f : f = Pick(c.ids)
        OBVIOUS
      <3>3. f \in Ids /\ todos[f].status # "none"
        BY <1>0, <3>1, <3>2
      <3>4. Stays(f)
        <4>1. CASE c.pc = "verify"
          BY <3>1, <3>2, <4>1 DEF DeferralsStay
        <4>2. CASE ops[Key(c)].status = "verified"
          BY <3>1, <3>2, <4>2 DEF DeferralsStay
        <4> QED
          BY <3>1, <4>1, <4>2
      <3>5. todos'[f].status # "none" /\ Stays(f)'
        BY <1>2, <3>3, <3>4
      <3>6. d.given \ d.ids \subseteq (c.given \ c.ids) \cup {f}
        BY <3>1, <3>2
      <3> QED
        BY <2>1, <3>1, <3>5, <3>6
    <2> QED
      BY <1>3, <2>2, <2>3, <2>4, DeferralSteps
  <1>4. ASSUME NEW p \in Procs, calls'[p].cmd = "defer"
        PROVE  /\ calls'[p].pc \in {"mark", "verify"} => \A f : f = Pick(calls'[p].ids) => Stays(f)'
               /\ calls'[p].pc # "idle" => \A f \in calls'[p].given \ calls'[p].ids :
                                             todos'[f].status # "none" /\ Stays(f)'
    <2>1. CASE calls'[p].pc = "idle"
      BY <2>1
    <2>2. CASE calls'[p].pc # "idle"
      BY <1>3, <1>4, <2>2
    <2> QED
      BY <2>1, <2>2
  <1> QED
    BY <1>1, <1>4 DEF DeferralsStay

LEMMA DeferStep ==
    ASSUME TypeInv, DeferInv, [Next]_vars
    PROVE  CandidatesShow' /\ (InTime' => DeferralsStay')
  <1>1. CandidatesShow'
    BY CandidatesStep, DeferInvIs
  <1>2. ASSUME InTime' PROVE DeferralsStay'
    <2>1. InTime
      BY <1>2, FaultsStay DEF InTime
    <2> QED
      BY <1>2, <2>1, DeferralsStep, DeferInvIs
  <1> QED
    BY <1>1, <1>2

LEMMA DeferInit == Init => DeferInv
  BY DEF Init, DeferInv, Idle

LEMMA DeferNext == TypeInv /\ DeferInv /\ [Next]_vars => DeferInv'
  <1>1. TypeInv /\ DeferInv /\ [Next]_vars => CandidatesShow' /\ (InTime' => DeferralsStay')
    BY DeferStep
  <1>2. (DeferInv <=> CandidatesShow /\ (InTime => DeferralsStay))'
    BY DeferInvIs, PTL
  <1> QED
    BY <1>1, <1>2

\* Whose turn it is when a cycle is completed with deferred ToDos.
LEMMA SettleStep ==
    ASSUME TypeInv, DeferInv, NEW c \in Cycles, NEW p \in Procs, NEW f \in Findings,
           At(p, "settle"), InTime, Projected(f),
           f \in calls[p].given \/ (<<"defer", c, f>> \in DOMAIN ops /\ ops[<<"defer", c, f>>].status = "verified")
    PROVE  f \in Names(file.lines)
  <1>1. DeferralsStay
    BY DeferInvIs
  <1>2. Stays(f)
    <2>1. CASE f \in calls[p].given
      <3>1. calls[p].cmd = "defer" /\ calls[p].ids = {} /\ calls[p].pc # "idle"
        BY CallAt DEF CallOK, At
      <3> QED
        BY <1>1, <2>1, <3>1 DEF DeferralsStay
    <2>2. CASE <<"defer", c, f>> \in DOMAIN ops /\ ops[<<"defer", c, f>>].status = "verified"
      <3>1. PICK k : k = <<"defer", c, f>>
        OBVIOUS
      <3>2. k \in DOMAIN ops /\ k[1] = "defer" /\ k[3] = f /\ ops[k].status = "verified"
        BY <2>2, <3>1
      <3> QED
        BY <1>1, <3>2 DEF DeferralsStay
    <2> QED
      BY <2>1, <2>2
  <1> QED
    BY <1>2 DEF Stays

\* A cycle is completed with deferred ToDos only once the file shows each of
\* them that is not resolved (CompleteCycleWithDeferredTodos after
\* ReconcileProjection).
THEOREM Advancement == Spec => AdvancesAfterProjection
  <1>1. Init => TypeInv /\ DeferInv
    BY TypeInit, DeferInit
  <1>2. TypeInv /\ DeferInv /\ [Next]_vars => (TypeInv /\ DeferInv)'
    BY TypeNext, DeferNext
  <1>3. TypeInv /\ DeferInv =>
          [\A c \in Cycles, p \in Procs :
             /\ cycles'[c] = "deferred" /\ cycles[c] # "deferred" /\ At(p, "settle") /\ ~At(p, "settle")'
             /\ history.faults \cap {"resumed", "overtaken"} = {}
             => \A f \in Findings :
                  /\ findings[c][f] = "deferred_todo" /\ Projected(f)
                  /\ f \in calls[p].given \/ (<<"defer", c, f>> \in DOMAIN ops /\ ops[<<"defer", c, f>>].status = "verified")
                  => f \in {l[1] : l \in file.lines}]_vars
    BY SettleStep DEF InTime, Names
  <1> QED
    BY <1>1, <1>2, <1>3, PTL DEF Spec, AdvancesAfterProjection

LEMMA IInvInit == Init => IInv
  <1> SUFFICES ASSUME Init PROVE IInv
    OBVIOUS
  <1>1. TypeInv /\ AdoptionsAreBalanced /\ DeferInv
    BY TypeInit, BalanceInit, DeferInit
  <1>2. \A p \in Procs : calls[p] = Idle
    BY DEF Init
  <1>3. DeferredIsKept
    BY DEF Init, DeferredIsKept
  <1>4. EndInv
    BY DEF Init, EndInv, AdoptedBy, NoTodo, Idle
  <1>5. \A i \in Ids : ~Projected(i)
    BY DEF Init, Projected, NoTodo
  <1>6. PromotionInv
    BY <1>2, <1>5 DEF PromotionInv, Idle, LegacyIds, Ids
  <1>7. LegacyInv
    BY DEF Init, LegacyInv, Empty
  <1>8. CurrentInv
    <2>1. \A p \in Procs : ~Holds(p)
      BY <1>2 DEF Holds, Idle
    <2>2. Current = {} /\ file.lines = {}
      BY <1>5 DEF Init, Current, Empty
    <2> QED
      BY <2>1, <2>2 DEF CurrentInv, Timely
  <1> QED
    BY <1>1, <1>3, <1>4, <1>6, <1>7, <1>8 DEF IInv

\* Every part of the inductive invariant holds together, whatever commands
\* interleave with and wherever processes die.
THEOREM Invariance == Spec => []IInv
  <1>1. IInv /\ [Next]_vars => IInv'
    BY TypeNext, BalanceStep, DeferredStep, EndStep, PromotionStep, LegacyStep, CurrentStep, DeferNext DEF IInv
  <1> QED
    BY IInvInit, <1>1, PTL DEF Spec
=============================================================================

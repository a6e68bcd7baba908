------------------------- MODULE ProjectCycles_proofs -------------------------
(***************************************************************************)
(* What the cycles of a project keep, for every number of processes,       *)
(* cycles, notes and days, whatever commands overlap and wherever they     *)
(* fail or die.                                                            *)
(*                                                                         *)
(* A command that archives has the project lease from its first change to  *)
(* its last, so its files change under it only by what agents write and by *)
(* the directory a new cycle makes; each invariant says what its next      *)
(* steps rely on.                                                          *)
(***************************************************************************)
EXTENDS ProjectCycles, FiniteSetTheorems, SequenceTheorems, WellFoundedInduction, TLAPS

\* Steps of an archive, those within the lease, those after it wrote to
\* docs/idea, and those after the directory was moved.
Leased == {"recovers", "claims", "openspec", "plans", "ideas", "records", "moves", "recreates",
           "finalizes", "unmakes", "restores", "fails", "ends"}
Archiving == {"leases"} \cup Leased
Taking == {"ideas", "records", "moves", "recreates", "finalizes", "unmakes", "restores", "fails"}
Locking == {"locks", "applies", "releases", "unlocks"}
Creating == {"prepares", "numbers", "demotes", "demoting", "inserts"}

Row == [number : Ids, status : Statuses, done : 0..(MaxDay + 1), holder : Holders]
Rows == Seq(Row)
Files == [current : Dirs \cup {NoDir}, last : 0..MaxInodes, archive : [Names -> Dirs \cup {NoDir}]]
Env == [creds : BOOLEAN, spec : {"open", "archived"}, idea : SUBSET Notes, archived : SUBSET Notes]

\* What a process is doing fits the command it runs.
ProcessOK(c) ==
    /\ c.pc = "idle" => c = Idle
    /\ c.op = "archive" <=> c.pc \in Archiving
    /\ c.op \in Locked <=> c.pc \in Locking
    /\ c.op = "new" <=> c.pc \in Creating
    /\ c.op = "resume" <=> c.pc = "promotes"
    /\ c.pc \in Archiving \cup Locking \cup {"demoting", "promotes"} => c.id \in DOMAIN cycles
    /\ c.pc \in {"demotes", "demoting", "inserts"} => c.number \in Ids
    /\ c.done <= MaxDay + 1
    /\ c.others \subseteq DOMAIN cycles

TypeInv ==
    /\ cycles \in Rows /\ Len(cycles) \in Ids
    /\ intents \subseteq (Ids \X Names \X (1..MaxInodes))
    /\ lease \in Procs \cup {NoProc}
    /\ files \in Files /\ env \in Env
    /\ procs \in [Procs -> Process]
    /\ day \in Days
    /\ \A p \in Procs : ProcessOK(procs[p])
    /\ history \in [commands : Nat, deaths : Nat, crossed : BOOLEAN, raced : BOOLEAN,
                    late : SUBSET Ids, sealed : SUBSET Ids]

\* Who archives has the lease.
LeaseInv == \A p \in Procs : procs[p].pc \in Leased => lease = p

\* A directory that is about to be moved is there and its destination is not;
\* then the intent is recorded.
MoveInv ==
    \A p \in Procs :
        /\ procs[p].pc \in {"records", "moves"} =>
             files.current # NoDir /\ files.archive[procs[p].dest] = NoDir
        /\ procs[p].pc = "moves" => <<procs[p].id, procs[p].dest, files.current.ino>> \in intents

\* Once the directory was moved, evidence of the cycle in the new one is late.
SealInv ==
    \A p \in Procs :
        procs[p].pc \in {"recreates", "finalizes"} /\ Claimed(p) /\ procs[p].id \in files.current.has
        => procs[p].id \in history.late

\* Notes that are in the archive alone are those the archive has planned.
IdeaInv ==
    history.deaths = 0 /\ history.sealed = {} =>
      \/ env.archived \subseteq env.idea
      \/ \E p \in Procs : procs[p].pc \in Taking /\ env.archived \ env.idea \subseteq procs[p].plan

\* A command that changes the active cycle knows the one it demotes.
ActiveInv ==
    ~history.raced =>
      /\ \A p, q \in Procs : procs[p].op \in Switching /\ procs[q].op \in Switching => p = q
      /\ \A c, d \in With("active") : c = d
      /\ \A p \in Procs :
           /\ procs[p].pc = "demoting" => With("active") \subseteq {procs[p].id}
           /\ procs[p].pc = "inserts" => With("active") = {}
           /\ procs[p].pc = "promotes" => With("active") \subseteq procs[p].others \cup {procs[p].id}

\* A command that holds the lock is alone with it, and nobody has read it as
\* free since.
LockInv ==
    ~history.crossed =>
      \A p \in Procs :
        /\ procs[p].pc \in {"applies", "releases", "unlocks"} =>
             cycles[procs[p].id].holder = <<"cli", p>>
        /\ procs[p].pc = "locks" =>
             \A q \in Procs \ {p} :
               /\ procs[q].pc # "locks"
               /\ procs[q].pc \in {"applies", "releases", "unlocks"} => procs[q].id # procs[p].id

\* The inductive invariant.
IInv ==
    /\ TypeInv
    /\ LeaseInv
    /\ MovesAreRecorded
    /\ MoveInv
    /\ SealInv
    /\ IdeaInv
    /\ ActiveInv
    /\ LockInv
-----------------------------------------------------------------------------
LEMMA Bounds ==
    /\ MaxCycles \in Nat /\ Ids \subseteq Nat /\ 1 \in Ids /\ Statuses = {"active", "completed", "cancelled", "archived"}
    /\ None \notin Ids /\ MaxDay \in Nat
    /\ \A d \in Days : d \in Nat /\ d + 1 \in 0..(MaxDay + 1) /\ d + 1 # 0
  BY BoundsAssumption DEF Ids, Statuses, None, Days

\* A set of numbers up to a bound has a greatest one.
LEMMA Greatest ==
    ASSUME NEW n \in Nat, NEW S, S \subseteq 0..n, S # {}
    PROVE  \E m \in S : \A o \in S : o <= m
  <1> DEFINE R == {ss \in Nat \X Nat : ss[1] < ss[2]}
             T == {n - m : m \in S}
  <1>1. T \subseteq Nat /\ T # {}
    <2>1. \A m \in S : n - m \in Nat
      OBVIOUS
    <2> QED
      BY <2>1
  <1>2. IsWellFoundedOn(R, Nat)
    BY NatLessThanWellFounded DEF OpToRel
  <1>3. PICK t \in T : \A o \in T : ~(<<o, t>> \in R)
    <2> HIDE DEF R, T
    <2> QED
      BY <1>1, <1>2, WFMin
  <1>4. PICK m \in S : t = n - m
    OBVIOUS
  <1>5. ASSUME NEW o \in S PROVE o <= m
    <2>1. n - o \in T /\ n - o \in Nat /\ t \in Nat
      BY <1>1
    <2>2. ~(n - o < t)
      BY <1>3, <2>1
    <2> QED
      BY <1>4, <2>2
  <1> QED
    BY <1>5

LEMMA RowsOf ==
    ASSUME TypeInv
    PROVE  /\ DOMAIN cycles = 1..Len(cycles) /\ Len(cycles) \in Nat /\ DOMAIN cycles \subseteq Ids /\ 1 \in DOMAIN cycles
           /\ \A c \in DOMAIN cycles :
                cycles[c] \in Row
  <1>1. Len(cycles) \in Nat /\ 1 <= Len(cycles) /\ Len(cycles) <= MaxCycles /\ MaxCycles \in Nat
    BY BoundsAssumption DEF TypeInv, Ids
  <1> QED
    BY <1>1, ElementOfSeq, LenProperties DEF TypeInv, Rows, Ids

\* The row of the highest number exists.
LEMMA LatestIn ==
    ASSUME TypeInv, NEW S, S \subseteq DOMAIN cycles, S # {}
    PROVE  Latest(S) \in S
  <1> DEFINE N == {cycles[c].number : c \in S}
  <1>1. N \subseteq 0..MaxCycles /\ N # {} /\ MaxCycles \in Nat
    BY RowsOf, BoundsAssumption DEF Ids, Row
  <1>2. PICK m \in N : \A o \in N : o <= m
    <2> HIDE DEF N
    <2> QED
      BY <1>1, Greatest
  <1>3. \E c \in S : \A o \in S : cycles[o].number <= cycles[c].number
    BY <1>2
  <1> QED
    BY <1>3 DEF Latest

LEMMA ActiveIn ==
    ASSUME TypeInv
    PROVE  /\ With("active") = {} => GetActiveCycle = None
           /\ With("active") # {} => GetActiveCycle \in With("active") /\ GetActiveCycle # None
           /\ \A status : With(status) \subseteq DOMAIN cycles
           /\ GetActiveCycle # None => GetActiveCycle \in DOMAIN cycles
  <1>1. \A status : With(status) \subseteq DOMAIN cycles
    BY DEF With
  <1>2. With("active") # {} => Latest(With("active")) \in With("active")
    BY <1>1, LatestIn
  <1>3. None \notin DOMAIN cycles
    BY RowsOf, Bounds
  <1> QED
    BY <1>1, <1>2, <1>3 DEF GetActiveCycle

\* Changing one row.
LEMMA RowChanges ==
    ASSUME TypeInv, NEW c \in DOMAIN cycles,
           NEW r \in Row
    PROVE  /\ [cycles EXCEPT ![c] = r] \in Rows
           /\ Len([cycles EXCEPT ![c] = r]) = Len(cycles)
           /\ DOMAIN [cycles EXCEPT ![c] = r] = DOMAIN cycles
  BY RowsOf DEF TypeInv, Rows

LEMMA StatusChanges ==
    ASSUME TypeInv, NEW c \in DOMAIN cycles, NEW status \in Statuses, NEW done \in 0..(MaxDay + 1),
           UpdateCycleStatus(c, status, done)
    PROVE  /\ cycles' \in Rows /\ Len(cycles') = Len(cycles) /\ DOMAIN cycles' = DOMAIN cycles
           /\ cycles'[c].status = status
           /\ \A o \in DOMAIN cycles \ {c} : cycles'[o] = cycles[o]
           /\ \A o \in DOMAIN cycles : cycles'[o].holder = cycles[o].holder
  <1> DEFINE r == [cycles[c] EXCEPT !.status = status, !.done = done]
  <1>1. r \in Row /\ r.holder = cycles[c].holder /\ r.status = status
    BY RowsOf DEF Row
  <1>2. cycles' = [cycles EXCEPT ![c] = r]
    BY RowsOf DEF UpdateCycleStatus
  <1> HIDE DEF r
  <1>3. /\ cycles' \in Rows /\ Len(cycles') = Len(cycles) /\ DOMAIN cycles' = DOMAIN cycles
    BY <1>1, <1>2, RowChanges
  <1>4. cycles'[c] = r /\ \A o \in DOMAIN cycles \ {c} : cycles'[o] = cycles[o]
    BY <1>2, RowsOf
  <1> QED
    BY <1>1, <1>3, <1>4

LEMMA LockChanges ==
    ASSUME TypeInv, NEW c \in DOMAIN cycles, NEW holder \in Holders, SetCycleLock(c, holder)
    PROVE  /\ cycles' \in Rows /\ Len(cycles') = Len(cycles) /\ DOMAIN cycles' = DOMAIN cycles
           /\ cycles'[c].holder = holder
           /\ \A o \in DOMAIN cycles \ {c} : cycles'[o] = cycles[o]
           /\ \A o \in DOMAIN cycles : cycles'[o].status = cycles[o].status
  <1> DEFINE r == [cycles[c] EXCEPT !.holder = holder]
  <1>1. /\ r \in Row
        /\ r.holder = holder /\ r.status = cycles[c].status
    BY RowsOf DEF Row
  <1>2. cycles' = [cycles EXCEPT ![c] = r]
    BY RowsOf DEF SetCycleLock
  <1> HIDE DEF r
  <1>3. /\ cycles' \in Rows /\ Len(cycles') = Len(cycles) /\ DOMAIN cycles' = DOMAIN cycles
    BY <1>1, <1>2, RowChanges
  <1>4. cycles'[c] = r /\ \A o \in DOMAIN cycles \ {c} : cycles'[o] = cycles[o]
    BY <1>2, RowsOf
  <1> QED
    BY <1>1, <1>3, <1>4
-----------------------------------------------------------------------------
(* What processes do.                                                      *)

LEMMA ProcessGrows ==
    ASSUME NEW c \in Process, ProcessOK(c), DOMAIN cycles \subseteq DOMAIN cycles'
    PROVE  ProcessOK(c)'
  BY DEF ProcessOK

LEMMA ProcessAt ==
    ASSUME TypeInv, NEW p \in Procs
    PROVE  procs[p] \in Process /\ ProcessOK(procs[p])
  BY DEF TypeInv

LEMMA ProcessChanges ==
    ASSUME TypeInv, NEW p \in Procs, NEW d \in Process, ProcessOK(d),
           procs' = [procs EXCEPT ![p] = d], DOMAIN cycles \subseteq DOMAIN cycles'
    PROVE  /\ procs' \in [Procs -> Process] /\ \A q \in Procs : ProcessOK(procs[q])'
           /\ procs'[p] = d /\ \A q \in Procs \ {p} : procs'[q] = procs[q]
  <1>1. /\ procs' \in [Procs -> Process] /\ procs'[p] = d
        /\ \A q \in Procs \ {p} : procs'[q] = procs[q]
    BY DEF TypeInv
  <1>2. ProcessOK(d)'
    BY ProcessGrows
  <1>3. ASSUME NEW q \in Procs PROVE ProcessOK(procs[q])'
    <2>1. CASE q = p
      BY <1>1, <1>2, <2>1 DEF ProcessOK
    <2>2. CASE q # p
      <3>1. ProcessOK(procs[q]) /\ procs[q] \in Process /\ procs'[q] = procs[q]
        BY <1>1, <2>2, ProcessAt
      <3> QED
        BY <3>1, ProcessGrows DEF ProcessOK
    <2> QED
      BY <2>1, <2>2
  <1> QED
    BY <1>1, <1>3

\* A process is at another step of its command.
Moves(p, d) ==
    /\ procs' \in [Procs -> Process] /\ \A q \in Procs : ProcessOK(procs[q])'
    /\ procs'[p] = d /\ \A q \in Procs \ {p} : procs'[q] = procs[q]

LEMMA ToMoves ==
    ASSUME TypeInv, NEW p \in Procs, NEW x \in Steps, To(p, x), DOMAIN cycles \subseteq DOMAIN cycles',
           ProcessOK([procs[p] EXCEPT !.pc = x])
    PROVE  Moves(p, [procs[p] EXCEPT !.pc = x])
  <1>1. PICK d : d = [procs[p] EXCEPT !.pc = x]
    OBVIOUS
  <1>2. d \in Process
    BY <1>1, ProcessAt DEF Process
  <1>3. procs' = [procs EXCEPT ![p] = d]
    BY <1>1 DEF To, TypeInv
  <1>4. Moves(p, d)
    BY <1>1, <1>2, <1>3, ProcessChanges DEF Moves
  <1> QED
    BY <1>1, <1>4

LEMMA IdleMoves ==
    ASSUME TypeInv, NEW p \in Procs, Return(p), DOMAIN cycles \subseteq DOMAIN cycles'
    PROVE  Moves(p, Idle)
  <1>1. Idle \in Process
    BY Bounds DEF Idle, Process, Steps, Names, Ids, Days, None
  <1>2. ProcessOK(Idle)
    BY Bounds DEF Idle, ProcessOK, Archiving, Leased, Locking, Creating, Locked, None
  <1> QED
    BY <1>1, <1>2, ProcessChanges DEF Return, Moves

\* A step of an archive, or of a command under the lock, is followed by others
\* of the same command.
LEMMA NextStep ==
    ASSUME TypeInv, NEW p \in Procs, NEW x \in Steps,
           \/ procs[p].pc \in Archiving /\ x \in Archiving
           \/ procs[p].pc \in Locking /\ x \in Locking
    PROVE  ProcessOK([procs[p] EXCEPT !.pc = x])
  BY ProcessAt DEF ProcessOK, Process, Archiving, Leased, Locking, Creating, Locked

LEMMA StartTo ==
    ASSUME TypeInv, NEW p \in Procs, NEW d \in Process, ProcessOK(d), Start(p, d),
           UNCHANGED <<cycles, intents, lease, files, env, day>>
    PROVE  /\ TypeInv' /\ Moves(p, d) /\ procs[p].pc = "idle"
           /\ history'.late = history.late /\ history'.sealed = history.sealed /\ history'.deaths = history.deaths
           /\ history'.crossed = (history.crossed \/ (d.op \in Locked /\ Overlaps(p, Locked, {"locks"})))
           /\ history'.raced = (history.raced \/ (d.op \in Switching /\ Overlaps(p, Switching, Steps)))
  <1>1. Moves(p, d)
    BY ProcessChanges DEF Start, Moves
  <1>2. history' = [history EXCEPT !.commands = @ + 1,
            !.crossed = @ \/ (d.op \in Locked /\ Overlaps(p, Locked, {"locks"})),
            !.raced = @ \/ (d.op \in Switching /\ Overlaps(p, Switching, Steps))]
    BY DEF Start
  <1>3. /\ history'.late = history.late /\ history'.sealed = history.sealed /\ history'.deaths = history.deaths
        /\ history'.crossed = (history.crossed \/ (d.op \in Locked /\ Overlaps(p, Locked, {"locks"})))
        /\ history'.raced = (history.raced \/ (d.op \in Switching /\ Overlaps(p, Switching, Steps)))
        /\ history' \in [commands : Nat, deaths : Nat, crossed : BOOLEAN, raced : BOOLEAN,
                         late : SUBSET Ids, sealed : SUBSET Ids]
    <2>1. PICK a \in BOOLEAN : a = (history.crossed \/ (d.op \in Locked /\ Overlaps(p, Locked, {"locks"})))
      BY DEF Overlaps
    <2>2. PICK b \in BOOLEAN : b = (history.raced \/ (d.op \in Switching /\ Overlaps(p, Switching, Steps)))
      BY DEF Overlaps
    <2>3. PICK n \in Nat : n = history.commands + 1
      BY DEF TypeInv
    <2>4. history' = [history EXCEPT !.commands = n, !.crossed = a, !.raced = b]
      BY <1>2, <2>1, <2>2, <2>3, Zenon
    <2>5. /\ history'.late = history.late /\ history'.sealed = history.sealed /\ history'.deaths = history.deaths
          /\ history'.crossed = a /\ history'.raced = b
          /\ history' \in [commands : Nat, deaths : Nat, crossed : BOOLEAN, raced : BOOLEAN,
                           late : SUBSET Ids, sealed : SUBSET Ids]
      <3>1. history \in [commands : Nat, deaths : Nat, crossed : BOOLEAN, raced : BOOLEAN,
                         late : SUBSET Ids, sealed : SUBSET Ids]
        BY DEF TypeInv
      <3> QED
        BY <2>1, <2>2, <2>4, <3>1
    <2> QED
      BY <2>1, <2>2, <2>5
  <1> QED
    BY <1>1, <1>3 DEF TypeInv, Moves, Start, At

LEMMA IdleOK ==
    /\ Idle \in Process /\ ProcessOK(Idle) /\ Idle.pc = "idle" /\ Idle.id = None /\ Idle.done = 0
    /\ Idle.op = "none" /\ Idle.others = {}
  <1>1. Idle \in Process
    BY Bounds DEF Idle, Process, Steps, Names, Ids, Days, None
  <1>2. ProcessOK(Idle)
    BY Bounds DEF Idle, ProcessOK, Archiving, Leased, Locking, Creating, Locked, None
  <1> QED
    BY <1>1, <1>2 DEF Idle, None

\* Where a process is after a step of its own.
At2(p, pc, next) == procs[p].pc = pc /\ Moves(p, [procs[p] EXCEPT !.pc = next])

LEMMA SameCommand ==
    ASSUME TypeInv, NEW p \in Procs, NEW x \in Steps, To(p, x), DOMAIN cycles \subseteq DOMAIN cycles',
           \/ procs[p].pc \in Archiving /\ x \in Archiving
           \/ procs[p].pc \in Locking /\ x \in Locking
    PROVE  Moves(p, [procs[p] EXCEPT !.pc = x])
  BY NextStep, ToMoves

LEMMA ReadsTo ==
    ASSUME TypeInv, NEW p \in Procs, Reads(p)
    PROVE  /\ TypeInv' /\ UNCHANGED <<cycles, intents, lease, files, env, day>>
           /\ \E d \in Process :
                /\ Moves(p, d) /\ procs[p].pc = "idle"
                /\ d.op \in Locked /\ d.pc = "locks" /\ d.id \in DOMAIN cycles /\ cycles[d.id].holder = Free
           /\ history'.late = history.late /\ history'.sealed = history.sealed /\ history'.deaths = history.deaths
           /\ history'.crossed = (history.crossed \/ Overlaps(p, Locked, {"locks"}))
           /\ history'.raced = history.raced
  <1>1. PICK op \in Locked : Start(p, [Idle EXCEPT !.op = op, !.pc = "locks", !.id = GetActiveCycle])
    BY DEF Reads
  <1>2. PICK d : d = [Idle EXCEPT !.op = op, !.pc = "locks", !.id = GetActiveCycle]
    OBVIOUS
  <1>3. GetActiveCycle \in DOMAIN cycles /\ cycles[GetActiveCycle].holder = Free /\ GetActiveCycle \in Nat
    BY ActiveIn, RowsOf, Bounds DEF Reads
  <1>4. d \in Process /\ d.op = op /\ d.pc = "locks" /\ d.id = GetActiveCycle
    <2>1. PICK i \in Process : i = Idle
      BY IdleOK
    <2>2. d = [i EXCEPT !.op = op, !.pc = "locks", !.id = GetActiveCycle]
      BY <1>2, <2>1
    <2> QED
      BY <1>3, <2>2 DEF Process, Steps, Locked
  <1>5. ProcessOK(d)
    BY <1>2, <1>3, <1>4, Bounds DEF Idle, ProcessOK, Archiving, Leased, Locking, Creating, Locked, None
  <1>6. op \notin Switching
    BY DEF Locked, Switching
  <1>7. Start(p, d) /\ UNCHANGED <<cycles, intents, lease, files, env, day>>
    BY <1>1, <1>2 DEF Reads
  <1>8. /\ TypeInv' /\ Moves(p, d) /\ procs[p].pc = "idle"
        /\ history'.late = history.late /\ history'.sealed = history.sealed /\ history'.deaths = history.deaths
        /\ history'.crossed = (history.crossed \/ (d.op \in Locked /\ Overlaps(p, Locked, {"locks"})))
        /\ history'.raced = (history.raced \/ (d.op \in Switching /\ Overlaps(p, Switching, Steps)))
    BY <1>4, <1>5, <1>7, StartTo
  <1>9. history.raced \in BOOLEAN
    BY DEF TypeInv
  <1> QED
    BY <1>1, <1>3, <1>4, <1>6, <1>7, <1>8, <1>9

LEMMA LocksTo ==
    ASSUME TypeInv, NEW p \in Procs, Locks(p)
    PROVE  /\ TypeInv' /\ UNCHANGED <<intents, lease, files, env, day, history>>
           /\ At2(p, "locks", "applies") /\ procs[p].id \in DOMAIN cycles
           /\ cycles'[procs[p].id].holder = <<"cli", p>> /\ DOMAIN cycles' = DOMAIN cycles
           /\ \A o \in DOMAIN cycles \ {procs[p].id} : cycles'[o] = cycles[o]
           /\ \A o \in DOMAIN cycles : cycles'[o].status = cycles[o].status
  <1>1. procs[p].id \in DOMAIN cycles
    BY ProcessAt DEF Locks, At, ProcessOK, Locking
  <1>2. <<"cli", p>> \in Holders
    BY DEF Holders
  <1>3. /\ cycles' \in Rows /\ Len(cycles') = Len(cycles) /\ DOMAIN cycles' = DOMAIN cycles
        /\ cycles'[procs[p].id].holder = <<"cli", p>>
        /\ \A o \in DOMAIN cycles \ {procs[p].id} : cycles'[o] = cycles[o]
        /\ \A o \in DOMAIN cycles : cycles'[o].status = cycles[o].status
    BY <1>1, <1>2, LockChanges DEF Locks
  <1>4. At2(p, "locks", "applies")
    BY <1>3, SameCommand DEF Locks, At, At2, Locking, Steps
  <1> QED
    BY <1>1, <1>3, <1>4 DEF Locks, At2, Moves, TypeInv

LEMMA AppliesTo ==
    ASSUME TypeInv, NEW p \in Procs, Applies(p)
    PROVE  /\ TypeInv' /\ UNCHANGED <<intents, lease, files, env, day, history>>
           /\ At2(p, "applies", "releases") /\ DOMAIN cycles' = DOMAIN cycles
           /\ \A o \in DOMAIN cycles : /\ cycles'[o].holder = cycles[o].holder
                                       /\ cycles'[o].status = "active" => cycles[o].status = "active"
  <1>1. procs[p].id \in DOMAIN cycles
    BY ProcessAt DEF Applies, At, ProcessOK, Locking
  <1>2. Now \in 0..(MaxDay + 1)
    BY Bounds DEF Now, TypeInv
  <1>3. /\ cycles' \in Rows /\ Len(cycles') = Len(cycles) /\ DOMAIN cycles' = DOMAIN cycles
        /\ \A o \in DOMAIN cycles : /\ cycles'[o].holder = cycles[o].holder
                                    /\ cycles'[o].status = "active" => cycles[o].status = "active"
    <2>1. ASSUME NEW status \in {"completed", "cancelled"}, UpdateCycleStatus(procs[p].id, status, Now)
          PROVE  /\ cycles' \in Rows /\ Len(cycles') = Len(cycles) /\ DOMAIN cycles' = DOMAIN cycles
                 /\ \A o \in DOMAIN cycles : /\ cycles'[o].holder = cycles[o].holder
                                             /\ cycles'[o].status = "active" => cycles[o].status = "active"
      <3>1. status \in Statuses
        BY DEF Statuses
      <3>2. /\ cycles' \in Rows /\ Len(cycles') = Len(cycles) /\ DOMAIN cycles' = DOMAIN cycles
            /\ cycles'[procs[p].id].status = status
            /\ \A o \in DOMAIN cycles \ {procs[p].id} : cycles'[o] = cycles[o]
            /\ \A o \in DOMAIN cycles : cycles'[o].holder = cycles[o].holder
        <4>1. PICK now \in 0..(MaxDay + 1) : now = Now
          BY <1>2
        <4>2. UpdateCycleStatus(procs[p].id, status, now)
          BY <2>1, <4>1
        <4> QED
          BY <1>1, <3>1, <4>2, StatusChanges
      <3> QED
        BY <3>2
    <2>2. CASE UNCHANGED cycles
      BY <2>2 DEF TypeInv
    <2> QED
      BY <2>1, <2>2 DEF Applies
  <1>4. At2(p, "applies", "releases")
    BY <1>3, SameCommand DEF Applies, At, At2, Locking, Steps
  <1> QED
    BY <1>3, <1>4 DEF Applies, At2, Moves, TypeInv

LEMMA ReadsLockTo ==
    ASSUME TypeInv, NEW p \in Procs, ReadsLock(p)
    PROVE  /\ TypeInv' /\ UNCHANGED <<cycles, intents, lease, files, env, day, history>>
           /\ procs[p].pc = "releases"
           /\ Moves(p, Idle) \/ At2(p, "releases", "unlocks")
  <1>1. Moves(p, Idle) \/ At2(p, "releases", "unlocks")
    BY SameCommand, IdleMoves DEF ReadsLock, At, At2, Locking, Steps
  <1> QED
    BY <1>1 DEF ReadsLock, At, At2, Moves, TypeInv

LEMMA UnlocksTo ==
    ASSUME TypeInv, NEW p \in Procs, Unlocks(p)
    PROVE  /\ TypeInv' /\ UNCHANGED <<intents, lease, files, env, day, history>>
           /\ procs[p].pc = "unlocks" /\ Moves(p, Idle) /\ procs[p].id \in DOMAIN cycles
           /\ cycles'[procs[p].id].holder = Free /\ DOMAIN cycles' = DOMAIN cycles
           /\ \A o \in DOMAIN cycles \ {procs[p].id} : cycles'[o] = cycles[o]
           /\ \A o \in DOMAIN cycles : cycles'[o].status = cycles[o].status
  <1>1. procs[p].id \in DOMAIN cycles
    BY ProcessAt DEF Unlocks, At, ProcessOK, Locking
  <1>2. Free \in Holders
    BY DEF Holders
  <1>3. /\ cycles' \in Rows /\ Len(cycles') = Len(cycles) /\ DOMAIN cycles' = DOMAIN cycles
        /\ cycles'[procs[p].id].holder = Free
        /\ \A o \in DOMAIN cycles \ {procs[p].id} : cycles'[o] = cycles[o]
        /\ \A o \in DOMAIN cycles : cycles'[o].status = cycles[o].status
    BY <1>1, <1>2, LockChanges DEF Unlocks
  <1>4. Moves(p, Idle)
    BY <1>3, IdleMoves DEF Unlocks
  <1> QED
    BY <1>1, <1>3, <1>4 DEF Unlocks, At, Moves, TypeInv

\* What creating the directory and writing to it does to the files.
FilesGrow(x) ==
    /\ files' \in Files /\ files'.archive = files.archive
    /\ files.current # NoDir => files'.current # NoDir /\ files'.current.ino = files.current.ino
    /\ files'.current.has \subseteq files.current.has \cup x
    /\ files.current.has \subseteq files'.current.has

LEMMA MkdirOK ==
    ASSUME TypeInv, Mkdir.last <= MaxInodes
    PROVE  /\ Mkdir \in Files /\ Mkdir.current # NoDir /\ Mkdir.archive = files.archive
           /\ files.current # NoDir => Mkdir.current = files.current
           /\ files.current = NoDir => Mkdir.current.has = {}
           /\ files.current.has = Mkdir.current.has
  <1>1. PICK f \in Files : f = files
    BY DEF TypeInv
  <1>2. \A e \in Dirs : e # NoDir
    BY DEF Dirs, NoDir
  <1>3. CASE f.current # NoDir
    BY <1>1, <1>2, <1>3 DEF Mkdir, Files
  <1>4. CASE f.current = NoDir
    <2> DEFINE e == [ino |-> f.last + 1, has |-> {}]
    <2>1. Mkdir = [f EXCEPT !.current = e, !.last = f.last + 1]
      BY <1>1, <1>4 DEF Mkdir
    <2>2. f.last \in 0..MaxInodes /\ MaxInodes \in Nat
      BY BoundsAssumption DEF Files
    <2>3. Mkdir.last = f.last + 1
      BY <2>1 DEF Files
    <2>4. e \in Dirs /\ f.last + 1 \in 0..MaxInodes
      BY <2>2, <2>3 DEF Dirs
    <2>5. Mkdir.current = e /\ Mkdir.archive = f.archive
      BY <2>1 DEF Files
    <2>6. e.has = {} /\ NoDir.has = {}
      BY DEF NoDir
    <2> HIDE DEF e
    <2>7. Mkdir \in Files
      BY <2>1, <2>4 DEF Files
    <2> QED
      BY <1>1, <1>2, <1>4, <2>4, <2>5, <2>6, <2>7
  <1> QED
    BY <1>3, <1>4

LEMMA WritesOK ==
    ASSUME NEW fs \in Files, fs.current # NoDir, NEW x \in Ids \cup {Config}
    PROVE  /\ Writes(fs, x) \in Files /\ Writes(fs, x).archive = fs.archive
           /\ Writes(fs, x).current.ino = fs.current.ino /\ Writes(fs, x).current # NoDir
           /\ Writes(fs, x).current.has = fs.current.has \cup {x}
  <1>1. fs.current \in Dirs
    BY DEF Files
  <1>2. PICK e \in Dirs : e = [fs.current EXCEPT !.has = fs.current.has \cup {x}]
    BY <1>1 DEF Dirs
  <1>3. e # NoDir /\ e.ino = fs.current.ino /\ e.has = fs.current.has \cup {x}
    BY <1>1, <1>2 DEF Dirs, NoDir
  <1>4. Writes(fs, x) = [fs EXCEPT !.current = e]
    BY <1>2 DEF Writes, Files
  <1> QED
    BY <1>1, <1>2, <1>3, <1>4 DEF Files

LEMMA StartsNewTo ==
    ASSUME TypeInv, NEW p \in Procs, StartsNew(p)
    PROVE  /\ TypeInv' /\ UNCHANGED <<cycles, intents, lease, files, env, day>>
           /\ \E d \in Process : Moves(p, d) /\ procs[p].pc = "idle" /\ d.op = "new" /\ d.pc = "prepares"
           /\ history'.late = history.late /\ history'.sealed = history.sealed /\ history'.deaths = history.deaths
           /\ history'.crossed = history.crossed
           /\ history'.raced = (history.raced \/ Overlaps(p, Switching, Steps))
  <1>1. PICK d : d = [Idle EXCEPT !.op = "new", !.pc = "prepares"]
    OBVIOUS
  <1>2. d \in Process /\ d.op = "new" /\ d.pc = "prepares" /\ d.done = 0 /\ d.others = {}
    <2>1. PICK i \in Process : i = Idle
      BY IdleOK
    <2>2. d = [i EXCEPT !.op = "new", !.pc = "prepares"]
      BY <1>1, <2>1
    <2> QED
      BY <2>1, <2>2, IdleOK DEF Process, Steps
  <1>3. ProcessOK(d)
    BY <1>2, Bounds DEF ProcessOK, Archiving, Leased, Locking, Creating, Locked, None
  <1>4. Start(p, d) /\ UNCHANGED <<cycles, intents, lease, files, env, day>>
    BY <1>1 DEF StartsNew
  <1>5. /\ TypeInv' /\ Moves(p, d) /\ procs[p].pc = "idle"
        /\ history'.late = history.late /\ history'.sealed = history.sealed /\ history'.deaths = history.deaths
        /\ history'.crossed = (history.crossed \/ (d.op \in Locked /\ Overlaps(p, Locked, {"locks"})))
        /\ history'.raced = (history.raced \/ (d.op \in Switching /\ Overlaps(p, Switching, Steps)))
    BY <1>2, <1>3, <1>4, StartTo
  <1>6. history.crossed \in BOOLEAN /\ d.op \notin Locked /\ d.op \in Switching
    BY <1>2 DEF TypeInv, Locked, Switching
  <1> QED
    BY <1>2, <1>4, <1>5, <1>6

\* A command that creates or resumes a cycle goes on.
LEMMA CreatingStep ==
    ASSUME TypeInv, NEW p \in Procs, NEW x \in Creating, procs[p].pc \in Creating, NEW number \in Nat,
           NEW id \in DOMAIN cycles \cup {None},
           procs' = [procs EXCEPT ![p] = [procs[p] EXCEPT !.pc = x, !.number = number, !.id = id]],
           DOMAIN cycles \subseteq DOMAIN cycles',
           x = "demoting" => id \in DOMAIN cycles,
           x \in {"demotes", "demoting", "inserts"} => number \in Ids
    PROVE  /\ procs'[p].pc = x /\ procs'[p].op = "new" /\ procs'[p].id = id /\ procs'[p].number = number
           /\ Moves(p, procs'[p])
  <1>1. PICK c \in Process : c = procs[p]
    BY ProcessAt
  <1>2. PICK d : d = [c EXCEPT !.pc = x, !.number = number, !.id = id]
    OBVIOUS
  <1>3. id \in Nat /\ x \in Steps
    BY RowsOf, Bounds DEF None, Creating, Steps
  <1>4. d \in Process /\ d.pc = x /\ d.number = number /\ d.id = id /\ d.op = c.op /\ d.done = c.done /\ d.others = c.others
    BY <1>2, <1>3 DEF Process
  <1>5. ProcessOK(c)
    BY <1>1, ProcessAt
  <1>6. ProcessOK(d) /\ d.op = "new"
    BY <1>1, <1>4, <1>5 DEF ProcessOK, Archiving, Leased, Locking, Creating, Locked
  <1>7. procs' = [procs EXCEPT ![p] = d]
    BY <1>1, <1>2
  <1>8. Moves(p, d) /\ procs'[p] = d
    BY <1>4, <1>6, <1>7, ProcessChanges DEF Moves
  <1> QED
    BY <1>4, <1>6, <1>8

LEMMA PreparesTo ==
    ASSUME TypeInv, NEW p \in Procs, Prepares(p)
    PROVE  /\ TypeInv' /\ UNCHANGED <<cycles, intents, lease, env, day, history>>
           /\ procs[p].pc = "prepares" /\ Moves(p, procs'[p]) /\ procs'[p].op = "new" /\ procs'[p].pc = "numbers"
           /\ FilesGrow({Config})
  <1>1. Mkdir.last <= MaxInodes /\ files' = Writes(Mkdir, Config)
    BY DEF Prepares
  <1>2. PICK m \in Files : m = Mkdir
    BY <1>1, MkdirOK
  <1>3. /\ m.current # NoDir /\ m.archive = files.archive
        /\ files.current # NoDir => m.current = files.current
        /\ files.current.has = m.current.has
    BY <1>1, <1>2, MkdirOK
  <1>4. /\ files' \in Files /\ files'.archive = m.archive
        /\ files'.current.ino = m.current.ino /\ files'.current # NoDir
        /\ files'.current.has = m.current.has \cup {Config}
    BY <1>1, <1>2, <1>3, WritesOK
  <1>5. FilesGrow({Config})
    BY <1>3, <1>4 DEF FilesGrow
  <1>6. /\ procs[p].pc = "prepares" /\ Moves(p, procs'[p]) /\ procs'[p].op = "new" /\ procs'[p].pc = "numbers"
    <2>1. procs[p].pc = "prepares" /\ To(p, "numbers") /\ UNCHANGED cycles
      BY DEF Prepares, At
    <2>2. ProcessOK([procs[p] EXCEPT !.pc = "numbers"])
      BY <2>1, ProcessAt DEF ProcessOK, Process, Archiving, Leased, Locking, Creating, Locked
    <2>3. Moves(p, [procs[p] EXCEPT !.pc = "numbers"])
      BY <2>1, <2>2, ToMoves DEF Steps
    <2> QED
      BY <2>1, <2>3, ProcessAt DEF Moves, Process, ProcessOK, Creating
  <1> QED
    BY <1>4, <1>5, <1>6 DEF Prepares, Moves, TypeInv

LEMMA NumbersTo ==
    ASSUME TypeInv, NEW p \in Procs, Numbers(p)
    PROVE  /\ TypeInv' /\ UNCHANGED <<cycles, intents, lease, files, env, day, history>>
           /\ procs[p].pc = "numbers" /\ Moves(p, procs'[p]) /\ procs'[p].op = "new" /\ procs'[p].pc = "demotes"
  <1> DEFINE N == {cycles[c].number : c \in DOMAIN cycles}
  <1>1. N \subseteq 0..MaxCycles /\ N # {} /\ MaxCycles \in Nat
    BY RowsOf, BoundsAssumption DEF Ids, Row
  <1>2. Max(N) \in N
    <2>1. \E m \in N : \A o \in N : o <= m
      <3> HIDE DEF N
      <3> QED
        BY <1>1, Greatest
    <2> QED
      BY <2>1 DEF Max
  <1>3. PICK next : next = Max(N) + 1
    OBVIOUS
  <1>4. /\ procs[p].pc = "numbers" /\ next <= MaxCycles /\ UNCHANGED cycles
        /\ procs' = [procs EXCEPT ![p].pc = "demotes", ![p].number = next]
    BY <1>3 DEF Numbers, At
  <1>5. next \in Ids
    BY <1>1, <1>2, <1>3, <1>4 DEF Ids
  <1>6. PICK c \in Process : c = procs[p]
    BY ProcessAt
  <1>7. PICK d : d = [c EXCEPT !.pc = "demotes", !.number = next]
    OBVIOUS
  <1>8. next \in Nat
    BY <1>5, Bounds
  <1>9. d \in Process /\ d.pc = "demotes" /\ d.number = next /\ d.op = c.op /\ d.done = c.done /\ d.others = c.others
    BY <1>7, <1>8 DEF Process, Steps
  <1>10. ProcessOK(d) /\ d.op = "new"
    BY <1>4, <1>5, <1>6, <1>9, ProcessAt DEF ProcessOK, Archiving, Leased, Locking, Creating, Locked
  <1>11. procs' = [procs EXCEPT ![p] = d]
    BY <1>4, <1>6, <1>7 DEF TypeInv
  <1>12. Moves(p, d) /\ procs'[p] = d
    BY <1>4, <1>9, <1>10, <1>11, ProcessChanges DEF Moves
  <1> QED
    BY <1>4, <1>9, <1>10, <1>12 DEF Numbers, Moves, TypeInv

LEMMA ReadsPreviousTo ==
    ASSUME TypeInv, NEW p \in Procs, ReadsPrevious(p)
    PROVE  /\ TypeInv' /\ UNCHANGED <<cycles, intents, lease, files, env, day, history>>
           /\ procs[p].pc = "demotes" /\ Moves(p, procs'[p]) /\ procs'[p].op = "new"
           /\ procs'[p].id = GetActiveCycle
           /\ procs'[p].pc = IF GetActiveCycle = None THEN "inserts" ELSE "demoting"
  <1>1. PICK x \in {"inserts", "demoting"} : x = IF GetActiveCycle = None THEN "inserts" ELSE "demoting"
    OBVIOUS
  <1>2. PICK id \in DOMAIN cycles \cup {None} : id = GetActiveCycle
    BY ActiveIn DEF None, GetActiveCycle
  <1>3. PICK c \in Process : c = procs[p]
    BY ProcessAt
  <1>4. c.pc = "demotes" /\ c.number \in Ids /\ UNCHANGED cycles /\ procs' = [procs EXCEPT ![p].id = id, ![p].pc = x]
    BY <1>1, <1>2, <1>3, ProcessAt DEF ReadsPrevious, At, ProcessOK
  <1>5. procs' = [procs EXCEPT ![p] = [c EXCEPT !.pc = x, !.number = c.number, !.id = id]]
    BY <1>3, <1>4 DEF TypeInv, Process
  <1>6. x = "demoting" => id \in DOMAIN cycles
    BY <1>1, <1>2, ActiveIn
  <1>7. x \in Creating /\ c.pc \in Creating /\ c.number \in Nat
    BY <1>4, Bounds DEF Creating
  <1>8. /\ procs'[p].pc = x /\ procs'[p].op = "new" /\ procs'[p].id = id /\ Moves(p, procs'[p])
    <2>1. PICK n \in Ids : n = c.number
      BY <1>4
    <2>2. procs' = [procs EXCEPT ![p] = [procs[p] EXCEPT !.pc = x, !.number = n, !.id = id]]
      BY <1>3, <1>5, <2>1
    <2>3. n \in Nat /\ procs[p].pc \in Creating /\ DOMAIN cycles \subseteq DOMAIN cycles'
      BY <1>3, <1>4, <1>7, <2>1
    <2> QED
      BY <1>6, <1>7, <2>2, <2>3, CreatingStep
  <1> QED
    BY <1>1, <1>2, <1>3, <1>4, <1>8 DEF ReadsPrevious, Moves, TypeInv

\* The active cycle is demoted.
LEMMA DemotesTo ==
    ASSUME TypeInv, NEW p \in Procs, Demotes(p)
    PROVE  /\ TypeInv' /\ UNCHANGED <<intents, lease, files, env, day, history>>
           /\ procs[p].pc = "demoting" /\ Moves(p, procs'[p]) /\ procs'[p].op = "new" /\ procs'[p].pc = "inserts"
           /\ DOMAIN cycles' = DOMAIN cycles /\ cycles'[procs[p].id].status = "archived"
           /\ \A o \in DOMAIN cycles \ {procs[p].id} : cycles'[o] = cycles[o]
           /\ \A o \in DOMAIN cycles : cycles'[o].holder = cycles[o].holder
  <1>1. PICK c \in Process : c = procs[p]
    BY ProcessAt
  <1>2. c.pc = "demoting" /\ c.id \in DOMAIN cycles /\ c.number \in Ids /\ To(p, "inserts")
    BY <1>1, ProcessAt DEF Demotes, At, ProcessOK
  <1>3. PICK now \in 0..(MaxDay + 1) : now = Now
    BY Bounds DEF Now, TypeInv
  <1>4. UpdateCycleStatus(c.id, "archived", now) /\ "archived" \in Statuses
    BY <1>1, <1>3 DEF Demotes, Statuses
  <1>5. /\ cycles' \in Rows /\ Len(cycles') = Len(cycles) /\ DOMAIN cycles' = DOMAIN cycles
        /\ cycles'[c.id].status = "archived"
        /\ \A o \in DOMAIN cycles \ {c.id} : cycles'[o] = cycles[o]
        /\ \A o \in DOMAIN cycles : cycles'[o].holder = cycles[o].holder
    BY <1>2, <1>4, StatusChanges
  <1>6. procs' = [procs EXCEPT ![p] = [c EXCEPT !.pc = "inserts", !.number = c.number, !.id = c.id]]
    BY <1>1, <1>2 DEF To, TypeInv, Process
  <1>7. /\ procs'[p].pc = "inserts" /\ procs'[p].op = "new" /\ Moves(p, procs'[p])
    <2>1. "inserts" \in Creating /\ c.pc \in Creating /\ c.number \in Nat
      BY <1>2, Bounds DEF Creating
    <2> QED
      BY <1>1, <1>2, <1>5, <1>6, <2>1, CreatingStep
  <1> QED
    BY <1>1, <1>2, <1>5, <1>7 DEF Demotes, Moves, TypeInv

LEMMA InsertsTo ==
    ASSUME TypeInv, NEW p \in Procs, Inserts(p)
    PROVE  /\ TypeInv' /\ UNCHANGED <<intents, lease, files, env, day, history>>
           /\ procs[p].pc = "inserts" /\ Moves(p, Idle)
           /\ DOMAIN cycles' = DOMAIN cycles \cup {Len(cycles) + 1} /\ Len(cycles) + 1 \notin DOMAIN cycles
           /\ \A o \in DOMAIN cycles : cycles'[o] = cycles[o]
           /\ cycles'[Len(cycles) + 1].holder = Free
  <1>1. PICK r : r = [number |-> procs[p].number, status |-> "active", done |-> None, holder |-> Free]
    OBVIOUS
  <1>2. procs[p].number \in Ids /\ procs[p].pc = "inserts"
    BY ProcessAt DEF Inserts, At, ProcessOK
  <1>3. r \in Row /\ r.holder = Free
    BY <1>1, <1>2, Bounds DEF Row, Statuses, Holders, None
  <1>4. cycles' = Append(cycles, r) /\ Len(cycles) < MaxCycles
    BY <1>1 DEF Inserts
  <1>5. cycles \in Seq(Row) /\ Len(cycles) \in Nat
    BY RowsOf DEF TypeInv, Rows
  <1>6. /\ cycles' \in Seq(Row) /\ Len(cycles') = Len(cycles) + 1 /\ DOMAIN cycles' = 1..(Len(cycles) + 1)
        /\ cycles'[Len(cycles) + 1] = r /\ \A o \in 1..Len(cycles) : cycles'[o] = cycles[o]
    BY <1>3, <1>4, <1>5, AppendProperties
  <1>7. Len(cycles') \in Ids
    BY <1>4, <1>5, <1>6, BoundsAssumption DEF Ids
  <1>8. DOMAIN cycles' = DOMAIN cycles \cup {Len(cycles) + 1} /\ Len(cycles) + 1 \notin DOMAIN cycles
    BY <1>5, <1>6, RowsOf
  <1>9. Moves(p, Idle)
    BY <1>8, IdleMoves DEF Inserts
  <1> QED
    BY <1>2, <1>3, <1>6, <1>7, <1>8, <1>9, RowsOf DEF Inserts, Moves, TypeInv, Rows

LEMMA StartsResumeTo ==
    ASSUME TypeInv, NEW p \in Procs, StartsResume(p)
    PROVE  /\ TypeInv' /\ UNCHANGED <<cycles, intents, lease, files, env, day>>
           /\ \E d \in Process : /\ Moves(p, d) /\ procs[p].pc = "idle" /\ d.op = "resume" /\ d.pc = "promotes"
                                 /\ With("active") \subseteq d.others \cup {d.id}
           /\ history'.late = history.late /\ history'.sealed = history.sealed /\ history'.deaths = history.deaths
           /\ history'.crossed = history.crossed
           /\ history'.raced = (history.raced \/ Overlaps(p, Switching, Steps))
  <1>1. PICK c \in ResumeTargets :
               Start(p, [Idle EXCEPT !.op = "resume", !.pc = "promotes", !.id = c, !.others = With("active") \ {c}])
    BY DEF StartsResume
  <1>2. c \in DOMAIN cycles
    <2> DEFINE ended == With("completed") \cup With("cancelled")
               open == DOMAIN cycles \ With("archived")
    <2>1. ended \subseteq DOMAIN cycles /\ open \subseteq DOMAIN cycles
      BY DEF With
    <2>2. c \in DOMAIN cycles \/ (ended # {} /\ c = Latest(ended)) \/ (open # {} /\ c = Latest(open))
      BY <1>1 DEF ResumeTargets
    <2> HIDE DEF ended, open
    <2> QED
      BY <2>1, <2>2, LatestIn
  <1>3. PICK S : S = With("active") \ {c}
    OBVIOUS
  <1>4. S \subseteq DOMAIN cycles /\ S \subseteq Ids /\ c \in Nat
    BY <1>2, <1>3, RowsOf, Bounds DEF With
  <1>5. PICK d : d = [Idle EXCEPT !.op = "resume", !.pc = "promotes", !.id = c, !.others = S]
    OBVIOUS
  <1>6. d \in Process /\ d.op = "resume" /\ d.pc = "promotes" /\ d.done = 0 /\ d.others = S /\ d.id = c
    <2>1. PICK i \in Process : i = Idle
      BY IdleOK
    <2>2. d = [i EXCEPT !.op = "resume", !.pc = "promotes", !.id = c, !.others = S]
      BY <1>5, <2>1
    <2> QED
      BY <1>4, <2>1, <2>2, IdleOK DEF Process, Steps
  <1>7. ProcessOK(d)
    BY <1>2, <1>4, <1>6, Bounds DEF ProcessOK, Archiving, Leased, Locking, Creating, Locked
  <1>8. Start(p, d) /\ UNCHANGED <<cycles, intents, lease, files, env, day>>
    BY <1>1, <1>3, <1>5 DEF StartsResume
  <1>9. /\ TypeInv' /\ Moves(p, d) /\ procs[p].pc = "idle"
        /\ history'.late = history.late /\ history'.sealed = history.sealed /\ history'.deaths = history.deaths
        /\ history'.crossed = (history.crossed \/ (d.op \in Locked /\ Overlaps(p, Locked, {"locks"})))
        /\ history'.raced = (history.raced \/ (d.op \in Switching /\ Overlaps(p, Switching, Steps)))
    BY <1>6, <1>7, <1>8, StartTo
  <1>10. history.crossed \in BOOLEAN /\ d.op \notin Locked /\ d.op \in Switching
    BY <1>6 DEF TypeInv, Locked, Switching
  <1>11. With("active") \subseteq d.others \cup {d.id}
    BY <1>3, <1>6
  <1> QED
    BY <1>6, <1>8, <1>9, <1>10, <1>11

LEMMA DemotesOtherTo ==
    ASSUME TypeInv, NEW p \in Procs, DemotesOther(p)
    PROVE  /\ TypeInv' /\ UNCHANGED <<intents, lease, files, env, day, history>>
           /\ procs[p].pc = "promotes" /\ Moves(p, procs'[p])
           /\ procs'[p].op = "resume" /\ procs'[p].pc = "promotes" /\ procs'[p].id = procs[p].id
           /\ DOMAIN cycles' = DOMAIN cycles
           /\ \E c \in procs[p].others :
                /\ procs'[p].others = procs[p].others \ {c} /\ cycles'[c].status = "archived"
                /\ \A o \in DOMAIN cycles \ {c} : cycles'[o] = cycles[o]
           /\ \A o \in DOMAIN cycles : cycles'[o].holder = cycles[o].holder
  <1>1. PICK k \in Process : k = procs[p]
    BY ProcessAt
  <1>2. PICK c \in k.others : /\ UpdateCycleStatus(c, "archived", None)
                              /\ procs' = [procs EXCEPT ![p].others = @ \ {c}]
    BY <1>1 DEF DemotesOther
  <1>3. k.pc = "promotes" /\ k.op = "resume" /\ c \in DOMAIN cycles /\ ProcessOK(k)
    BY <1>1, <1>2, ProcessAt DEF DemotesOther, At, ProcessOK
  <1>4. /\ cycles' \in Rows /\ Len(cycles') = Len(cycles) /\ DOMAIN cycles' = DOMAIN cycles
        /\ cycles'[c].status = "archived"
        /\ \A o \in DOMAIN cycles \ {c} : cycles'[o] = cycles[o]
        /\ \A o \in DOMAIN cycles : cycles'[o].holder = cycles[o].holder
    <2>1. "archived" \in Statuses /\ None \in 0..(MaxDay + 1)
      BY Bounds DEF Statuses, None
    <2> QED
      BY <1>2, <1>3, <2>1, StatusChanges
  <1>5. PICK d : d = [k EXCEPT !.others = k.others \ {c}]
    OBVIOUS
  <1>6. /\ d \in Process /\ d.others = k.others \ {c} /\ d.pc = k.pc /\ d.op = k.op /\ d.id = k.id
        /\ d.number = k.number /\ d.done = k.done
    BY <1>5 DEF Process
  <1>7. ProcessOK(d)
    BY <1>3, <1>6 DEF ProcessOK
  <1>8. procs' = [procs EXCEPT ![p] = d]
    BY <1>1, <1>2, <1>5 DEF TypeInv
  <1>9. Moves(p, d) /\ procs'[p] = d
    BY <1>4, <1>6, <1>7, <1>8, ProcessChanges DEF Moves
  <1> QED
    BY <1>1, <1>3, <1>4, <1>6, <1>9 DEF DemotesOther, Moves, TypeInv

LEMMA PromotesTo ==
    ASSUME TypeInv, NEW p \in Procs, Promotes(p)
    PROVE  /\ TypeInv' /\ UNCHANGED <<intents, lease, files, env, day, history>>
           /\ procs[p].pc = "promotes" /\ procs[p].others = {} /\ Moves(p, Idle)
           /\ procs[p].id \in DOMAIN cycles /\ DOMAIN cycles' = DOMAIN cycles
           /\ \A o \in DOMAIN cycles \ {procs[p].id} : cycles'[o] = cycles[o]
           /\ \A o \in DOMAIN cycles : cycles'[o].holder = cycles[o].holder
  <1>1. procs[p].pc = "promotes" /\ procs[p].others = {} /\ procs[p].id \in DOMAIN cycles /\ Return(p)
    BY ProcessAt DEF Promotes, At, ProcessOK
  <1>2. "active" \in Statuses /\ None \in 0..(MaxDay + 1)
    BY Bounds DEF Statuses, None
  <1>3. /\ cycles' \in Rows /\ Len(cycles') = Len(cycles) /\ DOMAIN cycles' = DOMAIN cycles
        /\ \A o \in DOMAIN cycles \ {procs[p].id} : cycles'[o] = cycles[o]
        /\ \A o \in DOMAIN cycles : cycles'[o].holder = cycles[o].holder
    BY <1>1, <1>2, StatusChanges DEF Promotes
  <1>4. Moves(p, Idle)
    BY <1>1, <1>3, IdleMoves
  <1> QED
    BY <1>1, <1>3, <1>4 DEF Promotes, Moves, TypeInv

LEMMA StartsArchiveTo ==
    ASSUME TypeInv, NEW p \in Procs, StartsArchive(p)
    PROVE  /\ TypeInv' /\ UNCHANGED <<cycles, intents, lease, files, env, day>>
           /\ \E d \in Process : Moves(p, d) /\ procs[p].pc = "idle" /\ d.op = "archive" /\ d.pc = "leases"
           /\ history'.late = history.late /\ history'.sealed = history.sealed /\ history'.deaths = history.deaths
           /\ history'.crossed = history.crossed /\ history'.raced = history.raced
  <1>1. PICK c : c = ResolveArchiveCycle
    OBVIOUS
  <1>2. c # None /\ Start(p, [Idle EXCEPT !.op = "archive", !.pc = "leases", !.id = c, !.done = cycles[c].done])
        /\ UNCHANGED <<cycles, intents, lease, files, env, day>>
    BY <1>1 DEF StartsArchive
  <1>3. c \in DOMAIN cycles
    <2> DEFINE current == IF With("active") # {} THEN With("active") ELSE With("completed")
    <2>1. current \subseteq DOMAIN cycles
      BY DEF With
    <2>2. current # {} => Latest(current) \in DOMAIN cycles
      <3> HIDE DEF current
      <3> QED
        BY <2>1, LatestIn
    <2>3. Latest(DOMAIN cycles) \in DOMAIN cycles
      BY LatestIn, RowsOf
    <2>4. (c = Latest(current) /\ current # {}) \/ c = Latest(DOMAIN cycles)
      BY <1>1, <1>2 DEF ResolveArchiveCycle
    <2> QED
      BY <2>2, <2>3, <2>4
  <1>4. cycles[c].done \in 0..(MaxDay + 1) /\ c \in Nat
    BY <1>3, RowsOf, Bounds DEF Row
  <1>5. PICK done \in 0..(MaxDay + 1) : done = cycles[c].done
    BY <1>4
  <1>6. PICK d : d = [Idle EXCEPT !.op = "archive", !.pc = "leases", !.id = c, !.done = done]
    OBVIOUS
  <1>7. d \in Process /\ d.op = "archive" /\ d.pc = "leases" /\ d.done = done /\ d.others = {} /\ d.id = c
    <2>1. PICK i \in Process : i = Idle
      BY IdleOK
    <2>2. d = [i EXCEPT !.op = "archive", !.pc = "leases", !.id = c, !.done = done]
      BY <1>6, <2>1
    <2>3. done \in Nat
      BY <1>5, Bounds
    <2> QED
      BY <1>4, <2>1, <2>2, <2>3, IdleOK DEF Process, Steps
  <1>8. ProcessOK(d)
    BY <1>3, <1>5, <1>7, Bounds DEF ProcessOK, Archiving, Leased, Locking, Creating, Locked
  <1>9. Start(p, d)
    BY <1>2, <1>5, <1>6
  <1>10. /\ TypeInv' /\ Moves(p, d) /\ procs[p].pc = "idle"
         /\ history'.late = history.late /\ history'.sealed = history.sealed /\ history'.deaths = history.deaths
         /\ history'.crossed = (history.crossed \/ (d.op \in Locked /\ Overlaps(p, Locked, {"locks"})))
         /\ history'.raced = (history.raced \/ (d.op \in Switching /\ Overlaps(p, Switching, Steps)))
    BY <1>2, <1>7, <1>8, <1>9, StartTo
  <1>11. history.crossed \in BOOLEAN /\ history.raced \in BOOLEAN /\ d.op \notin Locked /\ d.op \notin Switching
    BY <1>7 DEF TypeInv, Locked, Switching
  <1> QED
    BY <1>2, <1>7, <1>10, <1>11
-----------------------------------------------------------------------------
(* The steps of an archive.                                                *)

\* An archive goes on from one step to another.
Continues(p, pc, next) ==
    LET c == procs[p]
        d == procs'[p]
    IN
    /\ c.pc = pc /\ d.pc = next /\ Moves(p, d)
    /\ d.op = c.op /\ d.id = c.id /\ d.plan = c.plan /\ d.dest = c.dest

LEMMA Continuing ==
    ASSUME TypeInv, NEW p \in Procs, NEW pc \in Archiving, NEW next \in Archiving,
           At(p, pc), To(p, next), DOMAIN cycles \subseteq DOMAIN cycles'
    PROVE  Continues(p, pc, next)
  <1>1. next \in Steps /\ procs[p].pc = pc
    BY DEF Archiving, Leased, Steps, At
  <1>2. Moves(p, [procs[p] EXCEPT !.pc = next])
    BY <1>1, SameCommand
  <1> QED
    BY <1>1, <1>2, ProcessAt DEF Continues, Moves, Process

LEMMA ArchivesOne ==
    ASSUME TypeInv, NEW p \in Procs, procs[p].pc \in Archiving
    PROVE  procs[p].id \in DOMAIN cycles /\ procs[p].op = "archive"
  BY ProcessAt DEF ProcessOK

LEMMA OpenSafeStoreTo ==
    ASSUME TypeInv, NEW p \in Procs, OpenSafeStore(p)
    PROVE  /\ TypeInv' /\ UNCHANGED <<cycles, intents, files, env, day, history>>
           /\ \/ lease = NoProc /\ lease' = p /\ Continues(p, "leases", "recovers")
              \/ procs[p].pc = "leases" /\ UNCHANGED lease /\ Moves(p, Idle)
  <1>1. \/ lease = NoProc /\ lease' = p /\ Continues(p, "leases", "recovers")
        \/ procs[p].pc = "leases" /\ UNCHANGED lease /\ Moves(p, Idle)
    <2>1. CASE lease = NoProc
      BY <2>1, Continuing DEF OpenSafeStore, Archiving, Leased
    <2>2. CASE lease # NoProc
      BY <2>2, IdleMoves DEF OpenSafeStore, At
    <2> QED
      BY <2>1, <2>2
  <1> QED
    BY <1>1 DEF OpenSafeStore, Continues, Moves, TypeInv

\* Only the holder of a row changes.
Relocks(c) ==
    /\ cycles' \in Rows /\ Len(cycles') = Len(cycles) /\ DOMAIN cycles' = DOMAIN cycles
    /\ \A o \in DOMAIN cycles \ {c} : cycles'[o] = cycles[o]
    /\ \A o \in DOMAIN cycles : cycles'[o].status = cycles[o].status

LEMMA RecoverArchiveLockTo ==
    ASSUME TypeInv, NEW p \in Procs, RecoverArchiveLock(p)
    PROVE  LET c == procs[p].id IN
           /\ TypeInv' /\ UNCHANGED <<intents, lease, files, env, day, history>>
           /\ Continues(p, "recovers", "claims") /\ c \in DOMAIN cycles /\ Relocks(c)
           /\ UNCHANGED cycles \/ (cycles[c].holder[1] = "archive" /\ cycles'[c].holder = Free)
  <1>1. At(p, "recovers") /\ procs[p].id \in DOMAIN cycles
    BY ArchivesOne DEF RecoverArchiveLock, At, Archiving, Leased
  <1>2. PICK c \in DOMAIN cycles : c = procs[p].id
    BY <1>1
  <1>3. CASE cycles[c].holder[1] = "archive"
    <2>1. SetCycleLock(c, Free) /\ Free \in Holders
      BY <1>2, <1>3 DEF RecoverArchiveLock, Holders
    <2>2. Relocks(c) /\ cycles'[c].holder = Free
      BY <2>1, LockChanges DEF Relocks
    <2>3. Continues(p, "recovers", "claims")
      BY <1>1, <2>2, Continuing DEF RecoverArchiveLock, Archiving, Leased, Relocks
    <2> QED
      BY <1>2, <1>3, <2>2, <2>3 DEF RecoverArchiveLock, Continues, Moves, TypeInv, Relocks
  <1>4. CASE cycles[c].holder[1] # "archive"
    <2>1. UNCHANGED cycles
      BY <1>2, <1>4 DEF RecoverArchiveLock
    <2>2. Relocks(c)
      BY <2>1 DEF Relocks, TypeInv
    <2>3. Continues(p, "recovers", "claims")
      BY <1>1, <2>1, Continuing DEF RecoverArchiveLock, Archiving, Leased
    <2> QED
      <3>1. UNCHANGED <<cycles, intents, lease, files, env, day, history>>
        BY <2>1 DEF RecoverArchiveLock
      <3>2. TypeInv'
        BY <2>3, <3>1 DEF Continues, Moves, TypeInv
      <3>3. Relocks(procs[p].id)
        BY <1>2, <2>2
      <3> QED
        BY <1>1, <2>3, <3>1, <3>2, <3>3
  <1> QED
    BY <1>3, <1>4

LEMMA AcquireArchiveLockTo ==
    ASSUME TypeInv, NEW p \in Procs, AcquireArchiveLock(p)
    PROVE  LET c == procs[p].id IN
           /\ TypeInv' /\ UNCHANGED <<intents, files, env, day, history>>
           /\ procs[p].pc = "claims" /\ c \in DOMAIN cycles
           /\ \/ /\ Continues(p, "claims", "openspec") /\ UNCHANGED lease /\ Relocks(c)
                 /\ cycles[c].holder = Free /\ cycles'[c].holder = <<"archive", p>>
              \/ UNCHANGED cycles /\ lease' = NoProc /\ Moves(p, Idle)
  <1>1. At(p, "claims") /\ procs[p].pc = "claims" /\ procs[p].id \in DOMAIN cycles
    BY ArchivesOne DEF AcquireArchiveLock, At, Archiving, Leased
  <1>2. PICK c \in DOMAIN cycles : c = procs[p].id
    BY <1>1
  <1>3. CASE cycles[c].holder = Free /\ cycles[c].status # "archived"
    <2>1. SetCycleLock(c, <<"archive", p>>) /\ <<"archive", p>> \in Holders /\ UNCHANGED lease
      BY <1>2, <1>3 DEF AcquireArchiveLock, Holders
    <2>2. Relocks(c) /\ cycles'[c].holder = <<"archive", p>>
      BY <2>1, LockChanges DEF Relocks
    <2>3. To(p, "openspec")
      BY <1>2, <1>3 DEF AcquireArchiveLock
    <2>4. Continues(p, "claims", "openspec")
      BY <1>1, <2>2, <2>3, Continuing DEF Archiving, Leased, Relocks
    <2> QED
      BY <1>1, <1>2, <1>3, <2>1, <2>2, <2>4 DEF AcquireArchiveLock, Continues, Moves, TypeInv, Relocks
  <1>4. CASE ~(cycles[c].holder = Free /\ cycles[c].status # "archived")
    <2>1. UNCHANGED cycles /\ lease' = NoProc /\ Return(p)
      BY <1>2, <1>4 DEF AcquireArchiveLock
    <2>2. Moves(p, Idle)
      BY <2>1, IdleMoves
    <2> QED
      BY <1>1, <1>2, <2>1, <2>2 DEF AcquireArchiveLock, Moves, TypeInv
  <1> QED
    BY <1>3, <1>4

LEMMA ArchiveOpenspecTo ==
    ASSUME TypeInv, NEW p \in Procs, ArchiveOpenspec(p)
    PROVE  /\ TypeInv' /\ UNCHANGED <<cycles, intents, lease, files, day, history>>
           /\ Continues(p, "openspec", "plans") \/ Continues(p, "openspec", "ends")
           /\ env'.creds = env.creds /\ env'.idea = env.idea /\ env'.archived = env.archived
  <1>1. Continues(p, "openspec", "plans") \/ Continues(p, "openspec", "ends")
    BY Continuing DEF ArchiveOpenspec, Archiving, Leased
  <1>2. PICK e \in Env : e = env
    BY DEF TypeInv
  <1>3. env' = e \/ env' = [e EXCEPT !.spec = "archived"]
    BY <1>2 DEF ArchiveOpenspec
  <1>4. env' \in Env /\ env'.creds = e.creds /\ env'.idea = e.idea /\ env'.archived = e.archived
    BY <1>3 DEF Env
  <1> QED
    BY <1>1, <1>2, <1>4 DEF ArchiveOpenspec, Continues, Moves, TypeInv

LEMMA PrepareIdeaArchiveTo ==
    ASSUME TypeInv, NEW p \in Procs, PrepareIdeaArchive(p)
    PROVE  /\ TypeInv' /\ UNCHANGED <<cycles, intents, lease, files, env, day, history>>
           /\ \/ Continues(p, "plans", "ends")
              \/ /\ procs[p].pc = "plans" /\ procs'[p].pc = "ideas" /\ Moves(p, procs'[p])
                 /\ procs'[p].plan = env.idea /\ procs'[p].op = procs[p].op /\ procs'[p].id = procs[p].id
  <1>1. CASE env.idea \cap env.archived # {}
    BY <1>1, Continuing DEF PrepareIdeaArchive, Archiving, Leased, Continues, Moves, TypeInv
  <1>2. CASE env.idea \cap env.archived = {}
    <2>1. PICK c \in Process : c = procs[p]
      BY ProcessAt
    <2>2. PICK plan \in SUBSET Notes : plan = env.idea
      BY DEF TypeInv, Env
    <2>3. PICK d : d = [c EXCEPT !.plan = plan, !.pc = "ideas"]
      OBVIOUS
    <2>4. /\ d \in Process /\ d.pc = "ideas" /\ d.plan = plan /\ d.op = c.op /\ d.id = c.id
          /\ d.done = c.done /\ d.others = c.others
      BY <2>3 DEF Process, Steps
    <2>5. c.pc = "plans" /\ procs' = [procs EXCEPT ![p] = d] /\ UNCHANGED cycles
      BY <1>2, <2>1, <2>2, <2>3 DEF PrepareIdeaArchive, At, TypeInv
    <2>6. ProcessOK(d)
      BY <2>1, <2>4, <2>5, ProcessAt DEF ProcessOK, Archiving, Leased, Locking, Creating, Locked
    <2>7. Moves(p, d) /\ procs'[p] = d
      BY <2>4, <2>5, <2>6, ProcessChanges DEF Moves
    <2> QED
      BY <2>1, <2>2, <2>4, <2>5, <2>7 DEF PrepareIdeaArchive, Moves, TypeInv
  <1> QED
    BY <1>1, <1>2

\* Notes that are in the archive and not in docs/idea.
Away == env.archived \ env.idea

LEMMA EnvOK ==
    ASSUME TypeInv
    PROVE  env \in Env /\ env.idea \subseteq Notes /\ env.archived \subseteq Notes
  BY DEF TypeInv, Env

LEMMA MoveIdeaTo ==
    ASSUME TypeInv, NEW p \in Procs, MoveIdea(p)
    PROVE  /\ TypeInv' /\ UNCHANGED <<cycles, intents, lease, files, procs, day, history>>
           /\ procs[p].pc = "ideas" /\ env'.creds = env.creds
           /\ Away' \subseteq Away \cup procs[p].plan
  <1>1. PICK n \in procs[p].plan \cap env.idea : env' = [env EXCEPT !.idea = @ \ {n}, !.archived = @ \cup {n}]
    BY DEF MoveIdea
  <1>2. PICK e \in Env : e = env
    BY EnvOK
  <1>3. PICK A, B : A = e.idea \ {n} /\ B = e.archived \cup {n}
    OBVIOUS
  <1>31. env' = [e EXCEPT !.idea = A, !.archived = B]
    BY <1>1, <1>2, <1>3
  <1>32. A \subseteq Notes /\ B \subseteq Notes
    BY <1>1, <1>2, <1>3, EnvOK
  <1>4. env' \in Env /\ env'.idea = e.idea \ {n} /\ env'.archived = e.archived \cup {n} /\ env'.creds = e.creds
    BY <1>3, <1>31, <1>32 DEF Env
  <1>5. Away' \subseteq Away \cup procs[p].plan
    BY <1>1, <1>2, <1>4 DEF Away
  <1> QED
    BY <1>2, <1>4, <1>5 DEF MoveIdea, At, TypeInv, ProcessOK

LEMMA RollbackOK ==
    ASSUME TypeInv, NEW p \in Procs, RollbackIdeas(p)
    PROVE  env' \in Env /\ env'.creds = env.creds /\ Away' \subseteq Away \ procs[p].plan
  <1>1. PICK back : back = (procs[p].plan \cap env.archived) \ env.idea
    OBVIOUS
  <1>2. PICK e \in Env : e = env
    BY EnvOK
  <1>3. env' = [e EXCEPT !.idea = e.idea \cup back, !.archived = e.archived \ back]
    BY <1>1, <1>2 DEF RollbackIdeas
  <1>4. back \subseteq Notes
    BY <1>1, EnvOK
  <1>5. env' \in Env /\ env'.idea = e.idea \cup back /\ env'.archived = e.archived \ back /\ env'.creds = e.creds
    BY <1>3, <1>4 DEF Env
  <1>6. Away' \subseteq Away \ procs[p].plan
    BY <1>1, <1>2, <1>5 DEF Away
  <1> QED
    BY <1>2, <1>5, <1>6

LEMMA RollsBackTo ==
    ASSUME TypeInv, NEW p \in Procs, MoveIdeaFails(p) \/ Fails(p)
    PROVE  /\ TypeInv' /\ UNCHANGED <<cycles, intents, lease, files, day, history>>
           /\ Continues(p, "ideas", "ends") \/ Continues(p, "fails", "ends")
           /\ env'.creds = env.creds /\ Away' \subseteq Away \ procs[p].plan
  <1>1. env' \in Env /\ env'.creds = env.creds /\ Away' \subseteq Away \ procs[p].plan
    BY RollbackOK DEF MoveIdeaFails, Fails
  <1>2. Continues(p, "ideas", "ends") \/ Continues(p, "fails", "ends")
    BY Continuing DEF MoveIdeaFails, Fails, Archiving, Leased
  <1> QED
    BY <1>1, <1>2 DEF MoveIdeaFails, Fails, Continues, Moves, TypeInv

LEMMA RemovedOK ==
    ASSUME TypeInv
    PROVE  Removed \in Files /\ Removed.current = NoDir /\ Removed.archive = files.archive
  BY DEF TypeInv, Files, Removed

LEMMA InspectTo ==
    ASSUME TypeInv, NEW p \in Procs, Inspect(p)
    PROVE  LET d == procs'[p] IN
           /\ TypeInv' /\ UNCHANGED <<cycles, intents, lease, env, day, history>>
           /\ procs[p].pc = "ideas" /\ Moves(p, d)
           /\ d.op = procs[p].op /\ d.id = procs[p].id /\ d.plan = procs[p].plan
           /\ \/ /\ d.pc = "records" /\ UNCHANGED files
                 /\ files.current # NoDir /\ files.archive[d.dest] = NoDir
              \/ d.pc = "recreates" /\ UNCHANGED files /\ files.current = NoDir
              \/ d.pc = "recreates" /\ files' = Removed /\ files.current.has = {}
              \/ d.pc = "fails" /\ UNCHANGED files
  <1>1. PICK c \in Process : c = procs[p]
    BY ProcessAt
  <1>2. c.pc = "ideas" /\ ProcessOK(c) /\ c.id \in DOMAIN cycles
    BY <1>1, ProcessAt DEF Inspect, At, ProcessOK, Archiving, Leased
  <1>3. Name(p) \in Names
    <2>1. cycles[c.id].number \in Ids
      BY <1>2, RowsOf DEF Row
    <2>2. c.done \in Nat /\ c.done <= MaxDay + 1 /\ day \in Days /\ MaxDay \in Nat
      BY <1>2, BoundsAssumption DEF Process, ProcessOK, TypeInv
    <2>3. c.done # None => c.done - 1 \in Days
      BY <2>2 DEF Days, None
    <2> QED
      BY <1>1, <2>1, <2>2, <2>3 DEF Name, Names
  <1>4. PICK name \in Names : name = Name(p)
    BY <1>3
  <1>5. ASSUME NEW pc \in {"records", "recreates", "fails"}, NEW moved \in BOOLEAN, Goes(p, pc, moved)
        PROVE  /\ Moves(p, procs'[p]) /\ procs'[p].pc = pc /\ procs'[p].dest = name
               /\ procs'[p].op = c.op /\ procs'[p].id = c.id /\ procs'[p].plan = c.plan
    <2>1. PICK d : d = [c EXCEPT !.pc = pc, !.dest = name, !.moved = moved]
      OBVIOUS
    <2>2. /\ d \in Process /\ d.pc = pc /\ d.dest = name /\ d.op = c.op /\ d.id = c.id /\ d.plan = c.plan
          /\ d.done = c.done /\ d.others = c.others
      BY <2>1 DEF Process, Steps
    <2>3. procs' = [procs EXCEPT ![p] = d] /\ UNCHANGED cycles
      BY <1>1, <1>4, <1>5, <2>1 DEF Goes, Inspect, TypeInv
    <2>4. ProcessOK(d)
      BY <1>2, <2>2 DEF ProcessOK, Archiving, Leased, Locking, Creating, Locked
    <2>5. Moves(p, d) /\ procs'[p] = d
      BY <2>2, <2>3, <2>4, ProcessChanges DEF Moves
    <2> QED
      BY <2>2, <2>5
  <1> DEFINE Goal ==
         /\ Moves(p, procs'[p]) /\ files' \in Files
         /\ procs'[p].op = c.op /\ procs'[p].id = c.id /\ procs'[p].plan = c.plan
         /\ \/ /\ procs'[p].pc = "records" /\ UNCHANGED files
               /\ files.current # NoDir /\ files.archive[procs'[p].dest] = NoDir
            \/ procs'[p].pc = "recreates" /\ UNCHANGED files /\ files.current = NoDir
            \/ procs'[p].pc = "recreates" /\ files' = Removed /\ files.current.has = {}
            \/ procs'[p].pc = "fails" /\ UNCHANGED files
  <1>6. files \in Files
    BY DEF TypeInv
  <1>7. ASSUME files.archive[name] = NoDir,
               Goes(p, IF files.current = NoDir THEN "recreates" ELSE "records", FALSE), UNCHANGED files
        PROVE  Goal
    <2>1. CASE files.current = NoDir
      BY <1>5, <1>6, <1>7, <2>1
    <2>2. CASE files.current # NoDir
      BY <1>5, <1>6, <1>7, <2>2
    <2> QED
      BY <2>1, <2>2
  <1>8. ASSUME files.current.has = {}, files' = Removed, Goes(p, "recreates", TRUE) PROVE Goal
    BY <1>5, <1>8, RemovedOK
  <1>9. ASSUME Goes(p, "fails", FALSE), UNCHANGED files PROVE Goal
    BY <1>5, <1>6, <1>9
  <1>10. Goal
    BY <1>4, <1>7, <1>8, <1>9 DEF Inspect
  <1> QED
    BY <1>1, <1>2, <1>10 DEF Inspect, Moves, TypeInv

LEMMA RecordArchiveMoveTo ==
    ASSUME TypeInv, NEW p \in Procs, RecordArchiveMove(p), files.current # NoDir
    PROVE  /\ TypeInv' /\ UNCHANGED <<cycles, lease, files, env, day, history>>
           /\ Continues(p, "records", "moves")
           /\ intents' = intents \cup {<<procs[p].id, procs[p].dest, files.current.ino>>}
  <1>1. Continues(p, "records", "moves")
    BY Continuing DEF RecordArchiveMove, Archiving, Leased
  <1>2. procs[p].id \in Ids /\ procs[p].dest \in Names
    BY <1>1, ArchivesOne, ProcessAt, RowsOf DEF Continues, Archiving, Leased, Process
  <1>3. files.current.ino \in 1..MaxInodes
    BY DEF TypeInv, Files, Dirs
  <1>4. intents' = intents \cup {<<procs[p].id, procs[p].dest, files.current.ino>>}
    BY DEF RecordArchiveMove, Dest
  <1>5. intents' \subseteq (Ids \X Names \X (1..MaxInodes))
    BY <1>2, <1>3, <1>4 DEF TypeInv
  <1> QED
    BY <1>1, <1>4, <1>5 DEF RecordArchiveMove, Continues, Moves, TypeInv

LEMMA MoveCurrentTo ==
    ASSUME TypeInv, NEW p \in Procs, MoveCurrent(p)
    PROVE  LET dest == procs[p].dest IN
           /\ TypeInv' /\ UNCHANGED <<cycles, intents, lease, env, day, history>>
           /\ \/ /\ procs[p].pc = "moves" /\ procs'[p].pc = "recreates" /\ Moves(p, procs'[p])
                 /\ procs'[p].op = procs[p].op /\ procs'[p].id = procs[p].id /\ procs'[p].plan = procs[p].plan
                 /\ files'.current = NoDir /\ files'.archive[dest] = files.current /\ dest \in Names
                 /\ \A n \in Names \ {dest} : files'.archive[n] = files.archive[n]
              \/ Continues(p, "moves", "fails") /\ UNCHANGED files
  <1>1. CASE UNCHANGED files /\ To(p, "fails")
    <2>1. Continues(p, "moves", "fails")
      BY <1>1, Continuing DEF MoveCurrent, Archiving, Leased
    <2> QED
      BY <1>1, <2>1 DEF MoveCurrent, Continues, Moves, TypeInv
  <1>2. CASE /\ files' = [files EXCEPT !.current = NoDir, !.archive[Dest(p)] = files.current]
             /\ procs' = [procs EXCEPT ![p].pc = "recreates", ![p].moved = TRUE]
    <2>1. PICK c \in Process : c = procs[p]
      BY ProcessAt
    <2>2. PICK d : d = [c EXCEPT !.pc = "recreates", !.moved = TRUE]
      OBVIOUS
    <2>3. /\ d \in Process /\ d.pc = "recreates" /\ d.plan = c.plan /\ d.op = c.op /\ d.id = c.id
          /\ d.done = c.done /\ d.others = c.others
      BY <2>2 DEF Process, Steps
    <2>4. c.pc = "moves" /\ procs' = [procs EXCEPT ![p] = d] /\ UNCHANGED cycles
      BY <1>2, <2>1, <2>2 DEF MoveCurrent, At, TypeInv
    <2>5. ProcessOK(d)
      BY <2>1, <2>3, <2>4, ProcessAt DEF ProcessOK, Archiving, Leased, Locking, Creating, Locked
    <2>6. Moves(p, d) /\ procs'[p] = d
      BY <2>3, <2>4, <2>5, ProcessChanges DEF Moves
    <2>7. PICK f \in Files : f = files
      BY DEF TypeInv
    <2>8. PICK dest \in Names : dest = procs[p].dest
      BY <2>1 DEF Process
    <2>9. PICK a : a = [f.archive EXCEPT ![dest] = f.current]
      OBVIOUS
    <2>10. files' = [f EXCEPT !.current = NoDir, !.archive = a]
      BY <1>2, <2>7, <2>8, <2>9 DEF Dest
    <2>11. a \in [Names -> Dirs \cup {NoDir}] /\ a[dest] = f.current /\ \A n \in Names \ {dest} : a[n] = f.archive[n]
      BY <2>9 DEF Files
    <2>12. files' \in Files /\ files'.current = NoDir /\ files'.archive = a
      BY <2>10, <2>11 DEF Files
    <2> QED
      BY <2>1, <2>3, <2>4, <2>6, <2>7, <2>8, <2>11, <2>12 DEF MoveCurrent, Moves, TypeInv
  <1> QED
    BY <1>1, <1>2 DEF MoveCurrent

LEMMA RecreateTo ==
    ASSUME TypeInv, NEW p \in Procs, Recreate(p)
    PROVE  /\ TypeInv' /\ UNCHANGED <<cycles, intents, lease, env, day, history>>
           /\ \/ Continues(p, "recreates", "finalizes") /\ FilesGrow({})
              \/ /\ Continues(p, "recreates", "restores") \/ Continues(p, "recreates", "fails")
                 /\ UNCHANGED files
  <1>1. CASE Mkdir.last <= MaxInodes /\ files' = Mkdir /\ To(p, "finalizes")
    <2>1. Continues(p, "recreates", "finalizes")
      BY <1>1, Continuing DEF Recreate, Archiving, Leased
    <2>2. PICK m \in Files : m = Mkdir
      BY <1>1, MkdirOK
    <2>3. /\ m.current # NoDir /\ m.archive = files.archive
          /\ files.current # NoDir => m.current = files.current
          /\ files.current.has = m.current.has
      BY <1>1, <2>2, MkdirOK
    <2>4. FilesGrow({}) /\ files' \in Files
      BY <1>1, <2>2, <2>3 DEF FilesGrow
    <2> QED
      BY <2>1, <2>4 DEF Recreate, Continues, Moves, TypeInv
  <1>2. CASE UNCHANGED files /\ To(p, IF procs[p].moved THEN "restores" ELSE "fails")
    <2>1. Continues(p, "recreates", "restores") \/ Continues(p, "recreates", "fails")
      <3>1. CASE procs[p].moved
        BY <1>2, <3>1, Continuing DEF Recreate, Archiving, Leased
      <3>2. CASE ~procs[p].moved
        BY <1>2, <3>2, Continuing DEF Recreate, Archiving, Leased
      <3> QED
        BY <3>1, <3>2
    <2> QED
      BY <1>2, <2>1 DEF Recreate, Continues, Moves, TypeInv
  <1> QED
    BY <1>1, <1>2 DEF Recreate

\* The credentials are removed or not.
LEMMA CredsChange ==
    ASSUME TypeInv, NEW b, env' = [env EXCEPT !.creds = b], b \in BOOLEAN
    PROVE  env' \in Env /\ env'.creds = b /\ env'.idea = env.idea /\ env'.archived = env.archived
  BY DEF TypeInv, Env

LEMMA FinalizeArchiveTo ==
    ASSUME TypeInv, NEW p \in Procs, FinalizeArchive(p)
    PROVE  LET c == procs[p].id IN
           /\ TypeInv' /\ UNCHANGED <<intents, lease, files, day>>
           /\ env'.idea = env.idea /\ env'.archived = env.archived /\ c \in DOMAIN cycles
           /\ \/ /\ Claimed(p) /\ Continues(p, "finalizes", "ends") /\ ~env'.creds
                 /\ history' = [history EXCEPT !.sealed = @ \cup {c}]
                 /\ DOMAIN cycles' = DOMAIN cycles /\ cycles'[c].status = "archived"
                 /\ \A o \in DOMAIN cycles \ {c} : cycles'[o] = cycles[o]
                 /\ \A o \in DOMAIN cycles : cycles'[o].holder = cycles[o].holder
              \/ /\ Continues(p, "finalizes", "unmakes") \/ Continues(p, "finalizes", "fails")
                 /\ UNCHANGED <<cycles, history>>
  <1>1. PICK c \in DOMAIN cycles : c = procs[p].id
    BY ArchivesOne DEF FinalizeArchive, At, Archiving, Leased
  <1>2. CASE /\ Claimed(p)
             /\ cycles' = [cycles EXCEPT ![procs[p].id].status = "archived"]
             /\ env' = [env EXCEPT !.creds = FALSE]
             /\ history' = [history EXCEPT !.sealed = @ \cup {procs[p].id}]
             /\ To(p, "ends")
    <2>1. PICK r : r = [cycles[c] EXCEPT !.status = "archived"]
      OBVIOUS
    <2>2. r \in Row /\ r.status = "archived" /\ r.holder = cycles[c].holder
      BY <2>1, RowsOf DEF Row, Statuses
    <2>3. cycles' = [cycles EXCEPT ![c] = r]
      BY <1>1, <1>2, <2>1, RowsOf
    <2>4. cycles' \in Rows /\ Len(cycles') = Len(cycles) /\ DOMAIN cycles' = DOMAIN cycles
      BY <2>2, <2>3, RowChanges
    <2>5. cycles'[c] = r /\ \A o \in DOMAIN cycles \ {c} : cycles'[o] = cycles[o]
      BY <2>3, RowsOf
    <2>6. env' \in Env /\ ~env'.creds /\ env'.idea = env.idea /\ env'.archived = env.archived
      BY <1>2, CredsChange
    <2>7. Continues(p, "finalizes", "ends")
      BY <1>2, <2>4, Continuing DEF FinalizeArchive, Archiving, Leased
    <2>8. history' \in [commands : Nat, deaths : Nat, crossed : BOOLEAN, raced : BOOLEAN,
                        late : SUBSET Ids, sealed : SUBSET Ids]
      <3>1. PICK S \in SUBSET Ids : S = history.sealed \cup {c}
        BY RowsOf DEF TypeInv
      <3>2. history' = [history EXCEPT !.sealed = S]
        BY <1>1, <1>2, <3>1
      <3> QED
        BY <3>1, <3>2 DEF TypeInv
    <2>9. TypeInv'
      BY <2>4, <2>6, <2>7, <2>8 DEF FinalizeArchive, Continues, Moves, TypeInv
    <2> QED
      BY <1>1, <1>2, <2>2, <2>4, <2>5, <2>6, <2>7, <2>9 DEF FinalizeArchive
  <1>3. CASE /\ \E removed \in {FALSE, Claimed(p)} : env' = [env EXCEPT !.creds = @ /\ ~removed]
             /\ To(p, IF procs[p].moved THEN "unmakes" ELSE "fails")
             /\ UNCHANGED <<cycles, history>>
    <2>1. PICK b \in BOOLEAN : env' = [env EXCEPT !.creds = b]
      <3>1. PICK removed \in {FALSE, Claimed(p)} : env' = [env EXCEPT !.creds = @ /\ ~removed]
        BY <1>3
      <3>2. PICK b \in BOOLEAN : b = (env.creds /\ ~removed)
        OBVIOUS
      <3>3. env' = [env EXCEPT !.creds = b]
        BY <3>1, <3>2, Zenon
      <3> QED
        BY <3>3
    <2>2. env' \in Env /\ env'.idea = env.idea /\ env'.archived = env.archived
      BY <2>1, CredsChange
    <2>3. Continues(p, "finalizes", "unmakes") \/ Continues(p, "finalizes", "fails")
      <3>1. CASE procs[p].moved
        BY <1>3, <3>1, Continuing DEF FinalizeArchive, Archiving, Leased
      <3>2. CASE ~procs[p].moved
        BY <1>3, <3>2, Continuing DEF FinalizeArchive, Archiving, Leased
      <3> QED
        BY <3>1, <3>2
    <2>4. TypeInv'
      BY <1>3, <2>2, <2>3 DEF FinalizeArchive, Continues, Moves, TypeInv
    <2> QED
      BY <1>1, <1>3, <2>2, <2>3, <2>4 DEF FinalizeArchive
  <1> QED
    BY <1>2, <1>3 DEF FinalizeArchive

LEMMA UnmakeTo ==
    ASSUME TypeInv, NEW p \in Procs, Unmake(p)
    PROVE  /\ TypeInv' /\ UNCHANGED <<cycles, intents, lease, env, day, history>>
           /\ Continues(p, "unmakes", "restores") \/ Continues(p, "unmakes", "fails")
           /\ UNCHANGED files \/ (files' = Removed /\ files.current.has = {})
  <1>1. Continues(p, "unmakes", "restores") \/ Continues(p, "unmakes", "fails")
    BY Continuing DEF Unmake, Archiving, Leased
  <1>2. UNCHANGED files \/ (files' = Removed /\ files.current.has = {})
    BY DEF Unmake
  <1>3. files' \in Files
    BY <1>2, RemovedOK DEF TypeInv
  <1> QED
    BY <1>1, <1>2, <1>3 DEF Unmake, Continues, Moves, TypeInv

LEMMA RestoreTo ==
    ASSUME TypeInv, NEW p \in Procs, Restore(p)
    PROVE  LET dest == procs[p].dest IN
           /\ TypeInv' /\ UNCHANGED <<cycles, intents, lease, env, day, history>>
           /\ Continues(p, "restores", "fails")
           /\ \/ UNCHANGED files
              \/ /\ files.current.has = {} /\ dest \in Names
                 /\ files'.current = files.archive[dest] /\ files'.archive[dest] = NoDir
                 /\ \A n \in Names \ {dest} : files'.archive[n] = files.archive[n]
  <1>1. Continues(p, "restores", "fails")
    BY Continuing DEF Restore, Archiving, Leased
  <1>2. CASE UNCHANGED files
    BY <1>1, <1>2 DEF Restore, Continues, Moves, TypeInv
  <1>3. CASE /\ files.current.has = {}
             /\ files' = [files EXCEPT !.current = files.archive[Dest(p)], !.archive[Dest(p)] = NoDir]
    <2>1. PICK f \in Files : f = files
      BY DEF TypeInv
    <2>2. PICK dest \in Names : dest = procs[p].dest
      BY ProcessAt DEF Process
    <2>3. PICK a : a = [f.archive EXCEPT ![dest] = NoDir]
      OBVIOUS
    <2>4. PICK e \in Dirs \cup {NoDir} : e = f.archive[dest]
      BY DEF Files
    <2>5. files' = [f EXCEPT !.current = e, !.archive = a]
      BY <1>3, <2>1, <2>2, <2>3, <2>4 DEF Dest
    <2>6. a \in [Names -> Dirs \cup {NoDir}] /\ a[dest] = NoDir /\ \A n \in Names \ {dest} : a[n] = f.archive[n]
      BY <2>3 DEF Files
    <2>7. files' \in Files /\ files'.current = e /\ files'.archive = a
      BY <2>5, <2>6 DEF Files
    <2> QED
      BY <1>1, <1>3, <2>1, <2>2, <2>4, <2>6, <2>7 DEF Restore, Continues, Moves, TypeInv
  <1> QED
    BY <1>2, <1>3 DEF Restore

LEMMA EndsTo ==
    ASSUME TypeInv, NEW p \in Procs, Ends(p)
    PROVE  LET c == procs[p].id IN
           /\ TypeInv' /\ UNCHANGED <<intents, files, env, day, history>>
           /\ procs[p].pc = "ends" /\ Moves(p, Idle) /\ lease' = NoProc /\ c \in DOMAIN cycles
           /\ \/ UNCHANGED cycles
              \/ Relocks(c) /\ cycles[c].holder = <<"archive", p>> /\ cycles'[c].holder = Free
  <1>1. PICK c \in DOMAIN cycles : c = procs[p].id
    BY ArchivesOne DEF Ends, At, Archiving, Leased
  <1>2. CASE Claimed(p)
    <2>1. SetCycleLock(c, Free) /\ Free \in Holders /\ cycles[c].holder = <<"archive", p>>
      BY <1>1, <1>2 DEF Ends, Holders, Claimed, Held
    <2>2. Relocks(c) /\ cycles'[c].holder = Free
      BY <2>1, LockChanges DEF Relocks
    <2>3. Moves(p, Idle)
      BY <2>2, IdleMoves DEF Ends, Relocks
    <2> QED
      BY <1>1, <2>1, <2>2, <2>3 DEF Ends, At, Moves, TypeInv, Relocks
  <1>3. CASE ~Claimed(p)
    <2>1. Moves(p, Idle)
      BY <1>3, IdleMoves DEF Ends
    <2> QED
      BY <1>1, <1>3, <2>1 DEF Ends, At, Moves, TypeInv
  <1> QED
    BY <1>2, <1>3
-----------------------------------------------------------------------------
(* The rest of the world.                                                  *)

LEMMA WriteEvidenceTo ==
    ASSUME TypeInv, WriteEvidence
    PROVE  /\ TypeInv' /\ UNCHANGED <<cycles, intents, lease, env, procs, day>>
           /\ GetActiveCycle \in DOMAIN cycles /\ FilesGrow({GetActiveCycle})
           /\ cycles[GetActiveCycle].holder[1] = "archive" => GetActiveCycle \in history'.late
           /\ history.late \subseteq history'.late
           /\ history'.sealed = history.sealed /\ history'.deaths = history.deaths
           /\ history'.crossed = history.crossed /\ history'.raced = history.raced
  <1>1. PICK g : g = GetActiveCycle
    OBVIOUS
  <1>2. g \in DOMAIN cycles /\ g \in Ids
    BY <1>1, ActiveIn, RowsOf DEF WriteEvidence
  <1>3. /\ files' \in Files /\ files'.archive = files.archive
        /\ files'.current.ino = files.current.ino /\ files'.current # NoDir
        /\ files'.current.has = files.current.has \cup {g}
    BY <1>1, <1>2, WritesOK DEF WriteEvidence, TypeInv
  <1>4. FilesGrow({g})
    BY <1>3 DEF FilesGrow
  <1>5. PICK L : L = history.late \cup {c \in {g} : cycles[c].holder[1] = "archive"}
    OBVIOUS
  <1>6. history' = [history EXCEPT !.late = L]
    BY <1>1, <1>5 DEF WriteEvidence
  <1>7. L \subseteq Ids /\ history.late \subseteq L /\ (cycles[g].holder[1] = "archive" => g \in L)
    BY <1>2, <1>5 DEF TypeInv
  <1>8. history \in [commands : Nat, deaths : Nat, crossed : BOOLEAN, raced : BOOLEAN,
                     late : SUBSET Ids, sealed : SUBSET Ids]
    BY DEF TypeInv
  <1>9. /\ history' \in [commands : Nat, deaths : Nat, crossed : BOOLEAN, raced : BOOLEAN,
                         late : SUBSET Ids, sealed : SUBSET Ids]
        /\ history'.late = L /\ history'.sealed = history.sealed /\ history'.deaths = history.deaths
        /\ history'.crossed = history.crossed /\ history'.raced = history.raced
    BY <1>6, <1>7, <1>8
  <1>10. UNCHANGED <<cycles, intents, lease, env, procs, day>>
    BY DEF WriteEvidence
  <1>11. \A q \in Procs : ProcessOK(procs[q])'
    BY <1>10, ProcessAt DEF ProcessOK
  <1>12. TypeInv'
    BY <1>3, <1>9, <1>10, <1>11 DEF TypeInv
  <1> QED
    BY <1>1, <1>2, <1>4, <1>7, <1>9, <1>10, <1>12

LEMMA ConfigureTo ==
    ASSUME TypeInv, Configure
    PROVE  /\ TypeInv' /\ UNCHANGED <<cycles, intents, lease, files, procs, day, history>>
           /\ env'.idea = env.idea /\ env'.archived = env.archived
  <1>1. env' \in Env /\ env'.idea = env.idea /\ env'.archived = env.archived
    BY CredsChange DEF Configure
  <1>2. \A q \in Procs : ProcessOK(procs[q])'
    BY ProcessAt DEF ProcessOK, Configure
  <1> QED
    BY <1>1, <1>2 DEF Configure, TypeInv

LEMMA MidnightTo ==
    ASSUME TypeInv, Midnight
    PROVE  TypeInv' /\ UNCHANGED <<cycles, intents, lease, files, env, procs, history>>
  <1>1. day' \in Days
    BY BoundsAssumption DEF Midnight, TypeInv, Days
  <1>2. \A q \in Procs : ProcessOK(procs[q])'
    BY ProcessAt DEF ProcessOK, Midnight
  <1> QED
    BY <1>1, <1>2 DEF Midnight, TypeInv

LEMMA DieTo ==
    ASSUME TypeInv, NEW p \in Procs, Die(p)
    PROVE  /\ TypeInv' /\ UNCHANGED <<intents, files, env, day>> /\ Moves(p, Idle)
           /\ lease' = (IF lease = p THEN NoProc ELSE lease)
           /\ history'.deaths # 0 /\ history'.late = history.late /\ history'.sealed = history.sealed
           /\ history'.crossed = history.crossed /\ history'.raced = history.raced
           /\ DOMAIN cycles' = DOMAIN cycles
           /\ \A c \in DOMAIN cycles :
                /\ cycles'[c].status = cycles[c].status
                /\ cycles'[c].holder # cycles[c].holder =>
                     cycles[c].holder = <<"cli", p>> /\ cycles'[c].holder = Dead
  <1>1. cycles' = [c \in DOMAIN cycles |->
                     IF cycles[c].holder = <<"cli", p>> THEN [cycles[c] EXCEPT !.holder = Dead] ELSE cycles[c]]
    BY DEF Die
  <1>2. ASSUME NEW c \in DOMAIN cycles
        PROVE  /\ cycles'[c] \in Row /\ cycles'[c].status = cycles[c].status
               /\ cycles'[c].holder # cycles[c].holder =>
                    cycles[c].holder = <<"cli", p>> /\ cycles'[c].holder = Dead
    <2>1. PICK r \in Row : r = cycles[c]
      BY RowsOf
    <2>2. [r EXCEPT !.holder = Dead] \in Row /\ [r EXCEPT !.holder = Dead].status = r.status
          /\ [r EXCEPT !.holder = Dead].holder = Dead
      BY DEF Row, Holders
    <2> QED
      BY <1>1, <2>1, <2>2
  <1>3. DOMAIN cycles' = 1..Len(cycles) /\ Len(cycles) \in Nat
    BY <1>1, RowsOf
  <1>4. cycles' \in Rows /\ Len(cycles') = Len(cycles) /\ DOMAIN cycles' = DOMAIN cycles
    <2>1. cycles' \in [1..Len(cycles) -> Row]
      BY <1>1, <1>2, <1>3, RowsOf
    <2>2. cycles' \in Seq(Row)
      BY <1>3, <2>1, SeqDef
    <2> QED
      BY <1>3, <2>1, <2>2, LenProperties, RowsOf DEF Rows
  <1>5. Moves(p, Idle)
    BY <1>4, IdleMoves DEF Die
  <1>6. lease' \in Procs \cup {NoProc}
    BY DEF Die, TypeInv
  <1>7. history \in [commands : Nat, deaths : Nat, crossed : BOOLEAN, raced : BOOLEAN,
                     late : SUBSET Ids, sealed : SUBSET Ids]
    BY DEF TypeInv
  <1>8. /\ history' \in [commands : Nat, deaths : Nat, crossed : BOOLEAN, raced : BOOLEAN,
                         late : SUBSET Ids, sealed : SUBSET Ids]
        /\ history'.deaths # 0 /\ history'.late = history.late /\ history'.sealed = history.sealed
        /\ history'.crossed = history.crossed /\ history'.raced = history.raced
    BY <1>7 DEF Die
  <1> QED
    BY <1>2, <1>4, <1>5, <1>6, <1>8 DEF Die, Moves, TypeInv
-----------------------------------------------------------------------------
(* What keeps each part of the invariant.                                  *)

LEMMA SameFiles ==
    ASSUME TypeInv, UNCHANGED files, NEW x
    PROVE  FilesGrow(x)
  BY DEF TypeInv, FilesGrow

\* Who is within the lease is alone with it.
LEMMA OneArchives ==
    ASSUME LeaseInv, NEW p \in Procs, procs[p].pc \in Leased
    PROVE  /\ lease = p /\ lease # NoProc
           /\ \A q \in Procs \ {p} : procs[q].pc \notin Leased
  BY NoProcAssumption DEF LeaseInv

LEMMA LeaseKept ==
    ASSUME LeaseInv, NEW p \in Procs, Moves(p, procs'[p]),
           \/ UNCHANGED lease /\ (procs'[p].pc \in Leased => procs[p].pc \in Leased)
           \/ lease = NoProc /\ lease' = p
           \/ procs'[p].pc \notin Leased /\ (lease # lease' => lease = p)
    PROVE  LeaseInv'
  <1>1. ASSUME NEW q \in Procs, procs'[q].pc \in Leased PROVE lease' = q
    <2>1. CASE q = p
      BY <1>1, <2>1 DEF LeaseInv
    <2>2. CASE q # p
      <3>1. procs[q].pc \in Leased
        BY <1>1, <2>2 DEF Moves
      <3> QED
        BY <2>2, <3>1, NoProcAssumption DEF LeaseInv
    <2> QED
      BY <2>1, <2>2
  <1> QED
    BY <1>1 DEF LeaseInv

LEMMA RecordedKept ==
    ASSUME MovesAreRecorded, DOMAIN cycles \subseteq DOMAIN cycles', intents \subseteq intents',
           \A n \in Names : files'.archive[n] \in {files.archive[n], NoDir}
    PROVE  MovesAreRecorded'
  BY DEF MovesAreRecorded

\* Steps of others change nothing of what an archive that moves relies on.
LEMMA MoveKept ==
    ASSUME LeaseInv, MoveInv, NEW p \in Procs, Moves(p, procs'[p]), NEW x,
           procs[p].pc \in Leased \/ (FilesGrow(x) /\ intents \subseteq intents'),
           procs'[p].pc \in {"records", "moves"} =>
              /\ files'.current # NoDir /\ files'.archive[procs'[p].dest] = NoDir
              /\ procs'[p].pc = "moves" => <<procs'[p].id, procs'[p].dest, files'.current.ino>> \in intents'
    PROVE  MoveInv'
  <1>1. ASSUME NEW q \in Procs, q # p, procs'[q].pc \in {"records", "moves"}
        PROVE  /\ files'.current # NoDir /\ files'.archive[procs'[q].dest] = NoDir
               /\ procs'[q].pc = "moves" => <<procs'[q].id, procs'[q].dest, files'.current.ino>> \in intents'
    <2>1. procs'[q] = procs[q] /\ procs[q].pc \in Leased
      BY <1>1 DEF Moves, Leased
    <2>2. FilesGrow(x) /\ intents \subseteq intents'
      BY <1>1, <2>1, OneArchives
    <2> QED
      BY <1>1, <2>1, <2>2 DEF FilesGrow, MoveInv
  <1>2. ASSUME NEW q \in Procs
        PROVE  /\ procs'[q].pc \in {"records", "moves"} =>
                    files'.current # NoDir /\ files'.archive[procs'[q].dest] = NoDir
               /\ procs'[q].pc = "moves" => <<procs'[q].id, procs'[q].dest, files'.current.ino>> \in intents'
    BY <1>1
  <1> QED
    BY <1>2 DEF MoveInv

\* Nobody else gives a process the claim of its cycle.
ClaimsKept == \A c \in DOMAIN cycles, q \in Procs :
                 cycles'[c].holder = <<"archive", q>> => cycles[c].holder = <<"archive", q>>

LEMMA SealKept ==
    ASSUME TypeInv, LeaseInv, SealInv, NEW p \in Procs, Moves(p, procs'[p]), NEW x, Ids \cap x = {},
           procs[p].pc \in Leased \/ (FilesGrow(x) /\ ClaimsKept /\ history.late \subseteq history'.late),
           procs'[p].pc \in {"recreates", "finalizes"} =>
             (Claimed(p)' /\ procs'[p].id \in files'.current.has => procs'[p].id \in history'.late)
    PROVE  SealInv'
  <1>1. ASSUME NEW q \in Procs, q # p, procs'[q].pc \in {"recreates", "finalizes"}, Claimed(q)',
               procs'[q].id \in files'.current.has
        PROVE  procs'[q].id \in history'.late
    <2>1. procs'[q] = procs[q] /\ procs[q].pc \in Leased /\ procs[q].id \in DOMAIN cycles /\ procs[q].id \in Ids
      BY <1>1, ArchivesOne, RowsOf DEF Moves, Leased, Archiving
    <2>2. FilesGrow(x) /\ ClaimsKept /\ history.late \subseteq history'.late
      BY <1>1, <2>1, OneArchives
    <2>3. Claimed(q)
      BY <1>1, <2>1, <2>2 DEF Claimed, Held, ClaimsKept
    <2>4. procs[q].id \in files.current.has
      BY <1>1, <2>1, <2>2 DEF FilesGrow
    <2> QED
      BY <1>1, <2>1, <2>2, <2>3, <2>4 DEF SealInv
  <1>2. ASSUME NEW q \in Procs, procs'[q].pc \in {"recreates", "finalizes"}, Claimed(q)',
               procs'[q].id \in files'.current.has
        PROVE  procs'[q].id \in history'.late
    BY <1>1, <1>2
  <1> QED
    BY <1>2 DEF SealInv

LEMMA IdeaKept ==
    ASSUME TypeInv, LeaseInv, IdeaInv, NEW p \in Procs, Moves(p, procs'[p]),
           history'.deaths = 0 /\ history'.sealed = {} => history.deaths = 0 /\ history.sealed = {},
           \/ /\ Away' = Away
              /\ procs[p].pc \in Taking => procs'[p].pc \in Taking /\ procs'[p].plan = procs[p].plan
           \/ procs[p].pc \in Taking /\ Away' \subseteq Away \ procs[p].plan
    PROVE  IdeaInv'
  <1> SUFFICES ASSUME history'.deaths = 0 /\ history'.sealed = {}, Away' # {}
               PROVE  \E q \in Procs : procs'[q].pc \in Taking /\ Away' \subseteq procs'[q].plan
    BY DEF IdeaInv, Away
  <1>1. Away # {}
    OBVIOUS
  <1>2. PICK q \in Procs : procs[q].pc \in Taking /\ Away \subseteq procs[q].plan
    BY <1>1 DEF IdeaInv, Away
  <1>3. procs[p].pc \in Taking => q = p
    BY <1>2, OneArchives DEF Taking, Leased
  <1>4. Away' = Away /\ (procs[p].pc \in Taking => procs'[p].pc \in Taking /\ procs'[p].plan = procs[p].plan)
    BY <1>2, <1>3
  <1> QED
    BY <1>2, <1>4 DEF Moves

\* A step of a command that is not within an archive.
Outside(p) ==
    /\ Moves(p, procs'[p]) /\ procs[p].pc \notin Leased /\ procs'[p].pc \notin Leased
    /\ UNCHANGED <<intents, lease, env>> /\ FilesGrow({Config})
    /\ DOMAIN cycles \subseteq DOMAIN cycles' /\ ClaimsKept
    /\ history'.late = history.late /\ history'.sealed = history.sealed /\ history'.deaths = history.deaths

LEMMA OutsideKeeps ==
    ASSUME TypeInv, LeaseInv, MovesAreRecorded, MoveInv, SealInv, IdeaInv, NEW p \in Procs, Outside(p)
    PROVE  LeaseInv' /\ MovesAreRecorded' /\ MoveInv' /\ SealInv' /\ IdeaInv'
  <1>1. procs'[p].pc \notin {"recreates", "finalizes", "records", "moves"} /\ procs[p].pc \notin Taking
    BY DEF Outside, Leased, Taking
  <1>2. LeaseInv'
    BY LeaseKept DEF Outside
  <1>3. MovesAreRecorded'
    BY RecordedKept DEF Outside, FilesGrow
  <1>4. MoveInv'
    BY <1>1, MoveKept DEF Outside
  <1>5. SealInv'
    <2>1. Ids \cap {Config} = {}
      BY BoundsAssumption DEF Ids, Config
    <2> QED
      BY <1>1, <2>1, SealKept DEF Outside
  <1>6. IdeaInv'
    BY <1>1, IdeaKept DEF Outside, Away
  <1> QED
    BY <1>2, <1>3, <1>4, <1>5, <1>6

\* A step that leaves the locks of others and ends or hands over no cycle.
LEMMA ActiveKept ==
    ASSUME ActiveInv, NEW p \in Procs, Moves(p, procs'[p]), procs'[p].op \notin Switching, TypeInv',
           With("active")' \subseteq With("active"), history'.raced = history.raced
    PROVE  ActiveInv'
  <1> SUFFICES ASSUME ~history'.raced PROVE ActiveInv'
    BY DEF ActiveInv
  <1>1. /\ \A q, r \in Procs : procs[q].op \in Switching /\ procs[r].op \in Switching => q = r
        /\ \A c, d \in With("active") : c = d
        /\ \A q \in Procs :
             /\ procs[q].pc = "demoting" => With("active") \subseteq {procs[q].id}
             /\ procs[q].pc = "inserts" => With("active") = {}
             /\ procs[q].pc = "promotes" => With("active") \subseteq procs[q].others \cup {procs[q].id}
    BY DEF ActiveInv
  <1>2. \A q, r \in Procs : procs'[q].op \in Switching /\ procs'[r].op \in Switching => q = r
    BY <1>1 DEF Moves
  <1>3. \A c, d \in With("active")' : c = d
    BY <1>1
  <1>4. ASSUME NEW q \in Procs
        PROVE  /\ procs'[q].pc = "demoting" => With("active")' \subseteq {procs'[q].id}
               /\ procs'[q].pc = "inserts" => With("active")' = {}
               /\ procs'[q].pc = "promotes" => With("active")' \subseteq procs'[q].others \cup {procs'[q].id}
    <2>1. CASE q = p
      <3>1. procs'[p].pc \notin {"demoting", "inserts", "promotes"}
        BY DEF TypeInv, ProcessOK, Creating, Switching
      <3> QED
        BY <2>1, <3>1
    <2>2. CASE q # p
      <3>1. procs'[q] = procs[q]
        BY <2>2 DEF Moves
      <3>2. PICK W : W = With("active")
        OBVIOUS
      <3>3. PICK W2 : W2 = With("active")' /\ W2 \subseteq W
        BY <3>2
      <3> QED
        BY <1>1, <3>1, <3>2, <3>3
    <2> QED
      BY <2>1, <2>2
  <1> QED
    BY <1>2, <1>3, <1>4 DEF ActiveInv

HoldsLock(c) == c.pc \in {"applies", "releases", "unlocks"}

LEMMA LockKept ==
    ASSUME TypeInv, LockInv, NEW p \in Procs, Moves(p, procs'[p]), procs'[p].pc \notin {"locks"},
           history'.crossed = history.crossed, 
           \A c \in DOMAIN cycles, q \in Procs \ {p} :
              cycles[c].holder = <<"cli", q>> => cycles'[c].holder = <<"cli", q>>,
           HoldsLock(procs'[p]) => /\ HoldsLock(procs[p]) /\ procs'[p].id = procs[p].id
                                   /\ cycles'[procs[p].id].holder = cycles[procs[p].id].holder
    PROVE  LockInv'
  <1> SUFFICES ASSUME ~history'.crossed PROVE LockInv'
    BY DEF LockInv
  <1>1. ASSUME NEW q \in Procs, HoldsLock(procs'[q]) PROVE cycles'[procs'[q].id].holder = <<"cli", q>>
    <2>1. HoldsLock(procs[q]) /\ procs'[q].id = procs[q].id
      BY <1>1 DEF Moves
    <2>2. cycles[procs[q].id].holder = <<"cli", q>>
      BY <2>1 DEF LockInv, HoldsLock
    <2>3. procs[q].id \in DOMAIN cycles
      BY <2>1, ProcessAt DEF HoldsLock, ProcessOK, Locking
    <2> QED
      BY <1>1, <2>1, <2>2, <2>3
  <1>2. ASSUME NEW q \in Procs, procs'[q].pc = "locks", NEW r \in Procs \ {q}
        PROVE  procs'[r].pc # "locks" /\ (HoldsLock(procs'[r]) => procs'[r].id # procs'[q].id)
    <2>1. q # p /\ procs'[q] = procs[q] /\ procs[q].pc = "locks"
      BY <1>2 DEF Moves
    <2>2. procs[r].pc # "locks" /\ (HoldsLock(procs[r]) => procs[r].id # procs[q].id)
      BY <2>1 DEF LockInv, HoldsLock
    <2>3. CASE r = p
      BY <2>1, <2>2, <2>3
    <2>4. CASE r # p
      BY <2>1, <2>2, <2>4 DEF Moves
    <2> QED
      BY <2>3, <2>4
  <1> QED
    BY <1>1, <1>2 DEF LockInv, HoldsLock
-----------------------------------------------------------------------------
(* Commands under the cycle lock.                                          *)

LEMMA Rest ==
    /\ Idle.pc = "idle" /\ Idle.op = "none" /\ Idle.pc \notin Leased \cup Taking \cup Locking
    /\ Idle.op \notin Switching \cup Locked
    /\ \A p \in Procs : <<"cli", p>> # Free /\ <<"cli", p>> # Dead
    /\ \A p, q \in Procs : <<"archive", p>> # Free /\ <<"archive", p>> # Dead /\ <<"archive", p>> # <<"cli", q>>
    /\ \A p, q \in Procs : <<"cli", p>> = <<"cli", q>> => p = q
    /\ Free # Dead /\ Free[1] = "none"
  BY IdleOK DEF Leased, Taking, Locking, Switching, Locked, Free, Dead

LEMMA ReadsKeeps ==
    ASSUME IInv, NEW p \in Procs, Reads(p)
    PROVE  TypeInv' /\ Outside(p) /\ ActiveInv' /\ LockInv'
  <1>1. TypeInv /\ ActiveInv /\ LockInv
    BY DEF IInv
  <1>2. /\ TypeInv' /\ UNCHANGED <<cycles, intents, lease, files, env, day>>
        /\ history'.late = history.late /\ history'.sealed = history.sealed /\ history'.deaths = history.deaths
        /\ history'.crossed = (history.crossed \/ Overlaps(p, Locked, {"locks"}))
        /\ history'.raced = history.raced
    BY <1>1, ReadsTo
  <1>3. PICK d \in Process :
                /\ Moves(p, d) /\ procs[p].pc = "idle"
                /\ d.op \in Locked /\ d.pc = "locks" /\ d.id \in DOMAIN cycles /\ cycles[d.id].holder = Free
    BY <1>1, ReadsTo
  <1>4. procs'[p] = d /\ d.op \notin Switching
    BY <1>3 DEF Moves, Locked, Switching
  <1>5. Outside(p)
    BY <1>1, <1>2, <1>3, <1>4, SameFiles DEF Outside, Leased, ClaimsKept
  <1>6. ActiveInv'
    BY <1>1, <1>2, <1>3, <1>4, ActiveKept DEF With
  <1>7. ASSUME ~history'.crossed PROVE LockInv'
    <2>1. ~history.crossed /\ ~Overlaps(p, Locked, {"locks"})
      BY <1>1, <1>2, <1>7 DEF TypeInv
    <2>2. \A q \in Procs \ {p} : procs[q].pc # "locks"
      <3>1. ASSUME NEW q \in Procs \ {p}, procs[q].pc = "locks" PROVE FALSE
        <4>1. procs[q].op \in Locked
          BY <1>1, <3>1, ProcessAt DEF ProcessOK, Locking
        <4> QED
          BY <2>1, <3>1, <4>1 DEF Overlaps
      <3> QED
        BY <3>1
    <2>3. \A q \in Procs : HoldsLock(procs[q]) => cycles[procs[q].id].holder = <<"cli", q>>
      BY <1>1, <2>1 DEF LockInv, HoldsLock
    <2>4. \A q \in Procs : HoldsLock(procs'[q]) => q # p /\ cycles'[procs'[q].id].holder = <<"cli", q>>
      BY <1>2, <1>3, <1>4, <2>3 DEF Moves, HoldsLock
    <2>5. ASSUME NEW q \in Procs, procs'[q].pc = "locks", NEW r \in Procs \ {q}
          PROVE  procs'[r].pc # "locks" /\ (HoldsLock(procs'[r]) => procs'[r].id # procs'[q].id)
      <3>1. q = p /\ procs'[r] = procs[r] /\ procs'[q] = d
        BY <1>3, <1>4, <2>2, <2>5 DEF Moves
      <3>2. procs[r].pc # "locks"
        BY <2>2, <2>5, <3>1
      <3>3. HoldsLock(procs[r]) => procs[r].id # d.id
        BY <1>3, <2>3, Rest
      <3> QED
        BY <3>1, <3>2, <3>3
    <2> QED
      BY <2>4, <2>5 DEF LockInv, HoldsLock
  <1> QED
    BY <1>2, <1>5, <1>6, <1>7 DEF LockInv

LEMMA LocksKeeps ==
    ASSUME IInv, NEW p \in Procs, Locks(p)
    PROVE  TypeInv' /\ Outside(p) /\ ActiveInv' /\ LockInv'
  <1>1. TypeInv /\ ActiveInv /\ LockInv
    BY DEF IInv
  <1>2. PICK id \in DOMAIN cycles : id = procs[p].id
    BY <1>1, LocksTo
  <1>3. /\ TypeInv' /\ UNCHANGED <<intents, lease, files, env, day, history>>
        /\ At2(p, "locks", "applies")
        /\ cycles'[id].holder = <<"cli", p>> /\ DOMAIN cycles' = DOMAIN cycles
        /\ \A o \in DOMAIN cycles \ {id} : cycles'[o] = cycles[o]
        /\ \A o \in DOMAIN cycles : cycles'[o].status = cycles[o].status
    BY <1>1, <1>2, LocksTo
  <1>4. /\ Moves(p, procs'[p]) /\ procs[p].pc = "locks" /\ procs'[p].pc = "applies" /\ procs'[p].id = id
        /\ procs'[p].op = procs[p].op
    BY <1>1, <1>2, <1>3, ProcessAt DEF At2, Moves, Process
  <1>5. procs'[p].op \notin Switching
    BY <1>1, <1>4, ProcessAt DEF ProcessOK, Switching, Locked, Locking
  <1>6. Outside(p)
    BY <1>1, <1>3, <1>4, SameFiles, Rest DEF Outside, Leased, ClaimsKept
  <1>7. ActiveInv'
    BY <1>1, <1>3, <1>4, <1>5, ActiveKept DEF With
  <1>8. ASSUME ~history'.crossed PROVE LockInv'
    <2>1. ~history.crossed
      BY <1>3, <1>8
    <2>2. \A r \in Procs \ {p} : procs[r].pc # "locks" /\ (HoldsLock(procs[r]) => procs[r].id # id)
      BY <1>1, <1>2, <1>4, <2>1 DEF LockInv, HoldsLock
    <2>3. ASSUME NEW q \in Procs, HoldsLock(procs'[q]) PROVE cycles'[procs'[q].id].holder = <<"cli", q>>
      <3>1. CASE q = p
        BY <1>3, <1>4, <3>1
      <3>2. CASE q # p
        <4>1. procs'[q] = procs[q] /\ HoldsLock(procs[q]) /\ procs[q].id # id
          BY <1>4, <2>2, <2>3, <3>2 DEF Moves
        <4>2. cycles[procs[q].id].holder = <<"cli", q>> /\ procs[q].id \in DOMAIN cycles
          BY <1>1, <2>1, <4>1, ProcessAt DEF LockInv, HoldsLock, ProcessOK, Locking
        <4> QED
          BY <1>3, <4>1, <4>2
      <3> QED
        BY <3>1, <3>2
    <2>4. \A q \in Procs : procs'[q].pc # "locks"
      BY <1>4, <2>2 DEF Moves
    <2> QED
      BY <2>3, <2>4 DEF LockInv, HoldsLock
  <1> QED
    BY <1>3, <1>6, <1>7, <1>8 DEF LockInv

LEMMA AppliesKeeps ==
    ASSUME IInv, NEW p \in Procs, Applies(p)
    PROVE  TypeInv' /\ Outside(p) /\ ActiveInv' /\ LockInv'
  <1>1. TypeInv /\ ActiveInv /\ LockInv
    BY DEF IInv
  <1>3. /\ TypeInv' /\ UNCHANGED <<intents, lease, files, env, day, history>>
        /\ At2(p, "applies", "releases") /\ DOMAIN cycles' = DOMAIN cycles
        /\ \A o \in DOMAIN cycles : /\ cycles'[o].holder = cycles[o].holder
                                    /\ cycles'[o].status = "active" => cycles[o].status = "active"
    BY <1>1, AppliesTo
  <1>4. /\ Moves(p, procs'[p]) /\ procs[p].pc = "applies" /\ procs'[p].pc = "releases" /\ procs'[p].id = procs[p].id
        /\ procs'[p].op = procs[p].op
    BY <1>1, <1>3, ProcessAt DEF At2, Moves, Process
  <1>5. procs'[p].op \notin Switching /\ procs[p].id \in DOMAIN cycles
    BY <1>1, <1>4, ProcessAt DEF ProcessOK, Switching, Locked, Locking
  <1>6. Outside(p)
    BY <1>1, <1>3, <1>4, SameFiles, Rest DEF Outside, Leased, ClaimsKept
  <1>7. ActiveInv'
    BY <1>1, <1>3, <1>4, <1>5, ActiveKept DEF With
  <1>8. LockInv'
    BY <1>1, <1>3, <1>4, <1>5, LockKept DEF HoldsLock
  <1> QED
    BY <1>3, <1>6, <1>7, <1>8

LEMMA ReadsLockKeeps ==
    ASSUME IInv, NEW p \in Procs, ReadsLock(p)
    PROVE  TypeInv' /\ Outside(p) /\ ActiveInv' /\ LockInv'
  <1>1. TypeInv /\ ActiveInv /\ LockInv
    BY DEF IInv
  <1>3. /\ TypeInv' /\ UNCHANGED <<cycles, intents, lease, files, env, day, history>>
        /\ procs[p].pc = "releases"
        /\ Moves(p, Idle) \/ At2(p, "releases", "unlocks")
    BY <1>1, ReadsLockTo
  <1>4. /\ Moves(p, procs'[p])
        /\ procs'[p] = Idle \/ (procs'[p].pc = "unlocks" /\ procs'[p].id = procs[p].id /\ procs'[p].op = procs[p].op)
    BY <1>1, <1>3, ProcessAt DEF At2, Moves, Process
  <1>5. procs'[p].op \notin Switching /\ procs[p].id \in DOMAIN cycles
    BY <1>1, <1>3, <1>4, Rest, ProcessAt DEF ProcessOK, Switching, Locked, Locking
  <1>6. Outside(p)
    BY <1>1, <1>3, <1>4, SameFiles, Rest DEF Outside, Leased, ClaimsKept
  <1>7. ActiveInv'
    BY <1>1, <1>3, <1>4, <1>5, ActiveKept DEF With
  <1>8. LockInv'
    BY <1>1, <1>3, <1>4, <1>5, Rest, LockKept DEF HoldsLock
  <1> QED
    BY <1>3, <1>6, <1>7, <1>8

LEMMA UnlocksKeeps ==
    ASSUME IInv, NEW p \in Procs, Unlocks(p)
    PROVE  TypeInv' /\ Outside(p) /\ ActiveInv' /\ LockInv'
  <1>1. TypeInv /\ ActiveInv /\ LockInv
    BY DEF IInv
  <1>2. PICK id \in DOMAIN cycles : id = procs[p].id
    BY <1>1, UnlocksTo
  <1>3. /\ TypeInv' /\ UNCHANGED <<intents, lease, files, env, day, history>>
        /\ procs[p].pc = "unlocks" /\ Moves(p, Idle)
        /\ cycles'[id].holder = Free /\ DOMAIN cycles' = DOMAIN cycles
        /\ \A o \in DOMAIN cycles \ {id} : cycles'[o] = cycles[o]
        /\ \A o \in DOMAIN cycles : cycles'[o].status = cycles[o].status
    BY <1>1, <1>2, UnlocksTo
  <1>4. Moves(p, procs'[p]) /\ procs'[p] = Idle
    BY <1>3 DEF Moves
  <1>6. Outside(p)
    BY <1>1, <1>3, <1>4, SameFiles, Rest DEF Outside, Leased, ClaimsKept
  <1>7. ActiveInv'
    BY <1>1, <1>3, <1>4, Rest, ActiveKept DEF With
  <1>8. ASSUME ~history.crossed PROVE LockInv'
    <2>1. \A c \in DOMAIN cycles, q \in Procs \ {p} :
              cycles[c].holder = <<"cli", q>> => cycles'[c].holder = <<"cli", q>>
      <3>1. cycles[id].holder = <<"cli", p>>
        BY <1>1, <1>2, <1>3, <1>8 DEF LockInv
      <3> QED
        BY <1>3, <3>1, Rest
    <2> QED
      BY <1>1, <1>3, <1>4, <2>1, Rest, LockKept DEF HoldsLock
  <1>9. history'.crossed = history.crossed
    BY <1>3
  <1>10. LockInv'
    BY <1>8, <1>9 DEF LockInv
  <1> QED
    BY <1>3, <1>6, <1>7, <1>10
-----------------------------------------------------------------------------
(* Commands that change the active cycle.                                  *)

\* What a command relies on of the active cycle.
KnowsActive(c) ==
    /\ c.pc = "demoting" => With("active") \subseteq {c.id}
    /\ c.pc = "inserts" => With("active") = {}
    /\ c.pc = "promotes" => With("active") \subseteq c.others \cup {c.id}

\* Without a race nobody else changes the active cycle.
LEMMA Alone ==
    ASSUME TypeInv, ActiveInv, ~history.raced, NEW p \in Procs, procs[p].op \in Switching
    PROVE  /\ \A q \in Procs \ {p} : procs[q].op \notin Switching
           /\ KnowsActive(procs[p]) /\ \A c, d \in With("active") : c = d
  BY DEF ActiveInv, KnowsActive

LEMMA SwitchKept ==
    ASSUME TypeInv, NEW p \in Procs, Moves(p, procs'[p]),
           ~history'.raced => /\ \A q \in Procs \ {p} : procs[q].op \notin Switching
                              /\ \A c, d \in With("active")' : c = d
                              /\ KnowsActive(procs[p])'
    PROVE  ActiveInv'
  <1> SUFFICES ASSUME ~history'.raced PROVE ActiveInv'
    BY DEF ActiveInv
  <1>1. \A q \in Procs \ {p} : procs'[q].op \notin Switching /\ procs'[q].pc \notin {"demoting", "inserts", "promotes"}
    <2>1. ASSUME NEW q \in Procs \ {p}
          PROVE  procs'[q].op \notin Switching /\ procs'[q].pc \notin {"demoting", "inserts", "promotes"}
      <3>1. procs'[q] = procs[q] /\ procs[q].op \notin Switching
        BY DEF Moves
      <3> QED
        BY <3>1, ProcessAt DEF ProcessOK, Creating, Switching
    <2> QED
      BY <2>1
  <1>2. \A q, r \in Procs : procs'[q].op \in Switching /\ procs'[r].op \in Switching => q = r
    BY <1>1
  <1>3. ASSUME NEW q \in Procs
        PROVE  /\ procs'[q].pc = "demoting" => With("active")' \subseteq {procs'[q].id}
               /\ procs'[q].pc = "inserts" => With("active")' = {}
               /\ procs'[q].pc = "promotes" => With("active")' \subseteq procs'[q].others \cup {procs'[q].id}
    <2>1. CASE q = p
      BY <2>1 DEF KnowsActive
    <2>2. CASE q # p
      BY <1>1, <2>2
    <2> QED
      BY <2>1, <2>2
  <1> QED
    BY <1>2, <1>3 DEF ActiveInv

\* A command that starts is the only one that changes the active cycle.
LEMMA StartsAlone ==
    ASSUME TypeInv, ActiveInv, NEW p \in Procs, procs[p].pc = "idle", 
           history'.raced = (history.raced \/ Overlaps(p, Switching, Steps)), ~history'.raced
    PROVE  /\ ~history.raced /\ \A q \in Procs \ {p} : procs[q].op \notin Switching
           /\ \A c, d \in With("active") : c = d
  <1>1. ~history.raced /\ ~Overlaps(p, Switching, Steps)
    BY DEF TypeInv
  <1>2. \A q \in Procs \ {p} : procs[q].pc \in Steps
    BY ProcessAt DEF Process
  <1> QED
    BY <1>1, <1>2 DEF Overlaps, ActiveInv

\* The locks are those the rows had, and the command has none.
LEMMA NoLocks ==
    ASSUME TypeInv, LockInv, NEW p \in Procs, Moves(p, procs'[p]), procs'[p].pc \notin Locking,
           history'.crossed = history.crossed, DOMAIN cycles \subseteq DOMAIN cycles',
           \A c \in DOMAIN cycles : cycles'[c].holder = cycles[c].holder
    PROVE  LockInv' /\ ClaimsKept
  <1>1. procs'[p].pc # "locks" /\ ~HoldsLock(procs'[p])
    BY DEF Locking, HoldsLock
  <1>2. LockInv'
    BY <1>1, LockKept
  <1> QED
    BY <1>2 DEF ClaimsKept

LEMMA StartsNewKeeps ==
    ASSUME IInv, NEW p \in Procs, StartsNew(p)
    PROVE  TypeInv' /\ Outside(p) /\ ActiveInv' /\ LockInv'
  <1>1. TypeInv /\ ActiveInv /\ LockInv
    BY DEF IInv
  <1>2. /\ TypeInv' /\ UNCHANGED <<cycles, intents, lease, files, env, day>>
        /\ history'.late = history.late /\ history'.sealed = history.sealed /\ history'.deaths = history.deaths
        /\ history'.crossed = history.crossed
        /\ history'.raced = (history.raced \/ Overlaps(p, Switching, Steps))
    BY <1>1, StartsNewTo
  <1>3. PICK d \in Process : Moves(p, d) /\ procs[p].pc = "idle" /\ d.op = "new" /\ d.pc = "prepares"
    BY <1>1, StartsNewTo
  <1>4. procs'[p] = d /\ Moves(p, procs'[p])
    BY <1>3 DEF Moves
  <1>5. LockInv' /\ ClaimsKept
    BY <1>1, <1>2, <1>3, <1>4, NoLocks DEF Locking
  <1>6. Outside(p)
    BY <1>1, <1>2, <1>3, <1>4, <1>5, SameFiles DEF Outside, Leased
  <1>7. ~history'.raced => /\ \A q \in Procs \ {p} : procs[q].op \notin Switching
                           /\ \A c, e \in With("active") : c = e
    BY <1>1, <1>2, <1>3, StartsAlone
  <1>8. KnowsActive(procs[p])'
    BY <1>3, <1>4 DEF KnowsActive
  <1>9. With("active")' = With("active")
    BY <1>2 DEF With
  <1>10. ActiveInv'
    BY <1>1, <1>4, <1>7, <1>8, <1>9, SwitchKept
  <1> QED
    BY <1>2, <1>5, <1>6, <1>10

LEMMA StartsResumeKeeps ==
    ASSUME IInv, NEW p \in Procs, StartsResume(p)
    PROVE  TypeInv' /\ Outside(p) /\ ActiveInv' /\ LockInv'
  <1>1. TypeInv /\ ActiveInv /\ LockInv
    BY DEF IInv
  <1>2. /\ TypeInv' /\ UNCHANGED <<cycles, intents, lease, files, env, day>>
        /\ history'.late = history.late /\ history'.sealed = history.sealed /\ history'.deaths = history.deaths
        /\ history'.crossed = history.crossed
        /\ history'.raced = (history.raced \/ Overlaps(p, Switching, Steps))
    BY <1>1, StartsResumeTo
  <1>3. PICK d \in Process : /\ Moves(p, d) /\ procs[p].pc = "idle" /\ d.op = "resume" /\ d.pc = "promotes"
                             /\ With("active") \subseteq d.others \cup {d.id}
    BY <1>1, StartsResumeTo
  <1>4. procs'[p] = d /\ Moves(p, procs'[p])
    BY <1>3 DEF Moves
  <1>5. LockInv' /\ ClaimsKept
    BY <1>1, <1>2, <1>3, <1>4, NoLocks DEF Locking
  <1>6. Outside(p)
    BY <1>1, <1>2, <1>3, <1>4, <1>5, SameFiles DEF Outside, Leased
  <1>7. ~history'.raced => /\ \A q \in Procs \ {p} : procs[q].op \notin Switching
                           /\ \A c, e \in With("active") : c = e
    BY <1>1, <1>2, <1>3, StartsAlone
  <1>8. With("active")' = With("active")
    BY <1>2 DEF With
  <1>9. KnowsActive(procs[p])'
    BY <1>3, <1>4, <1>8 DEF KnowsActive
  <1>10. ActiveInv'
    BY <1>1, <1>4, <1>7, <1>8, <1>9, SwitchKept
  <1> QED
    BY <1>2, <1>5, <1>6, <1>10

\* A command that goes on.
LEMMA GoesOn ==
    ASSUME TypeInv, LockInv, ActiveInv, NEW p \in Procs, procs[p].op \in Switching, Moves(p, procs'[p]),
           procs'[p].pc \notin Locking \cup Leased,
           UNCHANGED <<intents, lease, env, history>>, FilesGrow({Config}), DOMAIN cycles \subseteq DOMAIN cycles',
           \A c \in DOMAIN cycles : cycles'[c].holder = cycles[c].holder,
           ~history.raced /\ KnowsActive(procs[p]) /\ (\A c, e \in With("active") : c = e)
             => KnowsActive(procs[p])' /\ (\A c, e \in With("active")' : c = e)
    PROVE  Outside(p) /\ ActiveInv' /\ LockInv'
  <1>1. LockInv' /\ ClaimsKept
    BY NoLocks
  <1>2. procs[p].pc \notin Leased
    BY ProcessAt DEF ProcessOK, Switching, Archiving
  <1>3. Outside(p)
    BY <1>1, <1>2 DEF Outside
  <1>4. ~history.raced => /\ \A q \in Procs \ {p} : procs[q].op \notin Switching
                          /\ KnowsActive(procs[p]) /\ \A c, e \in With("active") : c = e
    BY Alone
  <1>5. history'.raced = history.raced
    OBVIOUS
  <1>6. ActiveInv'
    BY <1>4, <1>5, SwitchKept
  <1> QED
    BY <1>1, <1>3, <1>6

LEMMA CreatesKeeps ==
    ASSUME IInv, NEW p \in Procs, Prepares(p) \/ Numbers(p) \/ ReadsPrevious(p)
    PROVE  TypeInv' /\ Outside(p) /\ ActiveInv' /\ LockInv'
  <1>1. TypeInv /\ ActiveInv /\ LockInv
    BY DEF IInv
  <1>2. /\ TypeInv' /\ UNCHANGED <<cycles, intents, lease, env, day, history>>
        /\ procs[p].pc \in Creating /\ Moves(p, procs'[p]) /\ FilesGrow({Config})
    BY <1>1, PreparesTo, NumbersTo, ReadsPreviousTo, SameFiles DEF Creating
  <1>3. \/ procs'[p].pc \in {"numbers", "demotes"}
        \/ procs'[p].pc = "inserts" /\ With("active") = {}
        \/ procs'[p].pc = "demoting" /\ procs'[p].id \in With("active")
    BY <1>1, PreparesTo, NumbersTo, ReadsPreviousTo, ActiveIn
  <1>4. With("active")' = With("active") /\ procs[p].op \in Switching
    BY <1>1, <1>2, ProcessAt DEF With, ProcessOK, Switching
  <1>5. (\A c, e \in With("active") : c = e) => KnowsActive(procs[p])'
    BY <1>3, <1>4 DEF KnowsActive
  <1>6. procs'[p].pc \notin Locking \cup Leased
    BY <1>3 DEF Locking, Leased
  <1>7. Outside(p) /\ ActiveInv' /\ LockInv'
    BY <1>1, <1>2, <1>4, <1>5, <1>6, GoesOn
  <1> QED
    BY <1>2, <1>7

LEMMA DemotesKeeps ==
    ASSUME IInv, NEW p \in Procs, Demotes(p)
    PROVE  TypeInv' /\ Outside(p) /\ ActiveInv' /\ LockInv'
  <1>1. TypeInv /\ ActiveInv /\ LockInv
    BY DEF IInv
  <1>2. /\ TypeInv' /\ UNCHANGED <<intents, lease, files, env, day, history>>
        /\ procs[p].pc = "demoting" /\ Moves(p, procs'[p]) /\ procs'[p].op = "new" /\ procs'[p].pc = "inserts"
        /\ DOMAIN cycles' = DOMAIN cycles /\ cycles'[procs[p].id].status = "archived"
        /\ \A o \in DOMAIN cycles \ {procs[p].id} : cycles'[o] = cycles[o]
        /\ \A o \in DOMAIN cycles : cycles'[o].holder = cycles[o].holder
    BY <1>1, DemotesTo
  <1>3. procs[p].op \in Switching /\ FilesGrow({Config}) /\ procs'[p].pc \notin Locking \cup Leased
    BY <1>1, <1>2, ProcessAt, SameFiles DEF ProcessOK, Switching, Creating, Locking, Leased
  <1>4. KnowsActive(procs[p]) => With("active")' = {}
    BY <1>2 DEF KnowsActive, With
  <1>5. KnowsActive(procs[p]) => KnowsActive(procs[p])'
    BY <1>2, <1>4 DEF KnowsActive
  <1>6. Outside(p) /\ ActiveInv' /\ LockInv'
    BY <1>1, <1>2, <1>3, <1>4, <1>5, GoesOn
  <1> QED
    BY <1>2, <1>6

LEMMA InsertsKeeps ==
    ASSUME IInv, NEW p \in Procs, Inserts(p)
    PROVE  TypeInv' /\ Outside(p) /\ ActiveInv' /\ LockInv'
  <1>1. TypeInv /\ ActiveInv /\ LockInv
    BY DEF IInv
  <1>2. /\ TypeInv' /\ UNCHANGED <<intents, lease, files, env, day, history>>
        /\ procs[p].pc = "inserts" /\ Moves(p, Idle)
        /\ DOMAIN cycles' = DOMAIN cycles \cup {Len(cycles) + 1}
        /\ \A o \in DOMAIN cycles : cycles'[o] = cycles[o]
    BY <1>1, InsertsTo
  <1>3. procs'[p] = Idle /\ Moves(p, procs'[p])
    BY <1>2 DEF Moves
  <1>4. procs[p].op \in Switching /\ FilesGrow({Config}) /\ procs'[p].pc \notin Locking \cup Leased
    BY <1>1, <1>2, <1>3, ProcessAt, SameFiles, Rest DEF ProcessOK, Switching, Creating
  <1>5. KnowsActive(procs[p]) => With("active")' \subseteq {Len(cycles) + 1}
    BY <1>2 DEF KnowsActive, With
  <1>6. KnowsActive(procs[p])'
    BY <1>3, Rest DEF KnowsActive
  <1>7. Outside(p) /\ ActiveInv' /\ LockInv'
    BY <1>1, <1>2, <1>3, <1>4, <1>5, <1>6, GoesOn
  <1> QED
    BY <1>2, <1>7

LEMMA DemotesOtherKeeps ==
    ASSUME IInv, NEW p \in Procs, DemotesOther(p)
    PROVE  TypeInv' /\ Outside(p) /\ ActiveInv' /\ LockInv'
  <1>1. TypeInv /\ ActiveInv /\ LockInv
    BY DEF IInv
  <1>2. /\ TypeInv' /\ UNCHANGED <<intents, lease, files, env, day, history>>
        /\ procs[p].pc = "promotes" /\ Moves(p, procs'[p])
        /\ procs'[p].op = "resume" /\ procs'[p].pc = "promotes" /\ procs'[p].id = procs[p].id
        /\ DOMAIN cycles' = DOMAIN cycles
        /\ \A o \in DOMAIN cycles : cycles'[o].holder = cycles[o].holder
    BY <1>1, DemotesOtherTo
  <1>3. PICK c \in procs[p].others :
                /\ procs'[p].others = procs[p].others \ {c} /\ cycles'[c].status = "archived"
                /\ \A o \in DOMAIN cycles \ {c} : cycles'[o] = cycles[o]
    BY <1>1, DemotesOtherTo
  <1>4. procs[p].op \in Switching /\ FilesGrow({Config}) /\ procs'[p].pc \notin Locking \cup Leased
    BY <1>1, <1>2, ProcessAt, SameFiles DEF ProcessOK, Switching, Creating, Locking, Leased
  <1>5. With("active")' \subseteq With("active") \ {c}
    BY <1>2, <1>3 DEF With
  <1>6. KnowsActive(procs[p]) => KnowsActive(procs[p])'
    BY <1>2, <1>3, <1>5 DEF KnowsActive
  <1>7. Outside(p) /\ ActiveInv' /\ LockInv'
    BY <1>1, <1>2, <1>4, <1>5, <1>6, GoesOn
  <1> QED
    BY <1>2, <1>7

LEMMA PromotesKeeps ==
    ASSUME IInv, NEW p \in Procs, Promotes(p)
    PROVE  TypeInv' /\ Outside(p) /\ ActiveInv' /\ LockInv'
  <1>1. TypeInv /\ ActiveInv /\ LockInv
    BY DEF IInv
  <1>2. /\ TypeInv' /\ UNCHANGED <<intents, lease, files, env, day, history>>
        /\ procs[p].pc = "promotes" /\ procs[p].others = {} /\ Moves(p, Idle)
        /\ procs[p].id \in DOMAIN cycles /\ DOMAIN cycles' = DOMAIN cycles
        /\ \A o \in DOMAIN cycles \ {procs[p].id} : cycles'[o] = cycles[o]
        /\ \A o \in DOMAIN cycles : cycles'[o].holder = cycles[o].holder
    BY <1>1, PromotesTo
  <1>3. procs'[p] = Idle /\ Moves(p, procs'[p])
    BY <1>2 DEF Moves
  <1>4. procs[p].op \in Switching /\ FilesGrow({Config}) /\ procs'[p].pc \notin Locking \cup Leased
    BY <1>1, <1>2, <1>3, ProcessAt, SameFiles, Rest DEF ProcessOK, Switching, Creating
  <1>5. KnowsActive(procs[p]) => With("active")' \subseteq {procs[p].id}
    BY <1>2 DEF KnowsActive, With
  <1>6. KnowsActive(procs[p])'
    BY <1>3, Rest DEF KnowsActive
  <1>7. Outside(p) /\ ActiveInv' /\ LockInv'
    BY <1>1, <1>2, <1>3, <1>4, <1>5, <1>6, GoesOn
  <1> QED
    BY <1>2, <1>7
-----------------------------------------------------------------------------
(* Archives.                                                               *)

\* The effects of an archive's step on the rows and on what the others know.
LEMMA ApartKeeps ==
    ASSUME TypeInv, TypeInv', ActiveInv, LockInv, NEW p \in Procs, Moves(p, procs'[p]),
           procs'[p].op \in {"archive", "none"},
           history'.crossed = history.crossed, history'.raced = history.raced,
           DOMAIN cycles' = DOMAIN cycles,
           \A c \in DOMAIN cycles :
              /\ cycles'[c].status = "active" => cycles[c].status = "active"
              /\ \A q \in Procs \ {p} : cycles[c].holder = <<"cli", q>> => cycles'[c].holder = <<"cli", q>>
    PROVE  ActiveInv' /\ LockInv'
  <1>1. procs'[p].op \notin Switching \cup Locked
    BY DEF Switching, Locked
  <1>2. procs'[p].pc \notin Locking
    <2>1. ProcessOK(procs[p])'
      BY DEF TypeInv
    <2> QED
      BY <1>1, <2>1 DEF ProcessOK
  <1>3. With("active")' \subseteq With("active")
    BY DEF With
  <1>4. ActiveInv'
    BY <1>1, <1>3, ActiveKept
  <1>5. procs'[p].pc # "locks" /\ ~HoldsLock(procs'[p])
    BY <1>2 DEF Locking, HoldsLock
  <1>6. LockInv'
    BY <1>5, LockKept
  <1> QED
    BY <1>4, <1>6

\* A step that leaves the rows alone.
LEMMA RowsAlone ==
    ASSUME TypeInv, TypeInv', ActiveInv, LockInv, NEW p \in Procs, Moves(p, procs'[p]),
           procs'[p].op \in {"archive", "none"}, UNCHANGED <<cycles, history>>
    PROVE  ActiveInv' /\ LockInv'
  BY ApartKeeps

\* A step that changes at most who holds a row.
LEMMA RowsRelocked ==
    ASSUME TypeInv, TypeInv', ActiveInv, LockInv, NEW p \in Procs, Moves(p, procs'[p]),
           procs'[p].op \in {"archive", "none"}, UNCHANGED history, NEW c \in DOMAIN cycles, Relocks(c),
           \A q \in Procs : cycles[c].holder # <<"cli", q>>
    PROVE  ActiveInv' /\ LockInv'
  <1>1. \A o \in DOMAIN cycles :
              /\ cycles'[o].status = "active" => cycles[o].status = "active"
              /\ \A q \in Procs \ {p} : cycles[o].holder = <<"cli", q>> => cycles'[o].holder = <<"cli", q>>
    BY DEF Relocks
  <1>2. DOMAIN cycles' = DOMAIN cycles
    BY DEF Relocks
  <1> QED
    BY <1>1, <1>2, ApartKeeps

LEMMA StartsArchiveKeeps ==
    ASSUME IInv, NEW p \in Procs, StartsArchive(p)
    PROVE  TypeInv' /\ Outside(p) /\ ActiveInv' /\ LockInv'
  <1>1. TypeInv /\ ActiveInv /\ LockInv
    BY DEF IInv
  <1>2. /\ TypeInv' /\ UNCHANGED <<cycles, intents, lease, files, env, day>>
        /\ history'.late = history.late /\ history'.sealed = history.sealed /\ history'.deaths = history.deaths
        /\ history'.crossed = history.crossed /\ history'.raced = history.raced
    BY <1>1, StartsArchiveTo
  <1>3. PICK d \in Process : Moves(p, d) /\ procs[p].pc = "idle" /\ d.op = "archive" /\ d.pc = "leases"
    BY <1>1, StartsArchiveTo
  <1>4. procs'[p] = d /\ Moves(p, procs'[p])
    BY <1>3 DEF Moves
  <1>5. Outside(p)
    BY <1>1, <1>2, <1>3, <1>4, SameFiles DEF Outside, Leased, ClaimsKept
  <1>6. ActiveInv' /\ LockInv'
    BY <1>1, <1>2, <1>3, <1>4, ApartKeeps
  <1> QED
    BY <1>2, <1>5, <1>6

LEMMA OpenSafeStoreKeeps ==
    ASSUME IInv, NEW p \in Procs, OpenSafeStore(p)
    PROVE  IInv'
  <1>1. TypeInv /\ LeaseInv /\ MovesAreRecorded /\ MoveInv /\ SealInv /\ IdeaInv /\ ActiveInv /\ LockInv
    BY DEF IInv
  <1>2. /\ TypeInv' /\ UNCHANGED <<cycles, intents, files, env, day, history>>
        /\ \/ lease = NoProc /\ lease' = p /\ Continues(p, "leases", "recovers")
           \/ procs[p].pc = "leases" /\ UNCHANGED lease /\ Moves(p, Idle)
    BY <1>1, OpenSafeStoreTo
  <1>3. Moves(p, procs'[p]) /\ procs'[p].op \in {"archive", "none"} /\ procs[p].pc = "leases"
    BY <1>1, <1>2, ArchivesOne, Rest DEF Continues, Moves, Archiving
  <1>4. procs'[p].pc \notin Taking /\ (procs'[p].pc \in Leased => lease = NoProc /\ lease' = p)
    BY <1>2, Rest DEF Continues, Moves, Taking
  <1>5. LeaseInv'
    BY <1>1, <1>2, <1>3, <1>4, LeaseKept
  <1>6. MovesAreRecorded'
    BY <1>1, <1>2, RecordedKept
  <1>7. procs'[p].pc \notin {"records", "moves", "recreates", "finalizes"} /\ procs[p].pc \notin Taking
    BY <1>3, <1>4 DEF Taking
  <1>8. FilesGrow({}) /\ ClaimsKept
    BY <1>1, <1>2, SameFiles DEF ClaimsKept
  <1>9. MoveInv'
    BY <1>1, <1>2, <1>3, <1>7, <1>8, MoveKept
  <1>10. SealInv'
    BY <1>1, <1>2, <1>3, <1>7, <1>8, SealKept
  <1>11. IdeaInv'
    BY <1>1, <1>2, <1>3, <1>7, IdeaKept DEF Away
  <1>12. ActiveInv' /\ LockInv'
    BY <1>1, <1>2, <1>3, RowsAlone
  <1> QED
    BY <1>2, <1>5, <1>6, <1>9, <1>10, <1>11, <1>12 DEF IInv

\* What a step within the lease leaves to show.
LEMMA LeasedKeeps ==
    ASSUME IInv, TypeInv', NEW p \in Procs, procs[p].pc \in Leased, Moves(p, procs'[p]),
           UNCHANGED lease \/ procs'[p].pc \notin Leased,
           MovesAreRecorded',
           procs'[p].pc \in {"records", "moves"} =>
              /\ files'.current # NoDir /\ files'.archive[procs'[p].dest] = NoDir
              /\ procs'[p].pc = "moves" => <<procs'[p].id, procs'[p].dest, files'.current.ino>> \in intents',
           procs'[p].pc \in {"recreates", "finalizes"} =>
             (Claimed(p)' /\ procs'[p].id \in files'.current.has => procs'[p].id \in history'.late),
           history'.deaths = 0 /\ history'.sealed = {} => history.deaths = 0 /\ history.sealed = {},
           \/ /\ Away' = Away
              /\ procs[p].pc \in Taking => procs'[p].pc \in Taking /\ procs'[p].plan = procs[p].plan
           \/ procs[p].pc \in Taking /\ Away' \subseteq Away \ procs[p].plan
    PROVE  LeaseInv' /\ MovesAreRecorded' /\ MoveInv' /\ SealInv' /\ IdeaInv'
  <1>1. TypeInv /\ LeaseInv /\ MoveInv /\ SealInv /\ IdeaInv /\ lease = p
    BY OneArchives DEF IInv
  <1>2. LeaseInv'
    BY <1>1, LeaseKept
  <1>3. MoveInv'
    BY <1>1, MoveKept
  <1>4. SealInv'
    <2>1. Ids \cap {} = {}
      OBVIOUS
    <2> QED
      BY <1>1, <2>1, SealKept
  <1>5. IdeaInv'
    BY <1>1, IdeaKept
  <1> QED
    BY <1>2, <1>3, <1>4, <1>5

\* A step before notes or directories move.
LEMMA EarlyKeeps ==
    ASSUME IInv, TypeInv', NEW p \in Procs, procs[p].pc \in Leased \ Taking, Moves(p, procs'[p]),
           UNCHANGED lease \/ procs'[p].pc \notin Leased,
           UNCHANGED <<intents, files, history>>, env'.idea = env.idea, env'.archived = env.archived,
           DOMAIN cycles' = DOMAIN cycles,
           procs'[p].pc \notin {"records", "moves", "recreates", "finalizes"}
    PROVE  LeaseInv' /\ MovesAreRecorded' /\ MoveInv' /\ SealInv' /\ IdeaInv'
  <1>1. MovesAreRecorded'
    BY RecordedKept DEF IInv
  <1>2. Away' = Away
    BY DEF Away
  <1> QED
    BY <1>1, <1>2, LeasedKeeps

LEMMA RecoverArchiveLockKeeps ==
    ASSUME IInv, NEW p \in Procs, RecoverArchiveLock(p)
    PROVE  IInv'
  <1>1. TypeInv /\ ActiveInv /\ LockInv
    BY DEF IInv
  <1>2. PICK c \in DOMAIN cycles : c = procs[p].id
    BY <1>1, RecoverArchiveLockTo
  <1>3. /\ TypeInv' /\ UNCHANGED <<intents, lease, files, env, day, history>>
        /\ Continues(p, "recovers", "claims") /\ Relocks(c)
        /\ UNCHANGED cycles \/ (cycles[c].holder[1] = "archive" /\ cycles'[c].holder = Free)
    BY <1>1, <1>2, RecoverArchiveLockTo
  <1>4. Moves(p, procs'[p]) /\ procs'[p].op = "archive" /\ procs[p].pc = "recovers" /\ procs'[p].pc = "claims"
    BY <1>1, <1>3, ArchivesOne DEF Continues, Archiving, Leased
  <1>5. procs[p].pc \in Leased \ Taking
    BY <1>4 DEF Leased, Taking
  <1>6. LeaseInv' /\ MovesAreRecorded' /\ MoveInv' /\ SealInv' /\ IdeaInv'
    BY <1>3, <1>4, <1>5, EarlyKeeps DEF Relocks
  <1>7. ActiveInv' /\ LockInv'
    <2>1. CASE UNCHANGED cycles
      BY <1>1, <1>3, <1>4, <2>1, RowsAlone
    <2>2. CASE cycles[c].holder[1] = "archive"
      BY <1>1, <1>3, <1>4, <2>2, RowsRelocked
    <2> QED
      BY <1>3, <2>1, <2>2
  <1> QED
    BY <1>3, <1>6, <1>7 DEF IInv

LEMMA AcquireArchiveLockKeeps ==
    ASSUME IInv, NEW p \in Procs, AcquireArchiveLock(p)
    PROVE  IInv'
  <1>1. TypeInv /\ ActiveInv /\ LockInv
    BY DEF IInv
  <1>2. PICK c \in DOMAIN cycles : c = procs[p].id
    BY <1>1, AcquireArchiveLockTo
  <1>3. /\ TypeInv' /\ UNCHANGED <<intents, files, env, day, history>>
        /\ procs[p].pc = "claims"
        /\ \/ /\ Continues(p, "claims", "openspec") /\ UNCHANGED lease /\ Relocks(c)
              /\ cycles[c].holder = Free
           \/ UNCHANGED cycles /\ lease' = NoProc /\ Moves(p, Idle)
    BY <1>1, <1>2, AcquireArchiveLockTo
  <1>4. Moves(p, procs'[p]) /\ procs'[p].op \in {"archive", "none"} /\ procs'[p].pc \in {"openspec", "idle"}
    BY <1>1, <1>3, ArchivesOne, Rest DEF Continues, Moves, Archiving, Leased
  <1>5. UNCHANGED lease \/ procs'[p].pc \notin Leased
    BY <1>3, Rest DEF Moves
  <1>6. procs[p].pc \in Leased \ Taking /\ DOMAIN cycles' = DOMAIN cycles
    BY <1>3 DEF Leased, Taking, Relocks
  <1>7. LeaseInv' /\ MovesAreRecorded' /\ MoveInv' /\ SealInv' /\ IdeaInv'
    BY <1>3, <1>4, <1>5, <1>6, EarlyKeeps
  <1>8. ActiveInv' /\ LockInv'
    <2>1. CASE UNCHANGED cycles
      BY <1>1, <1>3, <1>4, <2>1, RowsAlone
    <2>2. CASE Relocks(c) /\ cycles[c].holder = Free
      BY <1>1, <1>3, <1>4, <2>2, RowsRelocked, Rest
    <2> QED
      BY <1>3, <2>1, <2>2
  <1> QED
    BY <1>3, <1>7, <1>8 DEF IInv

LEMMA ArchiveOpenspecKeeps ==
    ASSUME IInv, NEW p \in Procs, ArchiveOpenspec(p)
    PROVE  IInv'
  <1>1. TypeInv /\ ActiveInv /\ LockInv
    BY DEF IInv
  <1>2. /\ TypeInv' /\ UNCHANGED <<cycles, intents, lease, files, day, history>>
        /\ Continues(p, "openspec", "plans") \/ Continues(p, "openspec", "ends")
        /\ env'.idea = env.idea /\ env'.archived = env.archived
    BY <1>1, ArchiveOpenspecTo
  <1>3. /\ Moves(p, procs'[p]) /\ procs'[p].op = "archive" /\ procs[p].pc = "openspec"
        /\ procs'[p].pc \in {"plans", "ends"}
    BY <1>1, <1>2, ArchivesOne DEF Continues, Archiving, Leased
  <1>4. procs[p].pc \in Leased \ Taking
    BY <1>3 DEF Leased, Taking
  <1>5. LeaseInv' /\ MovesAreRecorded' /\ MoveInv' /\ SealInv' /\ IdeaInv'
    BY <1>2, <1>3, <1>4, EarlyKeeps
  <1>6. ActiveInv' /\ LockInv'
    BY <1>1, <1>2, <1>3, RowsAlone
  <1> QED
    BY <1>2, <1>5, <1>6 DEF IInv

LEMMA PrepareIdeaArchiveKeeps ==
    ASSUME IInv, NEW p \in Procs, PrepareIdeaArchive(p)
    PROVE  IInv'
  <1>1. TypeInv /\ ActiveInv /\ LockInv
    BY DEF IInv
  <1>2. /\ TypeInv' /\ UNCHANGED <<cycles, intents, lease, files, env, day, history>>
        /\ procs[p].pc = "plans" /\ procs'[p].pc \in {"ideas", "ends"}
        /\ Moves(p, procs'[p]) /\ procs'[p].op = procs[p].op
    BY <1>1, PrepareIdeaArchiveTo DEF Continues
  <1>3. procs[p].pc \in Leased \ Taking /\ procs[p].op = "archive"
    BY <1>1, <1>2, ArchivesOne DEF Leased, Taking, Archiving
  <1>4. LeaseInv' /\ MovesAreRecorded' /\ MoveInv' /\ SealInv' /\ IdeaInv'
    BY <1>2, <1>3, EarlyKeeps
  <1>5. ActiveInv' /\ LockInv'
    BY <1>1, <1>2, <1>3, RowsAlone
  <1> QED
    BY <1>2, <1>4, <1>5 DEF IInv

\* The archive that has planned what is away goes on taking notes.
LEMMA MoveIdeaKeeps ==
    ASSUME IInv, NEW p \in Procs, MoveIdea(p)
    PROVE  IInv'
  <1>1. TypeInv /\ LeaseInv /\ MovesAreRecorded /\ MoveInv /\ SealInv /\ IdeaInv /\ ActiveInv /\ LockInv
    BY DEF IInv
  <1>2. /\ TypeInv' /\ UNCHANGED <<cycles, intents, lease, files, procs, day, history>>
        /\ procs[p].pc = "ideas" /\ Away' \subseteq Away \cup procs[p].plan
    BY <1>1, MoveIdeaTo
  <1>3. procs[p].pc \in Leased /\ procs[p].pc \in Taking
    BY <1>2 DEF Leased, Taking
  <1>4. IdeaInv'
    <2> SUFFICES ASSUME history'.deaths = 0 /\ history'.sealed = {}
                 PROVE  procs'[p].pc \in Taking /\ Away' \subseteq procs'[p].plan
      BY DEF IdeaInv, Away
    <2>1. Away \subseteq procs[p].plan
      <3>1. \A q \in Procs : procs[q].pc \in Taking => q = p
        BY <1>1, <1>3, OneArchives DEF Taking, Leased
      <3>2. history.deaths = 0 /\ history.sealed = {}
        BY <1>2
      <3> QED
        BY <1>1, <3>1, <3>2 DEF IdeaInv, Away
    <2> QED
      BY <1>2, <1>3, <2>1
  <1>5. LeaseInv' /\ MovesAreRecorded' /\ MoveInv'
    BY <1>1, <1>2 DEF LeaseInv, MovesAreRecorded, MoveInv
  <1>6. SealInv'
    BY <1>1, <1>2 DEF SealInv, Claimed, Held
  <1>7. ActiveInv'
    BY <1>1, <1>2 DEF ActiveInv, With
  <1>8. LockInv'
    BY <1>1, <1>2 DEF LockInv
  <1> QED
    BY <1>2, <1>4, <1>5, <1>6, <1>7, <1>8 DEF IInv

\* An archive's step within the lease that leaves the rows alone.
LEMMA TakesKeeps ==
    ASSUME IInv, TypeInv', NEW p \in Procs, procs[p].pc \in Taking, Moves(p, procs'[p]),
           procs'[p].op = procs[p].op, UNCHANGED <<cycles, lease, history>>,
           MovesAreRecorded',
           procs'[p].pc \in {"records", "moves"} =>
              /\ files'.current # NoDir /\ files'.archive[procs'[p].dest] = NoDir
              /\ procs'[p].pc = "moves" => <<procs'[p].id, procs'[p].dest, files'.current.ino>> \in intents',
           procs'[p].pc \in {"recreates", "finalizes"} =>
             (Claimed(p)' /\ procs'[p].id \in files'.current.has => procs'[p].id \in history'.late),
           \/ UNCHANGED env /\ procs'[p].pc \in Taking /\ procs'[p].plan = procs[p].plan
           \/ Away' \subseteq Away \ procs[p].plan
    PROVE  IInv'
  <1>1. TypeInv /\ ActiveInv /\ LockInv
    BY DEF IInv
  <1>2. procs[p].pc \in Leased /\ procs'[p].op = "archive"
    BY <1>1, ArchivesOne DEF Taking, Leased, Archiving
  <1>3. UNCHANGED env => Away' = Away
    BY DEF Away
  <1>4. LeaseInv' /\ MovesAreRecorded' /\ MoveInv' /\ SealInv' /\ IdeaInv'
    BY <1>2, <1>3, LeasedKeeps
  <1>5. ActiveInv' /\ LockInv'
    BY <1>1, <1>2, RowsAlone
  <1> QED
    BY <1>4, <1>5 DEF IInv

LEMMA RollsBackKeeps ==
    ASSUME IInv, NEW p \in Procs, MoveIdeaFails(p) \/ Fails(p)
    PROVE  IInv'
  <1>1. TypeInv /\ MovesAreRecorded
    BY DEF IInv
  <1>2. /\ TypeInv' /\ UNCHANGED <<cycles, intents, lease, files, day, history>>
        /\ Continues(p, "ideas", "ends") \/ Continues(p, "fails", "ends")
        /\ Away' \subseteq Away \ procs[p].plan
    BY <1>1, RollsBackTo
  <1>3. /\ Moves(p, procs'[p]) /\ procs'[p].op = procs[p].op /\ procs[p].pc \in Taking /\ procs'[p].pc = "ends"
    BY <1>2 DEF Continues, Taking
  <1>4. MovesAreRecorded'
    BY <1>1, <1>2, RecordedKept
  <1> QED
    BY <1>2, <1>3, <1>4, TakesKeeps

LEMMA InspectKeeps ==
    ASSUME IInv, NEW p \in Procs, Inspect(p)
    PROVE  IInv'
  <1>1. TypeInv /\ MovesAreRecorded
    BY DEF IInv
  <1>2. /\ TypeInv' /\ UNCHANGED <<cycles, intents, lease, env, day, history>>
        /\ procs[p].pc = "ideas" /\ Moves(p, procs'[p])
        /\ procs'[p].op = procs[p].op /\ procs'[p].plan = procs[p].plan
        /\ \/ /\ procs'[p].pc = "records" /\ UNCHANGED files
              /\ files.current # NoDir /\ files.archive[procs'[p].dest] = NoDir
           \/ procs'[p].pc = "recreates" /\ UNCHANGED files /\ files.current = NoDir
           \/ procs'[p].pc = "recreates" /\ files' = Removed /\ files.current.has = {}
           \/ procs'[p].pc = "fails" /\ UNCHANGED files
    BY <1>1, InspectTo
  <1>3. NoDir.has = {}
    BY DEF NoDir
  <1>4. files'.archive = files.archive /\ (procs'[p].pc = "recreates" => files'.current.has = {})
    BY <1>1, <1>2, <1>3, RemovedOK
  <1>5. MovesAreRecorded'
    BY <1>1, <1>2, <1>4, RecordedKept
  <1>6. procs[p].pc \in Taking /\ procs'[p].pc \in Taking /\ procs'[p].pc \notin {"moves", "finalizes"}
    BY <1>2 DEF Taking
  <1>7. procs'[p].pc = "records" => files'.current # NoDir /\ files'.archive[procs'[p].dest] = NoDir
    BY <1>2
  <1> QED
    BY <1>2, <1>4, <1>5, <1>6, <1>7, TakesKeeps

LEMMA RecordArchiveMoveKeeps ==
    ASSUME IInv, NEW p \in Procs, RecordArchiveMove(p)
    PROVE  IInv'
  <1>1. TypeInv /\ MovesAreRecorded /\ MoveInv
    BY DEF IInv
  <1>2. procs[p].pc = "records"
    BY DEF RecordArchiveMove, At
  <1>3. files.current # NoDir /\ files.archive[procs[p].dest] = NoDir
    BY <1>1, <1>2 DEF MoveInv
  <1>4. /\ TypeInv' /\ UNCHANGED <<cycles, lease, files, env, day, history>>
        /\ Continues(p, "records", "moves")
        /\ intents' = intents \cup {<<procs[p].id, procs[p].dest, files.current.ino>>}
    BY <1>1, <1>3, RecordArchiveMoveTo
  <1>5. MovesAreRecorded'
    BY <1>1, <1>4, RecordedKept
  <1>6. /\ Moves(p, procs'[p]) /\ procs'[p].op = procs[p].op /\ procs'[p].id = procs[p].id
        /\ procs'[p].plan = procs[p].plan /\ procs'[p].dest = procs[p].dest /\ procs'[p].pc = "moves"
        /\ procs[p].pc \in Taking /\ procs'[p].pc \in Taking
    BY <1>4 DEF Continues, Taking
  <1>7. /\ files'.current # NoDir /\ files'.archive[procs'[p].dest] = NoDir
        /\ <<procs'[p].id, procs'[p].dest, files'.current.ino>> \in intents'
    BY <1>3, <1>4, <1>6
  <1> QED
    BY <1>4, <1>5, <1>6, <1>7, TakesKeeps

LEMMA MoveCurrentKeeps ==
    ASSUME IInv, NEW p \in Procs, MoveCurrent(p)
    PROVE  IInv'
  <1>1. TypeInv /\ MovesAreRecorded /\ MoveInv
    BY DEF IInv
  <1>2. PICK dest : dest = procs[p].dest
    OBVIOUS
  <1>3. /\ TypeInv' /\ UNCHANGED <<cycles, intents, lease, env, day, history>>
        /\ \/ /\ procs[p].pc = "moves" /\ procs'[p].pc = "recreates" /\ Moves(p, procs'[p])
              /\ procs'[p].op = procs[p].op /\ procs'[p].id = procs[p].id /\ procs'[p].plan = procs[p].plan
              /\ files'.current = NoDir /\ files'.archive[dest] = files.current /\ dest \in Names
              /\ \A n \in Names \ {dest} : files'.archive[n] = files.archive[n]
           \/ Continues(p, "moves", "fails") /\ UNCHANGED files
    BY <1>1, <1>2, MoveCurrentTo
  <1>4. procs[p].pc = "moves"
    BY <1>3 DEF Continues
  <1>5. <<procs[p].id, dest, files.current.ino>> \in intents /\ procs[p].id \in DOMAIN cycles
    BY <1>1, <1>2, <1>4, ArchivesOne DEF MoveInv, Archiving, Leased
  <1>6. MovesAreRecorded'
    <2>1. CASE UNCHANGED files
      BY <1>1, <1>3, <2>1, RecordedKept
    <2>2. CASE /\ files'.archive[dest] = files.current
               /\ \A n \in Names \ {dest} : files'.archive[n] = files.archive[n]
      <3>1. ASSUME NEW n \in Names, files'.archive[n] # NoDir
            PROVE  \E c \in DOMAIN cycles : <<c, n, files'.archive[n].ino>> \in intents
        BY <1>1, <1>5, <2>2, <3>1 DEF MovesAreRecorded
      <3> QED
        BY <1>3, <3>1 DEF MovesAreRecorded
    <2> QED
      BY <1>3, <2>1, <2>2
  <1>7. /\ Moves(p, procs'[p]) /\ procs'[p].op = procs[p].op /\ procs'[p].plan = procs[p].plan
        /\ procs[p].pc \in Taking /\ procs'[p].pc \in Taking /\ procs'[p].pc \in {"recreates", "fails"}
    BY <1>3 DEF Continues, Taking
  <1>8. procs'[p].pc = "recreates" => files'.current.has = {}
    BY <1>3 DEF Continues, NoDir
  <1> QED
    BY <1>3, <1>6, <1>7, <1>8, TakesKeeps

LEMMA RecreateKeeps ==
    ASSUME IInv, NEW p \in Procs, Recreate(p)
    PROVE  IInv'
  <1>1. TypeInv /\ MovesAreRecorded /\ SealInv
    BY DEF IInv
  <1>2. /\ TypeInv' /\ UNCHANGED <<cycles, intents, lease, env, day, history>>
        /\ \/ Continues(p, "recreates", "finalizes") /\ FilesGrow({})
           \/ /\ Continues(p, "recreates", "restores") \/ Continues(p, "recreates", "fails")
              /\ UNCHANGED files
    BY <1>1, RecreateTo
  <1>3. /\ Moves(p, procs'[p]) /\ procs'[p].op = procs[p].op /\ procs'[p].id = procs[p].id
        /\ procs'[p].plan = procs[p].plan /\ procs[p].pc = "recreates"
        /\ procs[p].pc \in Taking /\ procs'[p].pc \in Taking /\ procs'[p].pc \in {"finalizes", "restores", "fails"}
    BY <1>2 DEF Continues, Taking
  <1>4. files'.archive = files.archive /\ files'.current.has \subseteq files.current.has
    BY <1>2 DEF FilesGrow
  <1>5. MovesAreRecorded'
    BY <1>1, <1>2, <1>4, RecordedKept
  <1>6. Claimed(p)' /\ procs'[p].id \in files'.current.has => procs'[p].id \in history'.late
    <2>1. Claimed(p)' => Claimed(p)
      BY <1>2, <1>3 DEF Claimed, Held
    <2> QED
      BY <1>1, <1>2, <1>3, <1>4, <2>1 DEF SealInv
  <1> QED
    BY <1>2, <1>3, <1>5, <1>6, TakesKeeps

LEMMA UnmakeKeeps ==
    ASSUME IInv, NEW p \in Procs, Unmake(p)
    PROVE  IInv'
  <1>1. TypeInv /\ MovesAreRecorded
    BY DEF IInv
  <1>2. /\ TypeInv' /\ UNCHANGED <<cycles, intents, lease, env, day, history>>
        /\ Continues(p, "unmakes", "restores") \/ Continues(p, "unmakes", "fails")
        /\ UNCHANGED files \/ (files' = Removed /\ files.current.has = {})
    BY <1>1, UnmakeTo
  <1>3. /\ Moves(p, procs'[p]) /\ procs'[p].op = procs[p].op
        /\ procs'[p].plan = procs[p].plan
        /\ procs[p].pc \in Taking /\ procs'[p].pc \in Taking /\ procs'[p].pc \in {"restores", "fails"}
    BY <1>2 DEF Continues, Taking
  <1>4. files'.archive = files.archive
    BY <1>1, <1>2, RemovedOK
  <1>5. MovesAreRecorded'
    BY <1>1, <1>2, <1>4, RecordedKept
  <1> QED
    BY <1>2, <1>3, <1>5, TakesKeeps

LEMMA RestoreKeeps ==
    ASSUME IInv, NEW p \in Procs, Restore(p)
    PROVE  IInv'
  <1>1. TypeInv /\ MovesAreRecorded
    BY DEF IInv
  <1>2. PICK dest : dest = procs[p].dest
    OBVIOUS
  <1>3. /\ TypeInv' /\ UNCHANGED <<cycles, intents, lease, env, day, history>>
        /\ Continues(p, "restores", "fails")
        /\ \/ UNCHANGED files
           \/ /\ files'.archive[dest] = NoDir /\ dest \in Names
              /\ \A n \in Names \ {dest} : files'.archive[n] = files.archive[n]
    BY <1>1, <1>2, RestoreTo
  <1>4. /\ Moves(p, procs'[p]) /\ procs'[p].op = procs[p].op
        /\ procs'[p].plan = procs[p].plan
        /\ procs[p].pc \in Taking /\ procs'[p].pc \in Taking /\ procs'[p].pc = "fails"
    BY <1>3 DEF Continues, Taking
  <1>5. MovesAreRecorded'
    BY <1>1, <1>3, RecordedKept
  <1> QED
    BY <1>3, <1>4, <1>5, TakesKeeps

LEMMA FinalizeArchiveKeeps ==
    ASSUME IInv, NEW p \in Procs, FinalizeArchive(p)
    PROVE  IInv'
  <1>1. TypeInv /\ ActiveInv /\ LockInv /\ MovesAreRecorded
    BY DEF IInv
  <1>2. PICK c \in DOMAIN cycles : c = procs[p].id
    BY <1>1, FinalizeArchiveTo
  <1>3. /\ TypeInv' /\ UNCHANGED <<intents, lease, files, day>>
        /\ env'.idea = env.idea /\ env'.archived = env.archived
        /\ \/ /\ Claimed(p) /\ Continues(p, "finalizes", "ends")
              /\ history' = [history EXCEPT !.sealed = @ \cup {c}]
              /\ DOMAIN cycles' = DOMAIN cycles /\ cycles'[c].status = "archived"
              /\ \A o \in DOMAIN cycles \ {c} : cycles'[o] = cycles[o]
              /\ \A o \in DOMAIN cycles : cycles'[o].holder = cycles[o].holder
           \/ /\ Continues(p, "finalizes", "unmakes") \/ Continues(p, "finalizes", "fails")
              /\ UNCHANGED <<cycles, history>>
    BY <1>1, <1>2, FinalizeArchiveTo
  <1>4. /\ Moves(p, procs'[p]) /\ procs'[p].op = procs[p].op
        /\ procs'[p].plan = procs[p].plan /\ procs[p].pc = "finalizes"
        /\ procs[p].pc \in Taking /\ procs'[p].pc \in {"ends", "unmakes", "fails"}
    BY <1>3 DEF Continues, Taking
  <1>5. Away' = Away
    BY <1>3 DEF Away
  <1>6. CASE /\ Claimed(p) /\ Continues(p, "finalizes", "ends")
             /\ history' = [history EXCEPT !.sealed = @ \cup {c}]
             /\ DOMAIN cycles' = DOMAIN cycles /\ cycles'[c].status = "archived"
             /\ \A o \in DOMAIN cycles \ {c} : cycles'[o] = cycles[o]
             /\ \A o \in DOMAIN cycles : cycles'[o].holder = cycles[o].holder
    <2>1. history'.sealed # {} /\ history'.crossed = history.crossed /\ history'.raced = history.raced
      <3>1. history \in [commands : Nat, deaths : Nat, crossed : BOOLEAN, raced : BOOLEAN,
                         late : SUBSET Ids, sealed : SUBSET Ids]
        BY <1>1 DEF TypeInv
      <3>2. history'.sealed = history.sealed \cup {c}
        BY <1>6, <3>1
      <3>3. history'.crossed = history.crossed /\ history'.raced = history.raced
        BY <1>6, <3>1
      <3> QED
        BY <3>2, <3>3
    <2>2. procs'[p].op = "archive" /\ procs[p].pc \in Leased
      BY <1>1, <1>4, ArchivesOne DEF Archiving, Leased
    <2>3. ActiveInv' /\ LockInv'
      <3>1. \A o \in DOMAIN cycles :
              /\ cycles'[o].status = "active" => cycles[o].status = "active"
              /\ \A q \in Procs \ {p} : cycles[o].holder = <<"cli", q>> => cycles'[o].holder = <<"cli", q>>
        BY <1>6
      <3> QED
        BY <1>1, <1>3, <1>4, <1>6, <2>1, <2>2, <3>1, ApartKeeps
    <2>4. MovesAreRecorded'
      BY <1>1, <1>3, <1>6, RecordedKept
    <2>5. LeaseInv'
      BY <1>3, <1>4, <2>2, LeaseKept DEF IInv
    <2>6. MoveInv'
      BY <1>4, <1>6, <2>2, MoveKept DEF IInv, Continues
    <2>7. SealInv'
      <3>1. Ids \cap {} = {}
        OBVIOUS
      <3>2. procs'[p].pc = "ends"
        BY <1>6 DEF Continues
      <3> QED
        BY <1>4, <2>2, <3>1, <3>2, SealKept DEF IInv
    <2>8. IdeaInv'
      BY <2>1 DEF IdeaInv
    <2> QED
      BY <1>3, <2>3, <2>4, <2>5, <2>6, <2>7, <2>8 DEF IInv
  <1>7. CASE /\ Continues(p, "finalizes", "unmakes") \/ Continues(p, "finalizes", "fails")
             /\ UNCHANGED <<cycles, history>>
    <2>1. MovesAreRecorded'
      BY <1>1, <1>3, <1>7, RecordedKept
    <2>2. procs'[p].pc \in {"unmakes", "fails"} /\ procs'[p].pc \in Taking
      BY <1>7 DEF Continues, Taking
    <2>3. procs[p].pc \in Leased /\ procs'[p].op = "archive"
      BY <1>1, <1>4, ArchivesOne DEF Archiving, Leased
    <2>4. LeaseInv' /\ MovesAreRecorded' /\ MoveInv' /\ SealInv' /\ IdeaInv'
      BY <1>3, <1>4, <1>5, <1>7, <2>1, <2>2, <2>3, LeasedKeeps
    <2>5. ActiveInv' /\ LockInv'
      BY <1>1, <1>3, <1>4, <1>7, <2>3, RowsAlone
    <2> QED
      BY <1>3, <2>4, <2>5 DEF IInv
  <1> QED
    BY <1>3, <1>6, <1>7

LEMMA EndsKeeps ==
    ASSUME IInv, NEW p \in Procs, Ends(p)
    PROVE  IInv'
  <1>1. TypeInv /\ ActiveInv /\ LockInv
    BY DEF IInv
  <1>2. PICK c \in DOMAIN cycles : c = procs[p].id
    BY <1>1, EndsTo
  <1>3. /\ TypeInv' /\ UNCHANGED <<intents, files, env, day, history>>
        /\ procs[p].pc = "ends" /\ Moves(p, Idle) /\ lease' = NoProc
        /\ \/ UNCHANGED cycles
           \/ Relocks(c) /\ cycles[c].holder = <<"archive", p>>
    BY <1>1, <1>2, EndsTo
  <1>4. Moves(p, procs'[p]) /\ procs'[p] = Idle
    BY <1>3 DEF Moves
  <1>5. procs[p].pc \in Leased \ Taking /\ DOMAIN cycles' = DOMAIN cycles
    BY <1>3 DEF Leased, Taking, Relocks
  <1>6. LeaseInv' /\ MovesAreRecorded' /\ MoveInv' /\ SealInv' /\ IdeaInv'
    BY <1>3, <1>4, <1>5, Rest, EarlyKeeps
  <1>7. ActiveInv' /\ LockInv'
    <2>1. CASE UNCHANGED cycles
      BY <1>1, <1>3, <1>4, <2>1, Rest, RowsAlone
    <2>2. CASE Relocks(c) /\ cycles[c].holder = <<"archive", p>>
      BY <1>1, <1>3, <1>4, <2>2, RowsRelocked, Rest
    <2> QED
      BY <1>3, <2>1, <2>2
  <1> QED
    BY <1>3, <1>6, <1>7 DEF IInv
-----------------------------------------------------------------------------
(* Deaths and the rest of the world.                                       *)

LEMMA DieKeeps ==
    ASSUME IInv, NEW p \in Procs, Die(p)
    PROVE  IInv'
  <1>1. TypeInv /\ LeaseInv /\ MovesAreRecorded /\ MoveInv /\ SealInv /\ ActiveInv /\ LockInv
    BY DEF IInv
  <1>2. /\ TypeInv' /\ UNCHANGED <<intents, files, env, day>> /\ Moves(p, Idle)
        /\ lease' = (IF lease = p THEN NoProc ELSE lease)
        /\ history'.deaths # 0 /\ history'.late = history.late
        /\ history'.crossed = history.crossed /\ history'.raced = history.raced
        /\ DOMAIN cycles' = DOMAIN cycles
        /\ \A c \in DOMAIN cycles :
             /\ cycles'[c].status = cycles[c].status
             /\ cycles'[c].holder # cycles[c].holder =>
                  cycles[c].holder = <<"cli", p>> /\ cycles'[c].holder = Dead
    BY <1>1, DieTo
  <1>3. Moves(p, procs'[p]) /\ procs'[p] = Idle
    BY <1>2 DEF Moves
  <1>4. FilesGrow({}) /\ ClaimsKept /\ Ids \cap {} = {}
    BY <1>1, <1>2, SameFiles, Rest DEF ClaimsKept
  <1>5. LeaseInv'
    BY <1>1, <1>2, <1>3, Rest, LeaseKept
  <1>6. MovesAreRecorded'
    BY <1>1, <1>2, RecordedKept
  <1>7. MoveInv'
    BY <1>1, <1>2, <1>3, <1>4, Rest, MoveKept
  <1>8. SealInv'
    BY <1>1, <1>2, <1>3, <1>4, Rest, SealKept
  <1>9. IdeaInv'
    BY <1>2 DEF IdeaInv
  <1>10. ActiveInv' /\ LockInv'
    BY <1>1, <1>2, <1>3, Rest, ApartKeeps
  <1> QED
    BY <1>2, <1>5, <1>6, <1>7, <1>8, <1>9, <1>10 DEF IInv

\* Nothing the commands rely on changes.
LEMMA NobodyMoves ==
    ASSUME LeaseInv, ActiveInv, LockInv, UNCHANGED <<cycles, lease, procs>>,
           history'.crossed = history.crossed, history'.raced = history.raced
    PROVE  LeaseInv' /\ ActiveInv' /\ LockInv'
  <1>1. LeaseInv'
    BY DEF LeaseInv
  <1>2. ActiveInv'
    BY DEF ActiveInv, With
  <1>3. LockInv'
    BY DEF LockInv
  <1> QED
    BY <1>1, <1>2, <1>3

LEMMA WriteEvidenceKeeps ==
    ASSUME IInv, WriteEvidence
    PROVE  IInv'
  <1>1. TypeInv /\ LeaseInv /\ MovesAreRecorded /\ MoveInv /\ SealInv /\ IdeaInv /\ ActiveInv /\ LockInv
    BY DEF IInv
  <1>2. PICK g : g = GetActiveCycle
    OBVIOUS
  <1>3. /\ TypeInv' /\ UNCHANGED <<cycles, intents, lease, env, procs, day>>
        /\ g \in DOMAIN cycles /\ FilesGrow({g})
        /\ cycles[g].holder[1] = "archive" => g \in history'.late
        /\ history.late \subseteq history'.late
        /\ history'.sealed = history.sealed /\ history'.deaths = history.deaths
        /\ history'.crossed = history.crossed /\ history'.raced = history.raced
    BY <1>1, <1>2, WriteEvidenceTo
  <1>4. MovesAreRecorded'
    BY <1>1, <1>3, RecordedKept DEF FilesGrow
  <1>5. MoveInv'
    BY <1>1, <1>3 DEF MoveInv, FilesGrow
  <1>6. ASSUME NEW q \in Procs, procs[q].pc \in {"recreates", "finalizes"}, Claimed(q),
               procs[q].id \in files'.current.has
        PROVE  procs[q].id \in history'.late
    <2>1. CASE procs[q].id \in files.current.has
      BY <1>1, <1>3, <1>6, <2>1 DEF SealInv
    <2>2. CASE procs[q].id = g
      BY <1>3, <1>6, <2>2 DEF Claimed, Held
    <2> QED
      BY <1>3, <1>6, <2>1, <2>2 DEF FilesGrow
  <1>7. SealInv'
    BY <1>3, <1>6 DEF SealInv, Claimed, Held
  <1>8. IdeaInv'
    BY <1>1, <1>3 DEF IdeaInv
  <1>9. LeaseInv' /\ ActiveInv' /\ LockInv'
    BY <1>1, <1>3, NobodyMoves
  <1> QED
    BY <1>3, <1>4, <1>5, <1>7, <1>8, <1>9 DEF IInv

LEMMA WorldKeeps ==
    ASSUME IInv, TypeInv', UNCHANGED <<cycles, intents, lease, files, procs, history>>,
           env'.idea = env.idea, env'.archived = env.archived
    PROVE  IInv'
  <1>1. LeaseInv' /\ ActiveInv' /\ LockInv'
    BY NobodyMoves DEF IInv
  <1>2. MovesAreRecorded'
    BY DEF IInv, MovesAreRecorded
  <1>3. MoveInv'
    BY DEF IInv, MoveInv
  <1>4. SealInv'
    BY DEF IInv, SealInv, Claimed, Held
  <1>5. IdeaInv'
    BY DEF IInv, IdeaInv
  <1> QED
    BY <1>1, <1>2, <1>3, <1>4, <1>5 DEF IInv
-----------------------------------------------------------------------------
(* The invariant.                                                          *)

LEMMA IInvInit == Init => IInv
  <1> SUFFICES ASSUME Init PROVE IInv
    OBVIOUS
  <1>1. \A p \in Procs : procs[p] = Idle
    BY DEF Init
  <1>2. PICK s \in {"active", "completed", "cancelled"} :
          cycles = <<[number |-> 1, status |-> s, holder |-> Free,
                      done |-> IF s = "active" THEN None ELSE 1]>>
    BY DEF Init
  <1>3. TypeInv
    <2>1. PICK done \in 0..(MaxDay + 1) : done = IF s = "active" THEN None ELSE 1
      BY BoundsAssumption DEF None
    <2>2. PICK r : r = [number |-> 1, status |-> s, holder |-> Free, done |-> done]
      OBVIOUS
    <2>3. r \in Row
      BY <2>2, Bounds DEF Row, Holders, Statuses
    <2>4. cycles = <<r>>
      BY <1>2, <2>1, <2>2
    <2>5. cycles \in Rows /\ Len(cycles) = 1 /\ 1 \in DOMAIN cycles
      BY <2>3, <2>4 DEF Rows
    <2>6. files \in Files
      <3>1. [ino |-> 1, has |-> {1}] \in Dirs
        BY BoundsAssumption, Bounds DEF Dirs
      <3>2. 1 \in 0..MaxInodes
        BY BoundsAssumption
      <3> QED
        BY <3>1, <3>2 DEF Init, Files
    <2>7. env \in Env
      BY DEF Init, Env
    <2>8. procs \in [Procs -> Process] /\ \A p \in Procs : ProcessOK(procs[p])
      BY IdleOK DEF Init
    <2>9. day \in Days
      BY BoundsAssumption DEF Init, Days
    <2>10. history \in [commands : Nat, deaths : Nat, crossed : BOOLEAN, raced : BOOLEAN,
                        late : SUBSET Ids, sealed : SUBSET Ids]
      BY DEF Init
    <2>11. intents \subseteq (Ids \X Names \X (1..MaxInodes)) /\ lease \in Procs \cup {NoProc}
      BY DEF Init
    <2> QED
      BY <2>5, <2>6, <2>7, <2>8, <2>9, <2>10, <2>11, Bounds DEF TypeInv
  <1>4. LeaseInv /\ MoveInv /\ SealInv
    BY <1>1, Rest DEF LeaseInv, MoveInv, SealInv, Leased, Taking
  <1>5. MovesAreRecorded
    BY DEF Init, MovesAreRecorded
  <1>6. IdeaInv
    BY DEF Init, IdeaInv
  <1>7. ActiveInv
    <2>1. With("active") \subseteq {1}
      BY <1>2 DEF With
    <2> QED
      BY <1>1, <2>1, Rest DEF ActiveInv
  <1>8. LockInv
    BY <1>1, Rest DEF LockInv
  <1> QED
    BY <1>3, <1>4, <1>5, <1>6, <1>7, <1>8 DEF IInv

\* The steps of a command that is not within an archive.
Others(p) ==
    \/ Reads(p) \/ Locks(p) \/ Applies(p) \/ ReadsLock(p) \/ Unlocks(p)
    \/ StartsNew(p) \/ Prepares(p) \/ Numbers(p) \/ ReadsPrevious(p)
    \/ Demotes(p) \/ Inserts(p)
    \/ StartsResume(p) \/ DemotesOther(p) \/ Promotes(p)
    \/ StartsArchive(p)

LEMMA OthersKeep ==
    ASSUME IInv, NEW p \in Procs, Others(p)
    PROVE  IInv' /\ Outside(p)
  <1>1. TypeInv' /\ Outside(p) /\ ActiveInv' /\ LockInv'
    BY ReadsKeeps, LocksKeeps, AppliesKeeps, ReadsLockKeeps, UnlocksKeeps, StartsNewKeeps, CreatesKeeps,
       DemotesKeeps, InsertsKeeps, StartsResumeKeeps, DemotesOtherKeeps, PromotesKeeps, StartsArchiveKeeps
       DEF Others
  <1>2. LeaseInv' /\ MovesAreRecorded' /\ MoveInv' /\ SealInv' /\ IdeaInv'
    BY <1>1, OutsideKeeps DEF IInv
  <1> QED
    BY <1>1, <1>2 DEF IInv

LEMMA ArchivesKeep ==
    ASSUME IInv, NEW p \in Procs, Archives(p)
    PROVE  IInv'
  BY OpenSafeStoreKeeps, RecoverArchiveLockKeeps, AcquireArchiveLockKeeps, ArchiveOpenspecKeeps,
     PrepareIdeaArchiveKeeps, MoveIdeaKeeps, RollsBackKeeps, InspectKeeps, RecordArchiveMoveKeeps,
     MoveCurrentKeeps, RecreateKeeps, FinalizeArchiveKeeps, UnmakeKeeps, RestoreKeeps, EndsKeeps
     DEF Archives

LEMMA ByWhom ==
    ASSUME Next
    PROVE  \/ \E p \in Procs : Others(p) \/ Archives(p) \/ Die(p)
           \/ WriteEvidence \/ Configure \/ Midnight
  BY DEF Next, Others

LEMMA IInvNext == IInv /\ [Next]_vars => IInv'
  <1> SUFFICES ASSUME IInv, [Next]_vars PROVE IInv'
    OBVIOUS
  <1>1. CASE UNCHANGED vars
    <2>1. TypeInv'
      BY <1>1 DEF vars, IInv, TypeInv, ProcessOK
    <2> QED
      BY <1>1, <2>1, WorldKeeps DEF vars
  <1>2. CASE WriteEvidence
    BY <1>2, WriteEvidenceKeeps
  <1>3. CASE Configure \/ Midnight
    BY <1>3, ConfigureTo, MidnightTo, WorldKeeps DEF IInv
  <1>4. ASSUME NEW p \in Procs, Others(p) \/ Archives(p) \/ Die(p) PROVE IInv'
    BY <1>4, OthersKeep, ArchivesKeep, DieKeeps
  <1> QED
    BY <1>1, <1>2, <1>3, <1>4, ByWhom

\* The inductive invariant, for any project.
THEOREM Invariance == Spec => []IInv
  BY IInvInit, IInvNext, PTL DEF Spec

\* Each variable keeps its type.
THEOREM TypeCorrect == Spec => []TypeOK
  <1>1. IInv => TypeOK
    BY DEF IInv, TypeInv, TypeOK, Rows, Row, Files, Env
  <1> QED
    BY <1>1, Invariance, PTL

\* A directory is in the archive only under the intent recorded for it before it
\* was moved (RecordArchiveMove), wherever archives fail and processes die.
THEOREM Recorded == Spec => []MovesAreRecorded
  <1>1. IInv => MovesAreRecorded
    BY DEF IInv
  <1> QED
    BY <1>1, Invariance, PTL

\* The notes an archive took are back when it ends without archiving.
THEOREM NotesReturn == Spec => []IdeasFollowTheCycle
  <1>1. IInv => IdeasFollowTheCycle
    <2> SUFFICES ASSUME IInv, lease = NoProc, history.deaths = 0, history.sealed = {}
                 PROVE  env.archived \subseteq env.idea
      BY DEF IdeasFollowTheCycle
    <2>1. \A p \in Procs : procs[p].pc \notin Taking
      BY NoProcAssumption DEF IInv, LeaseInv, Leased, Taking
    <2> QED
      BY <2>1 DEF IInv, IdeaInv
  <1> QED
    BY <1>1, Invariance, PTL

\* Creating and resuming a cycle (PrepareCycle, Resume) leave one active cycle at
\* most, without the cycle lock, as long as two of them do not overlap.
THEOREM AtMostOneActive == Spec => []OneActiveCycle
  <1>1. IInv => OneActiveCycle
    <2> SUFFICES ASSUME IInv, ~history.raced PROVE Cardinality(With("active")) <= 1
      BY DEF OneActiveCycle
    <2>1. \A c, d \in With("active") : c = d
      BY DEF IInv, ActiveInv
    <2>2. CASE With("active") = {}
      BY <2>2, FS_EmptySet
    <2>3. CASE With("active") # {}
      <3>1. PICK c : With("active") = {c}
        BY <2>1, <2>3
      <3> QED
        BY <3>1, FS_Singleton
    <2> QED
      BY <2>2, <2>3
  <1> QED
    BY <1>1, Invariance, PTL
-----------------------------------------------------------------------------
(* What a step may do.                                                     *)

\* Steps that keep the archive and what is in the current directory.
LEMMA KeepsEvidence ==
    ASSUME files'.archive = files.archive, files.current.has \subseteq files'.current.has
    PROVE  Evidence \subseteq Evidence'
  BY DEF Evidence

LEMMA EvidenceStep == IInv /\ [Next]_vars => [Evidence \subseteq Evidence']_vars
  <1> SUFFICES ASSUME IInv, Next PROVE Evidence \subseteq Evidence'
    OBVIOUS
  <1>1. TypeInv /\ MoveInv
    BY DEF IInv
  <1>2. ASSUME NEW x, FilesGrow(x) PROVE Evidence \subseteq Evidence'
    BY <1>2, KeepsEvidence DEF FilesGrow
  <1>3. ASSUME UNCHANGED files PROVE Evidence \subseteq Evidence'
    BY <1>3, KeepsEvidence
  <1>4. ASSUME files' = Removed, files.current.has = {} PROVE Evidence \subseteq Evidence'
    BY <1>1, <1>4, RemovedOK, KeepsEvidence
  <1>5. ASSUME NEW p \in Procs, Others(p) PROVE Evidence \subseteq Evidence'
    <2>1. FilesGrow({Config})
      BY <1>5, OthersKeep DEF Outside
    <2> QED
      BY <1>2, <2>1
  <1>6. ASSUME NEW p \in Procs, Inspect(p) \/ Unmake(p) PROVE Evidence \subseteq Evidence'
    <2>1. UNCHANGED files \/ (files' = Removed /\ files.current.has = {})
      BY <1>1, <1>6, InspectTo, UnmakeTo
    <2> QED
      BY <1>3, <1>4, <2>1
  <1>7. ASSUME NEW p \in Procs, Recreate(p) PROVE Evidence \subseteq Evidence'
    <2>1. FilesGrow({}) \/ UNCHANGED files
      BY <1>1, <1>7, RecreateTo
    <2> QED
      BY <1>2, <1>3, <2>1
  <1>8. ASSUME NEW p \in Procs, MoveCurrent(p), ~UNCHANGED files PROVE Evidence \subseteq Evidence'
    <2>1. PICK dest : dest = procs[p].dest
      OBVIOUS
    <2>2. /\ procs[p].pc = "moves" /\ files'.archive[dest] = files.current /\ dest \in Names
          /\ \A n \in Names \ {dest} : files'.archive[n] = files.archive[n]
      BY <1>1, <1>8, <2>1, MoveCurrentTo
    <2>3. files.archive[dest] = NoDir /\ NoDir.has = {}
      BY <1>1, <2>1, <2>2 DEF MoveInv, NoDir
    <2> QED
      BY <2>2, <2>3 DEF Evidence
  <1>9. ASSUME NEW p \in Procs, Restore(p), ~UNCHANGED files PROVE Evidence \subseteq Evidence'
    <2>1. PICK dest : dest = procs[p].dest
      OBVIOUS
    <2>2. /\ files.current.has = {} /\ dest \in Names
          /\ files'.current = files.archive[dest]
          /\ \A n \in Names \ {dest} : files'.archive[n] = files.archive[n]
      BY <1>1, <1>9, <2>1, RestoreTo
    <2> QED
      BY <2>2 DEF Evidence
  <1>10. ASSUME NEW p \in Procs, Archives(p) PROVE Evidence \subseteq Evidence'
    <2>1. \/ UNCHANGED files \/ Inspect(p) \/ Unmake(p) \/ Recreate(p) \/ MoveCurrent(p) \/ Restore(p)
      BY <1>10 DEF Archives, OpenSafeStore, RecoverArchiveLock, AcquireArchiveLock, ArchiveOpenspec,
                   PrepareIdeaArchive, MoveIdea, MoveIdeaFails, RecordArchiveMove, FinalizeArchive, Fails, Ends
    <2> QED
      BY <1>3, <1>6, <1>7, <1>8, <1>9, <2>1
  <1>11. CASE WriteEvidence
    BY <1>1, <1>2, <1>11, WriteEvidenceTo
  <1>12. ASSUME NEW p \in Procs, Die(p) PROVE Evidence \subseteq Evidence'
    BY <1>1, <1>3, <1>12, DieTo
  <1>13. CASE Configure \/ Midnight
    BY <1>1, <1>3, <1>13, ConfigureTo, MidnightTo
  <1> QED
    BY <1>5, <1>10, <1>11, <1>12, <1>13, ByWhom

\* No archive loses evidence, however it fails, is repeated or is cut short: the
\* moves of the current directory (MoveCurrent, Restore), its removals and new
\* ones keep what agents wrote in one of the directories.
THEOREM NoEvidenceIsLost == Spec => EvidenceIsNeverLost
  BY IInvInit, IInvNext, EvidenceStep, PTL DEF Spec, EvidenceIsNeverLost

\* Only the process that has the claim finishes an archive.
LEMMA SealedBy ==
    ASSUME IInv, Next, NEW c \in history'.sealed \ history.sealed
    PROVE  \E p \in Procs : FinalizeArchive(p) /\ procs[p].id = c /\ Claimed(p) /\ ~env'.creds
                            /\ procs[p].pc = "finalizes"
  <1>1. TypeInv
    BY DEF IInv
  <1>2. ASSUME NEW p \in Procs, Others(p) PROVE FALSE
    BY <1>2, OthersKeep DEF Outside
  <1>3. ASSUME NEW p \in Procs, Die(p) PROVE FALSE
    BY <1>1, <1>3, DieTo
  <1>4. ASSUME WriteEvidence \/ Configure \/ Midnight PROVE FALSE
    BY <1>1, <1>4, WriteEvidenceTo, ConfigureTo, MidnightTo
  <1>5. ASSUME NEW p \in Procs, Archives(p)
        PROVE  FinalizeArchive(p) /\ procs[p].id = c /\ Claimed(p) /\ ~env'.creds /\ procs[p].pc = "finalizes"
    <2>1. FinalizeArchive(p)
      BY <1>5 DEF Archives, OpenSafeStore, RecoverArchiveLock, AcquireArchiveLock, ArchiveOpenspec,
                  PrepareIdeaArchive, MoveIdea, MoveIdeaFails, Inspect, RecordArchiveMove, MoveCurrent,
                  Recreate, Unmake, Restore, Fails, Ends
    <2>2. PICK i : i = procs[p].id
      OBVIOUS
    <2>3. \/ /\ Claimed(p) /\ Continues(p, "finalizes", "ends") /\ ~env'.creds
             /\ history' = [history EXCEPT !.sealed = @ \cup {i}]
          \/ UNCHANGED history
      BY <1>1, <2>1, <2>2, FinalizeArchiveTo
    <2>4. history \in [commands : Nat, deaths : Nat, crossed : BOOLEAN, raced : BOOLEAN,
                       late : SUBSET Ids, sealed : SUBSET Ids]
      BY <1>1 DEF TypeInv
    <2>5. Claimed(p) /\ Continues(p, "finalizes", "ends") /\ ~env'.creds /\ history'.sealed = history.sealed \cup {i}
      BY <2>3, <2>4
    <2>6. i = c
      BY <2>5
    <2> QED
      BY <2>1, <2>2, <2>5, <2>6 DEF Continues
  <1> QED
    BY <1>2, <1>3, <1>4, <1>5, ByWhom

\* A cycle is archived only with its credentials gone and its evidence in the
\* archive (FinalizeArchive after MoveCurrent), but for what agents wrote while
\* it was being archived.
THEOREM CompletedIsDone == Spec => ArchivedMeansDone
  <1>1. IInv /\ [Next]_vars =>
          [\A c \in history'.sealed \ history.sealed : ~env'.creds /\ Archived(c)]_vars
    <2> SUFFICES ASSUME IInv, Next, NEW c \in history'.sealed \ history.sealed
                 PROVE  ~env'.creds /\ Archived(c)
      OBVIOUS
    <2>1. PICK p \in Procs : procs[p].id = c /\ Claimed(p) /\ ~env'.creds /\ procs[p].pc = "finalizes"
      BY SealedBy
    <2>2. c \in files.current.has => c \in history.late
      BY <2>1 DEF IInv, SealInv
    <2>3. Archived(c)
      BY <2>2 DEF Archived, Evidence
    <2> QED
      BY <2>1, <2>3
  <1> QED
    BY <1>1, IInvInit, IInvNext, PTL DEF Spec, ArchivedMeansDone

\* No command works under the lock of a cycle while an archive of it finishes
\* (AcquireLock and AcquireArchiveLock), unless two commands crossed each other.
THEOREM ExclusiveArchive == Spec => FinalizesAlone
  <1>1. IInv /\ [Next]_vars =>
          [~history.crossed => \A c \in history'.sealed \ history.sealed :
             \A p \in Procs : procs[p].id = c => procs[p].pc \notin {"applies", "releases"}]_vars
    <2> SUFFICES ASSUME IInv, Next, ~history.crossed, NEW c \in history'.sealed \ history.sealed,
                        NEW q \in Procs, procs[q].id = c, procs[q].pc \in {"applies", "releases"}
                 PROVE  FALSE
      OBVIOUS
    <2>1. PICK p \in Procs : procs[p].id = c /\ Claimed(p)
      BY SealedBy
    <2>2. cycles[c].holder = <<"archive", p>>
      BY <2>1 DEF Claimed, Held
    <2>3. cycles[c].holder = <<"cli", q>>
      BY DEF IInv, LockInv
    <2> QED
      BY <2>2, <2>3, Rest
  <1> QED
    BY <1>1, IInvInit, IInvNext, PTL DEF Spec, FinalizesAlone
=============================================================================
